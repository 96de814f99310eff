-------------------------- MODULE SourceLoadProofs --------------------------
(***************************************************************************)
(* Theorems about SourceLoad, for any manual whose extraction is a document *)
(* (IsDocument), any cap and any overlap below it:                         *)
(*                                                                         *)
(*   ChunksKeepToTheCap           no chunk is longer than the cap, each has *)
(*                                words of its own, and overlap continues  *)
(*                                the chunk before (WithinCap)             *)
(*   PassagesAreUnderTheirSection a passage's words lie in the section it   *)
(*                                is cited under (CitedUnderItsSection)    *)
(*   PassagesAreOnTheirPages      its pages are those of its words         *)
(*                                (CitedOnItsPages)                        *)
(*   NoProcedureIsDivided         no unit of prose goes on with the steps of *)
(*                                the unit before it (ProceduresStayWhole) *)
(*   EveryLineIsIndexedOnce       its text is in its passages whole, once    *)
(*                                and in reading order, but for what may be *)
(*                                dropped (BodyIsIndexedOnce)              *)
(*   HeadingsStayWithTheirRows    a chunk that has a row of a table has the *)
(*                                heading above it, unless that was split   *)
(*                                or fills a chunk (HeadingLeadsRows)       *)
(*                                                                         *)
(* The stages before packing give regions whose units are made of the lines *)
(* of the region, in sections' order; packing keeps to the cap (PackOK),    *)
(* places only what its regions have, whole or in part (FromRegions), and   *)
(* loses none of it (NothingLost), and repeats the heading that the next   *)
(* row stands under (HeadingsLead).                                        *)
(***************************************************************************)
EXTENDS SourceLoad, ListsProofs

-----------------------------------------------------------------------------
(* Sums of words.                                                          *)

\* The sum of the first counts does not depend on the others.
LEMMA TotalAppend ==
  ASSUME NEW counts \in Seq(Nat), NEW c \in Nat
  PROVE  /\ \A k \in 0..Len(counts) : Total(Append(counts, c), k) = Total(counts, k)
         /\ Total(Append(counts, c), Len(counts) + 1) = Total(counts, Len(counts)) + c
<1>1. PICK n \in Nat : n = Len(counts)
  OBVIOUS
<1>2. PICK more : more = Append(counts, c)
  OBVIOUS
<1>3. more \in Seq(Nat) /\ Len(more) = n + 1 /\ more[n + 1] = c /\ \A k \in 1..n : more[k] = counts[k]
  BY <1>1, <1>2, AppendProperties
<1>4. /\ Total(counts, 0) = 0 /\ Total(more, 0) = 0
      /\ \A k \in 1..n : Total(counts, k) = Total(counts, k - 1) + counts[k]
      /\ \A k \in 1..(n + 1) : Total(more, k) = Total(more, k - 1) + more[k]
  BY <1>1, <1>3, TotalIs
<1> DEFINE W == {k \in 0..n : Total(more, k) = Total(counts, k)}
<1>5. 0 \in W
  BY <1>4
<1>6. ASSUME NEW k \in 1..n, k - 1 \in W PROVE k \in W
  <2>1. k \in 1..(n + 1) /\ more[k] = counts[k]
    BY <1>3
  <2> QED
    BY <1>4, <1>6, <2>1
<1>7. \A k \in 0..n : k \in W
  <2> HIDE DEF W
  <2> QED
    BY <1>5, <1>6, EveryPlace
<1>8. Total(more, n + 1) = Total(more, n) + c
  BY <1>3, <1>4
<1> QED
  BY <1>1, <1>2, <1>7, <1>8

\* A sum grows with its counts.
LEMMA TotalGrows ==
  ASSUME NEW counts \in Seq(Nat), NEW j \in 0..Len(counts)
  PROVE  \A k \in j..Len(counts) : Total(counts, j) <= Total(counts, k)
<1>1. PICK n \in Nat : n = Len(counts)
  OBVIOUS
<1>2. /\ \A k \in 0..n : Total(counts, k) \in Nat
      /\ \A k \in 1..n : Total(counts, k) = Total(counts, k - 1) + counts[k] /\ counts[k] \in Nat
  <2>1. \A k \in 1..n : counts[k] \in Nat
    BY <1>1
  <2> QED
    BY <1>1, <2>1, TotalIs
<1> DEFINE W == {k \in 0..n : k >= j => Total(counts, j) <= Total(counts, k)}
<1>3. 0 \in W
  <2>1. 0 >= j => j = 0
    BY <1>1
  <2> QED
    BY <1>1, <1>2, <2>1
<1>4. ASSUME NEW k \in 1..n, k - 1 \in W PROVE k \in W
  <2>1. CASE k = j
    BY <1>1, <1>2, <2>1
  <2>2. CASE k # j
    <3>1. k >= j => k - 1 >= j
      BY <1>1, <2>2
    <3> QED
      BY <1>1, <1>2, <1>4, <3>1
  <2> QED
    BY <2>1, <2>2
<1>5. \A k \in 0..n : k \in W
  <2> HIDE DEF W
  <2> QED
    BY <1>3, <1>4, EveryPlace
<1> QED
  BY <1>1, <1>5

-----------------------------------------------------------------------------
(* Packing.                                                                *)

\* An interval of a region's words that is not empty.
ChunkUnit ==
  {u \in [lines : Seq(Nat), from : Nat, upto : Nat, stops : SUBSET Nat,
          atomic : BOOLEAN, repeat : BOOLEAN, partial : BOOLEAN] : u.from < u.upto}

Interval == {i \in [from : Nat, upto : Nat] : i.from <= i.upto}

ChunkPart == [region : Nat, head : Seq(ChunkUnit), overlap : Interval, own : Seq(ChunkUnit)]

LEMMA UnitWords ==
  ASSUME NEW u \in ChunkUnit
  PROVE  Words(u) \in Nat /\ Words(u) > 0 /\ Words(u) = u.upto - u.from
BY DEF ChunkUnit, Words

LEMMA AllWordsIs ==
  ASSUME NEW units \in Seq(ChunkUnit)
  PROVE  /\ AllWords(<<>>) = 0
         /\ AllWords(units) \in Nat
         /\ \A u \in ChunkUnit : AllWords(Append(units, u)) = AllWords(units) + Words(u)
<1>1. PICK n \in Nat : n = Len(units) /\ DOMAIN units = 1..n
  OBVIOUS
<1>2. PICK counts : counts = [k \in DOMAIN units |-> Words(units[k])]
  OBVIOUS
<1>3. \A k \in 1..n : Words(units[k]) \in Nat
  BY <1>1, UnitWords
<1>4. counts \in Seq(Nat) /\ Len(counts) = n
  BY <1>1, <1>2, <1>3
<1>5. AllWords(units) = Total(counts, n) /\ Total(counts, n) \in Nat
  <2>1. AllWords(units) = Total(counts, n)
    BY <1>1, <1>2 DEF AllWords
  <2>2. n \in 0..Len(counts)
    BY <1>4
  <2> QED
    BY <1>4, <2>1, <2>2, TotalIs
<1>6. AllWords(<<>>) = 0
  <2>1. PICK nothing : nothing = <<>> /\ Len(nothing) = 0 /\ DOMAIN nothing = 1..0
    OBVIOUS
  <2>2. PICK none : none = [k \in DOMAIN nothing |-> Words(nothing[k])]
    OBVIOUS
  <2>3. none = <<>>
    <3>1. none = [k \in 1..0 |-> Words(nothing[k])]
      BY <2>1, <2>2
    <3> QED
      BY <3>1
  <2>4. none \in Seq(Nat)
    BY <2>3
  <2>5. Total(none, 0) = 0
    BY <2>4, TotalIs
  <2>6. AllWords(nothing) = Total(none, Len(nothing))
    BY <2>2 DEF AllWords
  <2> QED
    BY <2>1, <2>5, <2>6
<1>7. ASSUME NEW u \in ChunkUnit PROVE AllWords(Append(units, u)) = AllWords(units) + Words(u)
  <2>1. PICK more : more = Append(units, u)
    OBVIOUS
  <2>2. /\ DOMAIN more = 1..(n + 1) /\ Len(more) = n + 1 /\ more[n + 1] = u
        /\ \A k \in 1..n : more[k] = units[k]
    BY <1>1, <2>1, AppendProperties
  <2>3. Words(u) \in Nat
    BY UnitWords
  <2>4. PICK longer : longer = Append(counts, Words(u))
    OBVIOUS
  <2>5. [k \in DOMAIN more |-> Words(more[k])] = longer
    <3>1. /\ Len(longer) = n + 1 /\ longer[n + 1] = Words(u)
          /\ \A k \in 1..n : longer[k] = counts[k]
      BY <1>4, <2>3, <2>4, AppendProperties
    <3>2. longer = [k \in 1..(n + 1) |-> longer[k]]
      <4>1. longer \in Seq(Nat)
        BY <1>4, <2>3, <2>4, AppendProperties
      <4> QED
        BY <3>1, <4>1
    <3>3. \A k \in 1..(n + 1) : longer[k] = Words(more[k])
      <4>1. \A k \in 1..(n + 1) : k \in 1..n \/ k = n + 1
        BY <1>1
      <4> QED
        BY <1>1, <1>2, <2>2, <3>1, <4>1
    <3> QED
      BY <2>2, <3>2, <3>3
  <2>6. Total(longer, n + 1) = Total(counts, n) + Words(u)
    BY <1>4, <2>3, <2>4, TotalAppend
  <2> QED
    BY <1>5, <2>1, <2>2, <2>5, <2>6 DEF AllWords
<1> QED
  BY <1>5, <1>6, <1>7

\* A list of units that is not empty has words.
LEMMA SomeWords ==
  ASSUME NEW units \in Seq(ChunkUnit), units # <<>>
  PROVE  AllWords(units) > 0
<1>1. PICK n \in Nat : n = Len(units) /\ n # 0
  BY EmptySeq
<1>2. PICK front, last : front = SubSeq(units, 1, n - 1) /\ last = units[n]
  OBVIOUS
<1>a. front \in Seq(ChunkUnit) /\ last \in ChunkUnit
  BY <1>1, <1>2
<1>3. units = Append(front, last)
  <2>1. Len(front) = n - 1 /\ \A i \in 1..(n - 1) : front[i] = units[i]
    BY <1>1, <1>2
  <2>2. PICK more : more = Append(front, last)
    OBVIOUS
  <2>3. /\ more \in Seq(ChunkUnit) /\ Len(more) = n /\ more[n] = last
        /\ \A i \in 1..(n - 1) : more[i] = front[i]
    BY <1>1, <1>a, <2>1, <2>2, AppendProperties
  <2>4. \A i \in 1..n : more[i] = units[i]
    <3>1. \A i \in 1..n : i \in 1..(n - 1) \/ i = n
      BY <1>1
    <3> QED
      BY <1>2, <2>1, <2>3, <3>1
  <2> QED
    BY <1>1, <2>2, <2>3, <2>4
<1>4. AllWords(units) = AllWords(front) + Words(last) /\ AllWords(front) \in Nat
  BY <1>a, <1>3, AllWordsIs
<1> QED
  BY <1>a, <1>4, UnitWords

LEMMA LeastIn ==
  ASSUME NEW S \in SUBSET Nat, S # {}
  PROVE  Min(S) \in S /\ \A y \in S : Min(S) <= y
<1>1. \E x \in S : \A y \in S : x <= y
  BY LeastNumber
<1> QED
  BY <1>1 DEF Min

\* Overlap is the end of the unit, of at most OverlapWords words.
LEMMA OverlapIs ==
  ASSUME NEW u \in ChunkUnit
  PROVE  /\ Overlap(u) \in Interval
         /\ Overlap(u).upto = u.upto
         /\ Words(Overlap(u)) \in 0..OverlapWords
<1> DEFINE starts == {u.from} \cup {s \in u.stops : u.from < s /\ s < u.upto}
           near == {s \in starts : u.upto - s <= OverlapWords}
           from == IF near = {} THEN u.upto - OverlapWords ELSE Min(near)
<1>1. /\ u.from \in Nat /\ u.upto \in Nat /\ u.from < u.upto /\ u.stops \in SUBSET Nat
  BY DEF ChunkUnit
<1>2. starts \in SUBSET Nat /\ \A s \in starts : u.from <= s /\ s < u.upto
  BY <1>1
<1>3. from \in Nat /\ from <= u.upto /\ u.upto - from <= OverlapWords
  <2>1. CASE near = {}
    <3>1. u.from \in starts /\ u.from \notin near
      BY <2>1
    <3>2. ~(u.upto - u.from <= OverlapWords)
      BY <3>1
    <3> HIDE DEF near, starts
    <3> QED
      BY <1>1, <2>1, <3>2, CapAssumption
  <2>2. CASE near # {}
    <3>1. near \in SUBSET Nat
      BY <1>2
    <3>2. Min(near) \in near
      BY <2>2, <3>1, LeastIn
    <3>3. Min(near) \in starts /\ u.upto - Min(near) <= OverlapWords
      BY <3>2
    <3>4. from = Min(near)
      BY <2>2
    <3>5. PICK m : m = Min(near)
      OBVIOUS
    <3>6. m \in Nat /\ m < u.upto /\ u.upto - m <= OverlapWords
      BY <1>2, <3>3, <3>5
    <3> HIDE DEF near, starts, from
    <3> QED
      BY <1>1, <3>4, <3>5, <3>6
  <2> QED
    BY <2>1, <2>2
<1>4. Overlap(u) = [from |-> from, upto |-> u.upto]
  BY DEF Overlap
<1> HIDE DEF from
<1> QED
  BY <1>1, <1>3, <1>4, CapAssumption DEF Interval, Words

\* A unit is cut inside the room.
LEMMA CutIs ==
  ASSUME NEW u \in ChunkUnit, NEW room \in Nat, room > 0
  PROVE  CutAt(u, room) \in (u.from + 1)..(u.from + room)
<1> DEFINE ends == {s \in u.stops : u.from < s /\ s <= u.from + room}
<1>1. u.from \in Nat /\ u.stops \in SUBSET Nat
  BY DEF ChunkUnit
<1>2. ends \in SUBSET (1..(u.from + room)) /\ u.from + room \in Nat
  BY <1>1
<1>3. ends # {} => Max(ends) \in ends
  BY <1>2, MaxIn
<1> QED
  BY <1>1, <1>3 DEF CutAt

\* What the packing of well formed regions keeps to.
PackType ==
  /\ regions \in Seq(Seq(ChunkUnit)) /\ region \in 0..Len(regions)
  /\ queue \in Seq(ChunkUnit) /\ repeats \in Seq(ChunkUnit) /\ running \in BOOLEAN
  /\ head \in Seq(ChunkUnit) /\ overlap \in Interval /\ own \in Seq(ChunkUnit)
  /\ used \in Nat /\ parts \in Seq(ChunkPart)

\* What the open chunk has, and what it may still take.
Room ==
  /\ used = AllWords(head) + Words(overlap) + AllWords(own)
  /\ used <= WordCap
  /\ own = <<>> => used < WordCap

\* What is carried is repeated units, or the end of the chunk before.
Carried ==
  /\ head = <<>> \/ overlap = NoOverlap
  /\ overlap # NoOverlap =>
       /\ parts # <<>> /\ parts[Len(parts)].region = region
       /\ Last(parts[Len(parts)].own).upto = overlap.upto
       /\ ~Last(parts[Len(parts)].own).atomic

PackOK == PackType /\ (stage # "loaded" => Room /\ Carried) /\ WithinCap

\* A chunk that is closed keeps to the cap.
LEMMA ClosedPart ==
  ASSUME PackType, Carried, WithinCap, NEW units \in Seq(ChunkUnit), units # <<>>,
         AllWords(head) + Words(overlap) + AllWords(units) <= WordCap
  PROVE  /\ Append(parts, Part(units)) \in Seq(ChunkPart)
         /\ parts' = Append(parts, Part(units)) => WithinCap'
<1>1. PICK n \in Nat : n = Len(parts)
  BY DEF PackType
<1>2. PICK part : part = Part(units)
  OBVIOUS
<1>3. /\ part.head = head /\ part.overlap = overlap /\ part.own = units /\ part.region = region
      /\ part \in ChunkPart
  BY <1>2 DEF Part, PackType, ChunkPart
<1>4. PICK more : more = Append(parts, part)
  OBVIOUS
<1>5. /\ more \in Seq(ChunkPart) /\ Len(more) = n + 1 /\ more[n + 1] = part
      /\ \A k \in 1..n : more[k] = parts[k]
  BY <1>1, <1>3, <1>4, AppendProperties DEF PackType
<1>6. ASSUME parts' = more PROVE WithinCap'
  <2>1. SUFFICES ASSUME NEW k \in 1..(n + 1)
                 PROVE  /\ AllWords(more[k].head) + Words(more[k].overlap) + AllWords(more[k].own) <= WordCap
                        /\ AllWords(more[k].own) > 0
                        /\ more[k].head = <<>> \/ more[k].overlap = NoOverlap
                        /\ more[k].overlap # NoOverlap =>
                             /\ k > 1 /\ more[k - 1].region = more[k].region
                             /\ Last(more[k - 1].own).upto = more[k].overlap.upto
                             /\ ~Last(more[k - 1].own).atomic
    <3>1. DOMAIN more = 1..(n + 1)
      BY <1>5
    <3> QED
      BY <1>6, <2>1, <3>1 DEF WithinCap
  <2>2. CASE k = n + 1
    <3>1. AllWords(units) > 0
      BY SomeWords
    <3>2. overlap # NoOverlap => n > 0 /\ n \in 1..n /\ k - 1 = n
      BY <1>1, <2>2, EmptySeq DEF Carried, PackType
    <3>3. overlap # NoOverlap => more[k - 1] = parts[n]
      BY <1>5, <3>2
    <3> QED
      BY <1>1, <1>3, <1>5, <2>2, <3>1, <3>2, <3>3 DEF Carried
  <2>3. CASE k # n + 1
    <3>0. k \in 1..n
      BY <1>1, <2>3
    <3>1. k \in 1..n /\ k \in DOMAIN parts /\ more[k] = parts[k]
      <4>1. DOMAIN parts = 1..n
        BY <1>1 DEF PackType
      <4> QED
        BY <1>5, <3>0, <4>1
    <3>2. k > 1 => k - 1 \in 1..n /\ more[k - 1] = parts[k - 1]
      BY <1>5, <3>1
    <3> QED
      BY <3>1, <3>2 DEF WithinCap
  <2> QED
    BY <2>2, <2>3
<1> QED
  BY <1>2, <1>4, <1>5, <1>6

\* A chunk starts with less than the cap.
LEMMA StartedChunk ==
  ASSUME PackType, NEW run \in Seq(ChunkUnit), NEW next, NEW previous \in ChunkUnit,
         StartChunk(run, next, previous),
         region' = region, parts' # <<>>, parts'[Len(parts')].region = region,
         Last(parts'[Len(parts')].own).upto = previous.upto,
         Last(parts'[Len(parts')].own).atomic = previous.atomic
  PROVE  /\ head' \in Seq(ChunkUnit) /\ overlap' \in Interval /\ own' \in Seq(ChunkUnit)
         /\ used' \in Nat /\ Room' /\ Carried'
<1>1. own' = <<>> /\ own' \in Seq(ChunkUnit)
  BY DEF StartChunk
<1>2. PICK carried : carried = RepeatsThatFit(run, next)
  OBVIOUS
<1>3. PICK over : over = CarriedOver(run, next, previous)
  OBVIOUS
<1>4. head' = carried /\ overlap' = over /\ used' = AllWords(carried) + Words(over)
  BY <1>2, <1>3 DEF StartChunk
<1>5. carried \in Seq(ChunkUnit) /\ AllWords(carried) \in Nat /\ AllWords(carried) < WordCap
  <2>1. carried = <<>> \/ (carried = run /\ ~(AllWords(run) >= WordCap))
    BY <1>2 DEF RepeatsThatFit
  <2>2. AllWords(<<>>) = 0 /\ AllWords(run) \in Nat
    <3>1. run \in Seq(ChunkUnit)
      OBVIOUS
    <3>2. AllWords(run) \in Nat
      BY <3>1, AllWordsIs
    <3>3. AllWords(<<>>) = 0
      BY <3>1, AllWordsIs
    <3> QED
      BY <3>2, <3>3
  <2>3. carried \in Seq(ChunkUnit)
    <3>1. <<>> \in Seq(ChunkUnit)
      OBVIOUS
    <3>2. carried = <<>> \/ carried = run
      BY <2>1
    <3> QED
      BY ONLY <3>1, <3>2, run \in Seq(ChunkUnit)
  <2>4. CASE carried = <<>>
    <3>1. AllWords(carried) = 0
      BY <2>2, <2>4
    <3> QED
      BY <2>3, <3>1, CapAssumption
  <2>5. CASE carried = run /\ ~(AllWords(run) >= WordCap)
    <3>1. PICK words \in Nat : words = AllWords(run)
      BY <2>2
    <3> QED
      BY <2>3, <2>5, <3>1, CapAssumption
  <2> QED
    BY <2>1, <2>4, <2>5
<1>6. NoOverlap \in Interval /\ Words(NoOverlap) = 0
  BY DEF NoOverlap, Interval, Words
<1>7. \/ over = NoOverlap
      \/ carried = <<>> /\ ~previous.atomic /\ over = Overlap(previous)
  BY <1>2, <1>3 DEF CarriedOver
<1>8. over \in Interval /\ Words(over) \in 0..OverlapWords
  BY <1>6, <1>7, OverlapIs, CapAssumption
<1>9. AllWords(carried) + Words(over) \in Nat /\ AllWords(carried) + Words(over) < WordCap
  <2>1. CASE over = NoOverlap
    BY <1>5, <1>6, <2>1
  <2>2. CASE over # NoOverlap
    <3>1. AllWords(carried) = 0
      BY <1>7, <2>2, AllWordsIs
    <3> QED
      BY <1>8, <3>1, CapAssumption
  <2> QED
    BY <2>1, <2>2
<1>10. Room'
  <2>1. AllWords(own') = 0
    BY <1>1, AllWordsIs
  <2>2. used' = AllWords(head') + Words(overlap') + AllWords(own')
    BY <1>4, <1>9, <2>1
  <2> QED
    BY <1>4, <1>9, <2>2, CapAssumption DEF Room
<1>11. Carried'
  <2>1. overlap' # NoOverlap => overlap'.upto = previous.upto /\ ~previous.atomic
    BY <1>4, <1>7, OverlapIs
  <2> QED
    BY <1>4, <1>7, <2>1 DEF Carried
<1> QED
  BY <1>1, <1>4, <1>5, <1>8, <1>9, <1>10, <1>11

LEMMA RunType ==
  ASSUME PackType, NEW u \in ChunkUnit
  PROVE  RunWith(u) \in Seq(ChunkUnit)
<1>1. Append(repeats, u) \in Seq(ChunkUnit) /\ <<u>> \in Seq(ChunkUnit) /\ <<>> \in Seq(ChunkUnit)
  BY AppendProperties DEF PackType
<1> QED
  BY <1>1 DEF RunWith, PackType

LEMMA PlaceKeeps ==
  ASSUME PackOK, stage # "loaded", stage' # "loaded", Place
  PROVE  PackOK'
<1>1. PackType /\ Room /\ Carried /\ WithinCap
  BY DEF PackOK
<1>2. PICK u : u = Head(queue)
  OBVIOUS
<1>3. u \in ChunkUnit /\ Tail(queue) \in Seq(ChunkUnit)
  BY <1>1, <1>2, HeadTailProperties DEF PackType, Place
<1>4. /\ own' = Append(own, u) /\ used' = used + Words(u) /\ used + Words(u) <= WordCap
      /\ repeats' = RunWith(u) /\ running' = u.repeat /\ queue' = Tail(queue)
      /\ UNCHANGED <<regions, region, head, overlap, parts>>
  BY <1>2 DEF Place, Fits
<1>5. own' \in Seq(ChunkUnit) /\ own' # <<>>
  <2>1. own \in Seq(ChunkUnit)
    BY <1>1 DEF PackType
  <2> QED
    BY <1>3, <1>4, <2>1, AppendProperties
<1>6. PackType'
  <2>1. u.repeat \in BOOLEAN /\ Words(u) \in Nat
    BY <1>3, UnitWords DEF ChunkUnit
  <2>2. repeats' \in Seq(ChunkUnit)
    BY <1>1, <1>3, <1>4, RunType
  <2>3. used' \in Nat
    BY <1>1, <1>4, <2>1 DEF PackType
  <2> QED
    BY <1>1, <1>3, <1>4, <1>5, <2>1, <2>2, <2>3 DEF PackType
<1>7. Room'
  <2>1. AllWords(own') = AllWords(own) + Words(u) /\ AllWords(own) \in Nat /\ Words(u) \in Nat
    BY <1>1, <1>3, <1>4, AllWordsIs, UnitWords DEF PackType
  <2>2. AllWords(head') = AllWords(head) /\ Words(overlap') = Words(overlap)
    BY <1>4
  <2>3. AllWords(head) \in Nat /\ Words(overlap) \in Nat
    BY <1>1, AllWordsIs DEF PackType, Interval, Words
  <2>4. used' = AllWords(head') + Words(overlap') + AllWords(own')
    BY <1>1, <1>4, <2>1, <2>2, <2>3 DEF Room
  <2> QED
    BY <1>4, <1>5, <2>4 DEF Room
<1>8. Carried' /\ WithinCap'
  BY <1>1, <1>4 DEF Carried, WithinCap
<1> QED
  BY <1>6, <1>7, <1>8 DEF PackOK

LEMMA CloseKeeps ==
  ASSUME PackOK, stage # "loaded", stage' # "loaded", Close
  PROVE  PackOK'
<1>1. PackType /\ Room /\ Carried /\ WithinCap
  BY DEF PackOK
<1>2. /\ own # <<>> /\ parts' = Append(parts, Part(own)) /\ StartChunk(repeats, queue, Last(own))
      /\ UNCHANGED <<regions, region, queue, repeats, running>>
  BY DEF Close
<1>3. PICK n \in Nat : n = Len(own) /\ n # 0 /\ Last(own) \in ChunkUnit
  BY <1>1, <1>2, EmptySeq DEF PackType, Last
<1>4. parts' \in Seq(ChunkPart) /\ WithinCap'
  <2>1. AllWords(head) + Words(overlap) + AllWords(own) <= WordCap /\ own \in Seq(ChunkUnit)
    BY <1>1 DEF Room, PackType
  <2> QED
    BY <1>1, <1>2, <2>1, ClosedPart
<1>5. /\ parts' # <<>> /\ parts'[Len(parts')] = Part(own)
  <2>1. Part(own) \in ChunkPart
    BY <1>1 DEF PackType, Part, ChunkPart
  <2> QED
    BY <1>1, <1>2, <2>1, AppendProperties, SMTT(20) DEF PackType
<1>6. parts'[Len(parts')].region = region /\ parts'[Len(parts')].own = own
  BY <1>5 DEF Part
<1>7. /\ head' \in Seq(ChunkUnit) /\ overlap' \in Interval /\ own' \in Seq(ChunkUnit)
      /\ used' \in Nat /\ Room' /\ Carried'
  <2>1. repeats \in Seq(ChunkUnit) /\ region' = region
    BY <1>1, <1>2 DEF PackType
  <2>2. /\ Last(parts'[Len(parts')].own).upto = Last(own).upto
        /\ Last(parts'[Len(parts')].own).atomic = Last(own).atomic
    BY <1>6
  <2> QED
    BY <1>1, <1>2, <1>3, <1>5, <1>6, <2>1, <2>2, StartedChunk
<1>8. PackType'
  BY <1>1, <1>2, <1>4, <1>7 DEF PackType
<1> QED
  BY <1>4, <1>7, <1>8 DEF PackOK

LEMMA SplitKeeps ==
  ASSUME PackOK, stage # "loaded", stage' # "loaded", Split
  PROVE  PackOK'
<1>1. PackType /\ Room /\ Carried /\ WithinCap
  BY DEF PackOK
<1>2. PICK unit, room, at, mark : /\ unit = Head(queue) /\ room = Max({WordCap - used, 1})
                                  /\ at = CutAt(unit, room) /\ mark = (unit.partial \/ unit.atomic)
  OBVIOUS
<1>3. PICK one, rest : /\ one = [unit EXCEPT !.upto = at, !.partial = mark]
                       /\ rest = [unit EXCEPT !.from = at, !.partial = mark]
  OBVIOUS
<1>4. PICK after : after = <<rest>> \o Tail(queue)
  OBVIOUS
<1>5. /\ queue # <<>> /\ ~Fits(unit) /\ own = <<>>
      /\ parts' = Append(parts, Part(<<one>>)) /\ queue' = after
      /\ repeats' = RunWith(one) /\ running' = unit.repeat
      /\ StartChunk(RunWith(one), after, one)
      /\ UNCHANGED <<regions, region>>
  BY <1>2, <1>3, <1>4 DEF Split
<1>6. unit \in ChunkUnit /\ Tail(queue) \in Seq(ChunkUnit)
  BY <1>1, <1>2, <1>5, HeadTailProperties DEF PackType
<1>7. used \in Nat /\ used < WordCap /\ room = WordCap - used /\ room \in Nat /\ room > 0
  <2>1. used \in Nat /\ used < WordCap
    BY <1>1, <1>5 DEF PackType, Room
  <2>2. PICK r \in Nat : r = WordCap - used /\ r > 0
    BY <2>1, CapAssumption
  <2>3. r = Max({r, 1})
    BY <2>2 DEF Max
  <2> QED
    BY <1>2, <2>1, <2>2, <2>3
<1>8. at \in (unit.from + 1)..(unit.from + room) /\ at < unit.upto /\ at \in Nat
  <2>1. unit.from \in Nat /\ unit.upto \in Nat
    BY <1>6 DEF ChunkUnit
  <2>2. ~(used + (unit.upto - unit.from) <= WordCap)
    BY <1>5 DEF Fits, Words
  <2>3. at \in (unit.from + 1)..(unit.from + room)
    BY <1>2, <1>6, <1>7, CutIs
  <2> QED
    BY <1>7, <2>1, <2>2, <2>3, CapAssumption
<1>9. /\ one \in ChunkUnit /\ rest \in ChunkUnit
      /\ one.upto = at /\ one.from = unit.from /\ one.atomic = unit.atomic /\ one.repeat = unit.repeat
  <2>1. mark \in BOOLEAN
    BY <1>2, <1>6 DEF ChunkUnit
  <2>2. /\ one = [lines |-> unit.lines, from |-> unit.from, upto |-> at, stops |-> unit.stops,
                    atomic |-> unit.atomic, repeat |-> unit.repeat, partial |-> mark]
        /\ rest = [lines |-> unit.lines, from |-> at, upto |-> unit.upto, stops |-> unit.stops,
                    atomic |-> unit.atomic, repeat |-> unit.repeat, partial |-> mark]
    BY <1>3, <1>6 DEF ChunkUnit
  <2>3. /\ unit.lines \in Seq(Nat) /\ unit.from \in Nat /\ unit.upto \in Nat /\ unit.stops \in SUBSET Nat
        /\ unit.atomic \in BOOLEAN /\ unit.repeat \in BOOLEAN
    BY <1>6 DEF ChunkUnit
  <2>4. at \in Nat /\ unit.from < at /\ at < unit.upto
    BY <1>7, <1>8, <2>3
  <2> QED
    BY <2>1, <2>2, <2>3, <2>4 DEF ChunkUnit
<1>10. Words(one) = at - unit.from /\ Words(one) <= room /\ Words(one) \in Nat
  <2>1. unit.from \in Nat
    BY <1>6 DEF ChunkUnit
  <2> QED
    BY <1>7, <1>8, <1>9, <2>1 DEF Words
<1>11. <<one>> \in Seq(ChunkUnit) /\ <<one>> # <<>> /\ AllWords(<<one>>) = Words(one)
  <2>1. <<one>> = Append(<<>>, one) /\ <<>> \in Seq(ChunkUnit)
    OBVIOUS
  <2>2. AllWords(Append(<<>>, one)) = 0 + Words(one)
    BY <1>9, <2>1, AllWordsIs
  <2> QED
    BY <1>9, <1>10, <2>1, <2>2
<1>12. parts' \in Seq(ChunkPart) /\ WithinCap'
  <2>1. AllWords(own) = 0
    BY <1>1, <1>5, AllWordsIs DEF PackType
  <2>2. used = AllWords(head) + Words(overlap) + 0
    BY <1>1, <2>1 DEF Room
  <2>3. AllWords(head) \in Nat /\ Words(overlap) \in Nat
    BY <1>1, AllWordsIs DEF PackType, Interval, Words
  <2>4. AllWords(head) + Words(overlap) + AllWords(<<one>>) <= WordCap
    BY <1>7, <1>10, <1>11, <2>2, <2>3, CapAssumption
  <2> QED
    BY <1>1, <1>5, <1>11, <2>4, ClosedPart
<1>13. parts' # <<>> /\ parts'[Len(parts')] = Part(<<one>>)
  <2>1. Part(<<one>>) \in ChunkPart
    BY <1>1, <1>11 DEF PackType, Part, ChunkPart
  <2>2. parts \in Seq(ChunkPart)
    BY <1>1 DEF PackType
  <2>3. PICK part : part = Part(<<one>>)
    OBVIOUS
  <2>4. part \in ChunkPart /\ parts' = Append(parts, part)
    BY <1>5, <2>1, <2>3
  <2>5. Len(parts') = Len(parts) + 1 /\ parts' # <<>> /\ parts'[Len(parts) + 1] = part
    BY <2>2, <2>4, AppendProperties
  <2> QED
    BY <2>3, <2>5
<1>14. parts'[Len(parts')].region = region /\ Last(parts'[Len(parts')].own) = one
  BY <1>13 DEF Part, Last
<1>15. RunWith(one) \in Seq(ChunkUnit)
  BY <1>1, <1>9, RunType
<1>16. /\ head' \in Seq(ChunkUnit) /\ overlap' \in Interval /\ own' \in Seq(ChunkUnit)
       /\ used' \in Nat /\ Room' /\ Carried'
  <2>1. region' = region
    BY <1>5
  <2> QED
    BY <1>1, <1>5, <1>9, <1>13, <1>14, <1>15, <2>1, StartedChunk
<1>17. after \in Seq(ChunkUnit)
  BY <1>4, <1>6, <1>9, ConcatProperties
<1>18. PackType'
  <2>1. running' \in BOOLEAN
    BY <1>5, <1>6 DEF ChunkUnit
  <2> QED
    BY <1>1, <1>5, <1>12, <1>15, <1>16, <1>17, <2>1 DEF PackType
<1> QED
  BY <1>12, <1>16, <1>18 DEF PackOK

LEMMA NextRegionKeeps ==
  ASSUME PackOK, stage # "loaded", stage' # "loaded", NextRegion
  PROVE  PackOK'
<1>1. PackType /\ Room /\ Carried /\ WithinCap
  BY DEF PackOK
<1>2. /\ region < Len(regions) /\ region' = region + 1 /\ queue' = regions[region + 1]
      /\ parts' = IF own = <<>> THEN parts ELSE Append(parts, Part(own))
      /\ repeats' = <<>> /\ running' = FALSE
      /\ head' = <<>> /\ overlap' = NoOverlap /\ own' = <<>> /\ used' = 0
      /\ regions' = regions
  BY DEF NextRegion
<1>3. parts' \in Seq(ChunkPart) /\ WithinCap'
  <2>1. CASE own = <<>>
    <3>1. parts' = parts
      BY <1>2, <2>1
    <3> QED
      BY <1>1, <3>1 DEF PackType, WithinCap
  <2>2. CASE own # <<>>
    <3>1. AllWords(head) + Words(overlap) + AllWords(own) <= WordCap /\ own \in Seq(ChunkUnit)
      BY <1>1 DEF Room, PackType
    <3>2. parts' = Append(parts, Part(own))
      BY <1>2, <2>2
    <3> QED
      BY <1>1, <2>2, <3>1, <3>2, ClosedPart
  <2> QED
    BY <2>1, <2>2
<1>4. NoOverlap \in Interval /\ Words(NoOverlap) = 0
  BY DEF NoOverlap, Interval, Words
<1>5. PackType'
  <2>1. region' \in 0..Len(regions') /\ queue' \in Seq(ChunkUnit)
    BY <1>1, <1>2 DEF PackType
  <2>2. repeats' \in Seq(ChunkUnit) /\ head' \in Seq(ChunkUnit) /\ own' \in Seq(ChunkUnit)
    BY <1>2
  <2>3. running' \in BOOLEAN /\ used' \in Nat /\ overlap' \in Interval
    BY <1>2, <1>4
  <2> QED
    BY <1>1, <1>2, <1>3, <2>1, <2>2, <2>3 DEF PackType
<1>6. Room'
  <2>1. AllWords(<<>>) = 0
    BY <1>1, AllWordsIs DEF PackType
  <2> QED
    BY <1>2, <1>4, <2>1, CapAssumption DEF Room
<1>7. Carried'
  BY <1>2 DEF Carried
<1> QED
  BY <1>3, <1>5, <1>6, <1>7 DEF PackOK

LEMMA FinishKeeps ==
  ASSUME PackOK, stage # "loaded", Finish
  PROVE  PackOK'
<1>1. PackType /\ Room /\ Carried /\ WithinCap
  BY DEF PackOK
<1>2. /\ parts' = (IF own = <<>> THEN parts ELSE Append(parts, Part(own))) /\ own' = <<>>
      /\ stage' = "loaded"
      /\ UNCHANGED <<regions, region, queue, repeats, running, head, overlap, used>>
  BY DEF Finish, AllParts
<1>3. parts' \in Seq(ChunkPart) /\ WithinCap'
  <2>1. CASE own = <<>>
    <3>1. parts' = parts
      BY <1>2, <2>1
    <3> QED
      BY <1>1, <3>1 DEF PackType, WithinCap
  <2>2. CASE own # <<>>
    <3>1. AllWords(head) + Words(overlap) + AllWords(own) <= WordCap /\ own \in Seq(ChunkUnit)
      BY <1>1 DEF Room, PackType
    <3>2. parts' = Append(parts, Part(own))
      BY <1>2, <2>2
    <3> QED
      BY <1>1, <2>2, <3>1, <3>2, ClosedPart
  <2> QED
    BY <2>1, <2>2
<1>4. PackType'
  BY <1>1, <1>2, <1>3 DEF PackType
<1> QED
  BY <1>2, <1>3, <1>4 DEF PackOK

-----------------------------------------------------------------------------
(* Reading order.                                                          *)

LEMMA GreatestIn ==
  ASSUME NEW n \in Nat, NEW S \in SUBSET (0..n), S # {}
  PROVE  Max(S) \in S /\ \A y \in S : y <= Max(S)
<1> DEFINE Bounds == {m \in Nat : \A x \in S : x <= m}
<1>1. n \in Bounds /\ Bounds \in SUBSET Nat
  OBVIOUS
<1>2. PICK m \in Bounds : \A k \in Bounds : m <= k
  <2> HIDE DEF Bounds
  <2> QED
    BY <1>1, LeastNumber
<1>3. m \in S
  <2>1. CASE m = 0
    <3>1. PICK x \in S : x \in 0..n /\ x <= m
      BY <1>2
    <3> QED
      BY <2>1, <3>1
  <2>2. CASE m # 0
    <3>1. m - 1 \in Nat /\ m - 1 \notin Bounds
      BY <1>2, <2>2
    <3>2. PICK x \in S : ~(x <= m - 1)
      BY <3>1
    <3>3. x = m
      BY <1>2, <3>2
    <3> QED
      BY <3>3
  <2> QED
    BY <2>1, <2>2
<1>4. \A y \in S : y \in Int /\ m >= y /\ y <= m
  BY <1>2
<1>5. Max(S) \in S /\ \A y \in S : Max(S) >= y
  BY <1>3, <1>4 DEF Max
<1> QED
  BY <1>4, <1>5

LEMMA ListIn ==
  ASSUME NEW T, NEW list \in Seq(T), NEW S, ToSet(list) \subseteq S
  PROVE  list \in Seq(S) /\ \A i \in 1..Len(list) : list[i] \in S
<1>1. \A i \in 1..Len(list) : list[i] \in S
  BY DEF ToSet
<1> QED
  BY <1>1

LEMMA ReadingOrder ==
  ASSUME NEW n \in Nat, NEW S \in SUBSET (1..n)
  PROVE  /\ InReadingOrder(S) \in Seq(S) /\ InReadingOrder(S) \in Seq(Nat)
         /\ Ascending(InReadingOrder(S))
         /\ ToSet(InReadingOrder(S)) = S
<1>1. PICK m : m = Max({0} \cup S)
  OBVIOUS
<1>2. m \in 0..n /\ \A s \in S : s \in 1..m
  <2>1. PICK B : B = {0} \cup S
    OBVIOUS
  <2>2. B \in SUBSET (0..n) /\ B # {}
    BY <2>1
  <2>3. Max(B) \in B /\ \A y \in B : y <= Max(B)
    BY <2>2, GreatestIn
  <2>4. m = Max(B)
    BY <1>1, <2>1
  <2>5. m \in 0..n /\ \A y \in B : y <= m
    BY <2>2, <2>3, <2>4
  <2>6. ASSUME NEW s \in S PROVE s \in 1..m
    <3>1. s \in B /\ s \in 1..n
      BY <2>1
    <3>2. s <= m
      BY <2>5, <3>1
    <3> QED
      BY <2>5, <3>1, <3>2
  <2> QED
    BY <2>5, <2>6
<1>3. PICK all : all = [i \in 1..m |-> i]
  OBVIOUS
<1>4. all \in Seq(Nat) /\ Ascending(all) /\ ToSet(all) = 1..m
  <2>1. Len(all) = m /\ \A i \in 1..m : all[i] = i
    BY <1>2, <1>3
  <2>2. all \in Seq(Nat)
    BY <1>2, <1>3
  <2>3. Ascending(all)
    BY <1>2, <2>1 DEF Ascending
  <2>4. ToSet(all) = {all[i] : i \in 1..Len(all)}
    BY <2>2, ToSetIs
  <2>5. ToSet(all) = 1..m
    BY <1>2, <2>1, <2>4
  <2> QED
    BY <2>2, <2>3, <2>5
<1>5. InReadingOrder(S) = Among(all, S)
  BY <1>1, <1>3 DEF InReadingOrder
<1>6. Among(all, S) \in Seq(Nat) /\ ToSet(Among(all, S)) = ToSet(all) \cap S
  BY <1>4, AmongElements
<1>7. ToSet(Among(all, S)) = S
  BY <1>2, <1>4, <1>6
<1>8. Ascending(Among(all, S))
  BY <1>4, AscendingAmong
<1> QED
  BY <1>5, <1>6, <1>7, <1>8, ListIn

-----------------------------------------------------------------------------
(* Tables.                                                                 *)

\* Rows of a document, in order.
RowsOf(d, rows) == rows \in Seq(Nat) /\ Ascending(rows) /\ ToSet(rows) \subseteq Indices(d)

AllJoin(d, rows, a, b) == \A k \in a..b : Joins(d, rows[k])
AllWide(d, rows, a, b) == \A k \in a..b : Wide(d, rows[k])

\* A table is as many rows that join it as there are together.
TableRun(d, rows, a, b) ==
  /\ a \in 1..Len(rows) /\ b \in 1..Len(rows) /\ a <= b
  /\ AllJoin(d, rows, a, b)
  /\ a = 1 \/ ~Joins(d, rows[a - 1])
  /\ b = Len(rows) \/ ~Joins(d, rows[b + 1])

LEMMA WideJoins ==
  ASSUME NEW d, IsDocument(d), NEW i \in Indices(d), Wide(d, i)
  PROVE  Joins(d, i)
<1>1. Cardinality(d.lines[i].cells) \in Nat
  BY FS_CardinalityType DEF IsDocument
<1> QED
  BY <1>1, TableAssumption DEF Wide, Joins

\* How far rows that join go, back and on.
LEMMA GrownBack ==
  ASSUME NEW d, NEW rows \in Seq(Nat), NEW k \in 1..Len(rows), Joins(d, rows[k])
  PROVE  LET a == Min({m \in 1..k : AllJoin(d, rows, m, k)}) IN
         a \in 1..k /\ AllJoin(d, rows, a, k) /\ (a = 1 \/ ~Joins(d, rows[a - 1]))
<1> DEFINE S == {m \in 1..k : AllJoin(d, rows, m, k)}
<1>1. k \in S
  BY DEF AllJoin
<1>2. S \in SUBSET Nat
  OBVIOUS
<1>3. PICK a : a = Min(S)
  OBVIOUS
<1>4. a \in S /\ \A m \in S : a <= m
  <2> HIDE DEF S
  <2> QED
    BY <1>1, <1>2, <1>3, LeastIn
<1>5. a \in 1..k /\ AllJoin(d, rows, a, k)
  BY <1>4
<1>6. a # 1 => ~Joins(d, rows[a - 1])
  <2> SUFFICES ASSUME a # 1, Joins(d, rows[a - 1]) PROVE FALSE
    OBVIOUS
  <2>1. a - 1 \in 1..k /\ \A m \in (a - 1)..k : m = a - 1 \/ m \in a..k
    BY <1>5
  <2>2. AllJoin(d, rows, a - 1, k)
    BY <1>5, <2>1 DEF AllJoin
  <2>3. a - 1 \in S
    BY <2>1, <2>2
  <2> QED
    BY <1>4, <1>5, <2>3
<1> QED
  BY <1>3, <1>5, <1>6

LEMMA GrownOn ==
  ASSUME NEW d, NEW rows \in Seq(Nat), NEW k \in 1..Len(rows), Joins(d, rows[k])
  PROVE  LET b == Max({m \in k..Len(rows) : AllJoin(d, rows, k, m)}) IN
         b \in k..Len(rows) /\ AllJoin(d, rows, k, b) /\ (b = Len(rows) \/ ~Joins(d, rows[b + 1]))
<1> DEFINE S == {m \in k..Len(rows) : AllJoin(d, rows, k, m)}
<1>1. k \in S
  BY DEF AllJoin
<1>2. S \in SUBSET (0..Len(rows)) /\ Len(rows) \in Nat
  OBVIOUS
<1>3. PICK b : b = Max(S)
  OBVIOUS
<1>4. b \in S /\ \A m \in S : m <= b
  <2> HIDE DEF S
  <2> QED
    BY <1>1, <1>2, <1>3, GreatestIn
<1>5. b \in k..Len(rows) /\ AllJoin(d, rows, k, b)
  BY <1>4
<1>6. b # Len(rows) => ~Joins(d, rows[b + 1])
  <2> SUFFICES ASSUME b # Len(rows), Joins(d, rows[b + 1]) PROVE FALSE
    OBVIOUS
  <2>1. b + 1 \in k..Len(rows) /\ \A m \in k..(b + 1) : m = b + 1 \/ m \in k..b
    BY <1>2, <1>5
  <2>2. AllJoin(d, rows, k, b + 1)
    BY <1>5, <2>1 DEF AllJoin
  <2>3. b + 1 \in S
    BY <2>1, <2>2
  <2> QED
    BY <1>4, <1>5, <2>3
<1> QED
  BY <1>3, <1>5, <1>6

\* Every run is a table: seeded by wide rows, grown over the rows that join them.
LEMMA RunsAreTables ==
  ASSUME NEW d, IsDocument(d), NEW rows \in Seq(Indices(d)), NEW run \in TableRuns(d, rows), rows \in Seq(Nat)
  PROVE  /\ TableRun(d, rows, run[1], run[2])
         /\ \E r \in (1..Len(rows)) \X (1..Len(rows)) :
              /\ run[1] <= r[1] /\ r[1] <= r[2] /\ r[2] <= run[2]
              /\ r[2] - r[1] + 1 >= TableMinRows /\ AllWide(d, rows, r[1], r[2])
<1>1. PICK r \in (DOMAIN rows) \X (DOMAIN rows) :
        /\ r[2] - r[1] + 1 >= TableMinRows /\ AllWide(d, rows, r[1], r[2])
        /\ run = <<Min({a \in 1..r[1] : AllJoin(d, rows, a, r[1])}),
                   Max({b \in r[2]..Len(rows) : AllJoin(d, rows, r[2], b)})>>
  BY DEF TableRuns, AllWide, AllJoin
<1>2. PICK f, l : f = r[1] /\ l = r[2]
  OBVIOUS
<1>3. f \in 1..Len(rows) /\ l \in 1..Len(rows) /\ f <= l
  BY <1>1, <1>2, TableAssumption
<1>4. AllJoin(d, rows, f, l)
  <2> SUFFICES ASSUME NEW k \in f..l PROVE Joins(d, rows[k])
    BY DEF AllJoin
  <2>1. k \in 1..Len(rows) /\ Wide(d, rows[k])
    BY <1>1, <1>2, <1>3 DEF AllWide
  <2>2. rows[k] \in Indices(d)
    BY <2>1
  <2> QED
    BY <2>1, <2>2, WideJoins
<1>5. Joins(d, rows[f]) /\ Joins(d, rows[l])
  BY <1>3, <1>4 DEF AllJoin
<1>6. PICK a : a = Min({m \in 1..f : AllJoin(d, rows, m, f)})
  OBVIOUS
<1>7. PICK b : b = Max({m \in l..Len(rows) : AllJoin(d, rows, l, m)})
  OBVIOUS
<1>8. a \in 1..f /\ AllJoin(d, rows, a, f) /\ (a = 1 \/ ~Joins(d, rows[a - 1]))
  BY <1>3, <1>5, <1>6, GrownBack
<1>9. b \in l..Len(rows) /\ AllJoin(d, rows, l, b) /\ (b = Len(rows) \/ ~Joins(d, rows[b + 1]))
  BY <1>3, <1>5, <1>7, GrownOn
<1>10. run = <<a, b>>
  BY <1>1, <1>2, <1>6, <1>7
<1>11. AllJoin(d, rows, a, b)
  <2>1. \A k \in a..b : k \in a..f \/ k \in f..l \/ k \in l..b
    BY <1>3, <1>8, <1>9
  <2> QED
    BY <1>4, <1>8, <1>9, <2>1 DEF AllJoin
<1>12. a \in 1..Len(rows) /\ b \in 1..Len(rows) /\ a <= b
  <2>1. PICK n : n = Len(rows)
    OBVIOUS
  <2>2. n \in Nat
    BY <2>1
  <2>3. a \in 1..n /\ b \in 1..n /\ a <= b
    BY <1>3, <1>8, <1>9, <2>1, <2>2
  <2> QED
    BY <2>1, <2>3
<1>13. TableRun(d, rows, a, b)
  BY <1>8, <1>9, <1>11, <1>12 DEF TableRun
<1>14. a <= f /\ l <= b
  BY <1>3, <1>8, <1>9
<1>15. run[1] = a /\ run[2] = b
  BY <1>10
<1>16. r \in (1..Len(rows)) \X (1..Len(rows))
  BY <1>1
<1>17. run[1] <= r[1] /\ r[1] <= r[2] /\ r[2] <= run[2]
  BY <1>2, <1>3, <1>14, <1>15
<1> QED
  BY <1>1, <1>13, <1>15, <1>16, <1>17

LEMMA HeadingRows ==
  ASSUME NEW d, NEW rows, NEW n \in Nat, DOMAIN rows = 1..n
  PROVE  HeadingCount(d, rows) \in 0..n
<1> DEFINE Columns(k) == d.lines[rows[k]].cells
           Numeric(k) == d.lines[rows[k]].numeric
           Like(k) == Cardinality({j \in DOMAIN rows : Columns(j) = Columns(k)})
           pattern == Columns(Min({k \in DOMAIN rows : \A j \in DOMAIN rows : Like(j) <= Like(k)}))
           anyNumeric == \E k \in DOMAIN rows : Numeric(k)
           data == {k \in DOMAIN rows : Numeric(k) \/ (~anyNumeric /\ Columns(k) = pattern)}
<1>1. data \in SUBSET (1..n)
  OBVIOUS
<1>2. HeadingCount(d, rows) = IF data = {} THEN 0 ELSE Min(data) - 1
  BY DEF HeadingCount
<1> HIDE DEF data
<1>3. CASE data = {}
  BY <1>2, <1>3
<1>4. CASE data # {}
  <2>1. data \in SUBSET Nat
    BY <1>1
  <2>2. Min(data) \in 1..n
    BY <1>1, <1>4, <2>1, LeastIn
  <2> QED
    BY <1>2, <1>4, <2>2
<1> QED
  BY <1>3, <1>4

-----------------------------------------------------------------------------
(* Units.                                                                  *)

OnOnePage(d, list) == \A i, j \in ToSet(list) : d.lines[i].page = d.lines[j].page

InTableOf(d, rows, k) == \E r \in TableRuns(d, rows) : k \in r[1]..r[2]

\* The lines a table has, each page's read as its rows.
RowsIn(d, S, p) == InReadingOrder(OnPage(d, p) \cap S)
Tabular(d, S) ==
  {i \in S : LET rows == RowsIn(d, S, d.lines[i].page) IN
                \E k \in DOMAIN rows : InTableOf(d, rows, k) /\ rows[k] = i}

\* A unit's steps are those of its lines; a table's lines count for none.
StepsRead(d, S, lines, steps) ==
  steps = Steps(d, lines) \/ (steps = <<>> /\ ToSet(lines) \subseteq Tabular(d, S))

\* A unit of some lines: only a procedure or a table's row crosses a page.
UnitOf(d, S) ==
  {u \in [lines : Seq(S), steps : Seq(Nat), atomic : BOOLEAN, repeat : BOOLEAN] :
     /\ u.lines # <<>> /\ (~u.atomic => OnOnePage(d, u.lines))
     /\ StepsRead(d, S, u.lines, u.steps)}

LinesIn(units) == FlattenSeq([k \in DOMAIN units |-> units[k].lines])

LEMMA UnitIs ==
  ASSUME NEW d, NEW S, NEW lines \in Seq(S), lines # <<>>, NEW steps \in Seq(Nat),
         NEW atomic \in BOOLEAN, NEW repeat \in BOOLEAN, ~atomic => OnOnePage(d, lines),
         StepsRead(d, S, lines, steps)
  PROVE  Unit(lines, steps, atomic, repeat) \in UnitOf(d, S)
BY DEF Unit, UnitOf

LEMMA UnitHas ==
  ASSUME NEW d, NEW S, NEW u \in UnitOf(d, S)
  PROVE  /\ u.lines \in Seq(S) /\ u.lines # <<>> /\ Len(u.lines) \in Nat /\ Len(u.lines) > 0
         /\ u.steps \in Seq(Nat) /\ u.atomic \in BOOLEAN /\ u.repeat \in BOOLEAN
         /\ ~u.atomic => OnOnePage(d, u.lines)
         /\ StepsRead(d, S, u.lines, u.steps)
<1>1. u.lines \in Seq(S) /\ u.lines # <<>>
  BY DEF UnitOf
<1>2. Len(u.lines) \in Nat /\ Len(u.lines) > 0
  BY <1>1
<1> QED
  BY <1>1, <1>2 DEF UnitOf

LEMMA ListMade ==
  ASSUME NEW T, NEW list \in Seq(T)
  PROVE  list = [k \in DOMAIN list |-> list[k]]
OBVIOUS

\* The lines of units, one unit after the other.
LEMMA LinesInIs ==
  ASSUME NEW d, NEW S, NEW units \in Seq(UnitOf(d, S))
  PROVE  /\ LinesIn(<<>>) = <<>>
         /\ LinesIn(units) \in Seq(S)
         /\ Len(LinesIn(units)) = Total([n \in DOMAIN units |-> Len(units[n].lines)], Len(units))
<1>1. PICK seqs : seqs = [k \in DOMAIN units |-> units[k].lines]
  OBVIOUS
<1>2. PICK counts : counts = [n \in DOMAIN units |-> Len(units[n].lines)]
  OBVIOUS
<1>3. \A k \in 1..Len(units) : units[k] \in UnitOf(d, S)
  OBVIOUS
<1>4. \A k \in 1..Len(units) : units[k].lines \in Seq(S) /\ Len(units[k].lines) \in Nat
  BY <1>3, UnitHas
<1>5. seqs \in Seq(Seq(S)) /\ Len(seqs) = Len(units)
  BY <1>1, <1>4
<1>6. counts \in Seq(Nat) /\ Len(counts) = Len(units)
  BY <1>2, <1>4
<1>7. \A i \in 1..Len(seqs) : counts[i] = Len(seqs[i])
  BY <1>1, <1>2, <1>5, <1>6
<1>8. FlattenSeq(seqs) \in Seq(S) /\ Placed(FlattenSeq(seqs), seqs, counts, Len(seqs))
  BY <1>5, <1>6, <1>7, Flattened
<1>9. LinesIn(units) = FlattenSeq(seqs)
  BY <1>1 DEF LinesIn
<1>10. Len(LinesIn(units)) = Total(counts, Len(units))
  BY <1>5, <1>8, <1>9 DEF Placed
<1>11. LinesIn(<<>>) = <<>>
  <2>1. [k \in DOMAIN <<>> |-> <<>>[k].lines] = <<>>
    OBVIOUS
  <2>2. FlattenSeq(<<>>) = <<>>
    <3>1. <<>> \in Seq(S)
      OBVIOUS
    <3> QED
      BY <1>5, <3>1, FlattenAppend
  <2> QED
    BY <2>1, <2>2 DEF LinesIn
<1> QED
  BY <1>2, <1>8, <1>9, <1>10, <1>11

LEMMA LinesInAppend ==
  ASSUME NEW d, NEW S, NEW units \in Seq(UnitOf(d, S)), NEW u \in UnitOf(d, S)
  PROVE  LinesIn(Append(units, u)) = LinesIn(units) \o u.lines
<1>1. PICK seqs : seqs = [k \in DOMAIN units |-> units[k].lines]
  OBVIOUS
<1>2. \A k \in 1..Len(units) : units[k] \in UnitOf(d, S)
  OBVIOUS
<1>3. seqs \in Seq(Seq(S)) /\ Len(seqs) = Len(units)
  <2>1. \A k \in 1..Len(units) : units[k].lines \in Seq(S)
    BY <1>2, UnitHas
  <2> QED
    BY <1>1, <2>1
<1>4. LinesIn(units) = FlattenSeq(seqs)
  BY <1>1 DEF LinesIn
<1>5. u.lines \in Seq(S)
  BY UnitHas
<1>6. [k \in DOMAIN Append(units, u) |-> Append(units, u)[k].lines] = Append(seqs, u.lines)
  <2>1. PICK n : n = Len(units)
    OBVIOUS
  <2>2. PICK more : more = Append(units, u)
    OBVIOUS
  <2>3. PICK list : list = Append(seqs, u.lines)
    OBVIOUS
  <2>4. /\ n \in Nat /\ DOMAIN more = 1..(n + 1) /\ more[n + 1] = u
        /\ \A k \in 1..n : more[k] = units[k]
    BY <2>1, <2>2
  <2>5. /\ DOMAIN list = 1..(n + 1) /\ list[n + 1] = u.lines
        /\ \A k \in 1..n : list[k] = seqs[k]
    BY <1>3, <1>5, <2>1, <2>3
  <2>6. \A k \in 1..n : seqs[k] = units[k].lines
    BY <1>1, <2>1
  <2>7. \A k \in 1..(n + 1) : k \in 1..n \/ k = n + 1
    BY <2>4
  <2>8. \A k \in 1..(n + 1) : list[k] = more[k].lines
    BY <2>4, <2>5, <2>6, <2>7
  <2>9. list = [k \in 1..(n + 1) |-> list[k]]
    <3>1. list \in Seq(Seq(S))
      BY <1>3, <1>5, <2>3, AppendProperties
    <3> QED
      BY <2>5, <3>1, ListMade
  <2> QED
    BY <2>2, <2>3, <2>4, <2>8, <2>9
<1>7. FlattenSeq(Append(seqs, u.lines)) = FlattenSeq(seqs) \o u.lines
  BY <1>3, <1>5, FlattenAppend
<1> QED
  BY <1>4, <1>6, <1>7 DEF LinesIn

LEMMA LinesInConcat ==
  ASSUME NEW d, NEW S, NEW one \in Seq(UnitOf(d, S)), NEW two \in Seq(UnitOf(d, S))
  PROVE  /\ one \o two \in Seq(UnitOf(d, S))
         /\ LinesIn(one \o two) = LinesIn(one) \o LinesIn(two)
<1>1. PICK f : f = [k \in DOMAIN one |-> one[k].lines]
  OBVIOUS
<1>2. PICK g : g = [k \in DOMAIN two |-> two[k].lines]
  OBVIOUS
<1>3. /\ \A k \in 1..Len(one) : one[k] \in UnitOf(d, S)
      /\ \A k \in 1..Len(two) : two[k] \in UnitOf(d, S)
  OBVIOUS
<1>4. f \in Seq(Seq(S)) /\ Len(f) = Len(one)
  BY <1>1, <1>3, UnitHas
<1>5. g \in Seq(Seq(S)) /\ Len(g) = Len(two)
  BY <1>2, <1>3, UnitHas
<1>6. one \o two \in Seq(UnitOf(d, S))
  OBVIOUS
<1>7. [k \in DOMAIN (one \o two) |-> (one \o two)[k].lines] = f \o g
  <2>1. PICK m, n : m = Len(one) /\ n = Len(two)
    OBVIOUS
  <2>2. PICK all : all = one \o two
    OBVIOUS
  <2>3. PICK list : list = f \o g
    OBVIOUS
  <2>4. /\ m \in Nat /\ n \in Nat /\ DOMAIN all = 1..(m + n)
        /\ \A k \in 1..m : all[k] = one[k]
        /\ \A k \in (m + 1)..(m + n) : all[k] = two[k - m]
    BY <2>1, <2>2
  <2>5. /\ DOMAIN list = 1..(m + n)
        /\ \A k \in 1..m : list[k] = f[k]
        /\ \A k \in (m + 1)..(m + n) : list[k] = g[k - m]
    <3>1. /\ Len(f \o g) = Len(f) + Len(g)
          /\ \A i \in 1..(Len(f) + Len(g)) : (f \o g)[i] = IF i <= Len(f) THEN f[i] ELSE g[i - Len(f)]
      BY <1>4, <1>5, ConcatProperties
    <3>2. f \o g \in Seq(Seq(S))
      BY <1>4, <1>5, ConcatProperties
    <3>3. Len(list) = m + n /\ \A i \in 1..(m + n) : list[i] = IF i <= m THEN f[i] ELSE g[i - m]
      BY <1>4, <1>5, <2>1, <2>3, <3>1
    <3> QED
      BY <2>3, <2>4, <3>2, <3>3
  <2>6. \A k \in 1..m : f[k] = one[k].lines
    BY <1>1, <2>1
  <2>7. \A k \in 1..n : g[k] = two[k].lines
    BY <1>2, <2>1
  <2>8. \A k \in 1..(m + n) : k \in 1..m \/ (k \in (m + 1)..(m + n) /\ k - m \in 1..n)
    BY <2>4
  <2>9. \A k \in 1..(m + n) : list[k] = all[k].lines
    BY <2>4, <2>5, <2>6, <2>7, <2>8, ZenonT(40)
  <2>10. list = [k \in 1..(m + n) |-> list[k]]
    <3>1. list \in Seq(Seq(S))
      BY <1>4, <1>5, <2>3, ConcatProperties
    <3> QED
      BY <2>5, <3>1, ListMade
  <2> QED
    BY <2>2, <2>3, <2>4, <2>9, <2>10
<1>8. FlattenSeq(f \o g) = FlattenSeq(f) \o FlattenSeq(g)
  BY <1>4, <1>5, FlattenConcat
<1> QED
  BY <1>1, <1>2, <1>6, <1>7, <1>8 DEF LinesIn

LEMMA MadeList ==
  ASSUME NEW T, NEW n \in Nat, NEW f, f = [k \in 1..n |-> f[k]], \A k \in 1..n : f[k] \in T
  PROVE  f \in Seq(T) /\ Len(f) = n /\ DOMAIN f = 1..n
<1>1. f \in [1..n -> T]
  OBVIOUS
<1>2. f \in Seq(T)
  BY <1>1
<1>3. DOMAIN f = 1..n
  BY <1>1
<1> QED
  BY <1>2, <1>3

\* Lists of one element each.
LEMMA Singles ==
  ASSUME NEW T, NEW list \in Seq(T)
  PROVE  FlattenSeq([k \in DOMAIN list |-> <<list[k]>>]) = list
<1>1. PICK seqs : seqs = [k \in DOMAIN list |-> <<list[k]>>]
  OBVIOUS
<1>2. PICK n : n = Len(list)
  OBVIOUS
<1>3. PICK counts : counts = [k \in 1..n |-> 1]
  OBVIOUS
<1>4. n \in Nat /\ DOMAIN list = 1..n
  BY <1>2
<1>5. /\ seqs \in Seq(Seq(T)) /\ Len(seqs) = n
      /\ \A k \in 1..n : seqs[k] = <<list[k]>> /\ Len(seqs[k]) = 1 /\ seqs[k][1] = list[k]
  BY <1>1, <1>4
<1>6. counts \in Seq(Nat) /\ Len(counts) = n /\ \A k \in 1..n : counts[k] = 1
  BY <1>3, <1>4
<1>7. PICK all : all = FlattenSeq(seqs)
  OBVIOUS
<1>8. all \in Seq(T) /\ Placed(all, seqs, counts, n)
  BY <1>5, <1>6, <1>7, Flattened
<1>9. \A k \in 0..n : k \in {j \in 0..n : Total(counts, j) = j}
  <2> DEFINE W == {j \in 0..n : Total(counts, j) = j}
  <2>1. /\ Total(counts, 0) = 0
        /\ \A k \in 1..n : Total(counts, k) = Total(counts, k - 1) + 1
    BY <1>6, TotalIs
  <2>2. 0 \in W
    BY <1>4, <2>1
  <2>3. \A k \in 1..n : k - 1 \in W => k \in W
    BY <1>4, <2>1
  <2> HIDE DEF W
  <2>4. \A k \in 0..n : k \in W
    BY <1>4, <2>2, <2>3, EveryPlace
  <2> QED
    BY <2>4 DEF W
<1>10. Len(all) = n
  BY <1>4, <1>8, <1>9 DEF Placed
<1>11. ASSUME NEW k \in 1..n PROVE all[k] = list[k]
  <2>1. k - 1 \in 0..n /\ 1 \in 1..counts[k]
    BY <1>4, <1>6
  <2>2. all[Total(counts, k - 1) + 1] = seqs[k][1]
    BY <1>8, <2>1 DEF Placed
  <2>3. Total(counts, k - 1) = k - 1
    BY <1>9, <2>1
  <2> QED
    BY <1>4, <1>5, <2>2, <2>3
<1>12. all = [k \in 1..n |-> all[k]] /\ list = [k \in 1..n |-> list[k]]
  BY <1>4, <1>8, <1>10, ListMade
<1> QED
  BY <1>1, <1>7, <1>11, <1>12

\* A piece of a list, and two that follow each other.
LEMMA Piece ==
  ASSUME NEW T, NEW list \in Seq(T), NEW a \in 1..(Len(list) + 1), NEW b \in (a - 1)..Len(list)
  PROVE  /\ SubSeq(list, a, b) \in Seq(T)
         /\ Len(SubSeq(list, a, b)) = b - a + 1
         /\ \A i \in 1..(b - a + 1) : SubSeq(list, a, b)[i] = list[a + i - 1]
<1>1. \A i \in a..b : list[i] \in T
  OBVIOUS
<1>2. a \in Int /\ b \in Int
  OBVIOUS
<1>3. /\ SubSeq(list, a, b) \in Seq(T)
      /\ Len(SubSeq(list, a, b)) = IF a <= b THEN b - a + 1 ELSE 0
      /\ \A i \in 1..(b - a + 1) : SubSeq(list, a, b)[i] = list[a + i - 1]
  BY <1>1, <1>2, SubSeqProperties
<1> QED
  BY <1>3

LEMMA Pieces ==
  ASSUME NEW T, NEW list \in Seq(T), NEW a \in 1..(Len(list) + 1), NEW m \in (a - 1)..Len(list),
         NEW b \in m..Len(list)
  PROVE  SubSeq(list, a, m) \o SubSeq(list, m + 1, b) = SubSeq(list, a, b)
<1>1. PICK one : one = SubSeq(list, a, m)
  OBVIOUS
<1>2. PICK two : two = SubSeq(list, m + 1, b)
  OBVIOUS
<1>3. PICK all : all = SubSeq(list, a, b)
  OBVIOUS
<1>4. one \in Seq(T) /\ Len(one) = m - a + 1 /\ \A i \in 1..(m - a + 1) : one[i] = list[a + i - 1]
  BY <1>1, Piece
<1>5. two \in Seq(T) /\ Len(two) = b - m /\ \A i \in 1..(b - m) : two[i] = list[m + i]
  <2>1. m + 1 \in 1..(Len(list) + 1) /\ b \in ((m + 1) - 1)..Len(list)
    OBVIOUS
  <2>2. /\ two \in Seq(T) /\ Len(two) = b - (m + 1) + 1
        /\ \A i \in 1..(b - (m + 1) + 1) : two[i] = list[(m + 1) + i - 1]
    BY <1>2, <2>1, Piece
  <2>3. b - (m + 1) + 1 = b - m /\ \A i \in 1..(b - m) : (m + 1) + i - 1 = m + i
    OBVIOUS
  <2> QED
    BY <2>2, <2>3
<1>6. all \in Seq(T) /\ Len(all) = b - a + 1 /\ \A i \in 1..(b - a + 1) : all[i] = list[a + i - 1]
  <2>1. b \in (a - 1)..Len(list)
    OBVIOUS
  <2> QED
    BY <1>3, <2>1, Piece
<1>7. PICK joined : joined = one \o two
  OBVIOUS
<1>8. /\ joined \in Seq(T) /\ Len(joined) = b - a + 1
      /\ \A i \in 1..(b - a + 1) :
           joined[i] = IF i <= m - a + 1 THEN one[i] ELSE two[i - (m - a + 1)]
  <2>1. /\ one \o two \in Seq(T) /\ Len(one \o two) = Len(one) + Len(two)
        /\ \A i \in 1..(Len(one) + Len(two)) :
             (one \o two)[i] = IF i <= Len(one) THEN one[i] ELSE two[i - Len(one)]
    BY <1>4, <1>5, ConcatProperties
  <2>2. Len(one) + Len(two) = b - a + 1
    BY <1>4, <1>5
  <2> QED
    BY <1>4, <1>7, <2>1, <2>2
<1>9. ASSUME NEW i \in 1..(b - a + 1) PROVE joined[i] = all[i]
  <2>1. CASE i <= m - a + 1
    BY <1>4, <1>6, <1>8, <2>1
  <2>2. CASE ~(i <= m - a + 1)
    <3>1. i - (m - a + 1) \in 1..(b - m) /\ m + (i - (m - a + 1)) = a + i - 1
      BY <2>2
    <3>2. two[i - (m - a + 1)] = list[m + (i - (m - a + 1))]
      BY <1>5, <3>1
    <3> QED
      BY <1>6, <1>8, <2>2, <3>1, <3>2
  <2> QED
    BY <2>1, <2>2
<1>10. /\ joined = [i \in 1..(b - a + 1) |-> joined[i]]
       /\ all = [i \in 1..(b - a + 1) |-> all[i]]
  <2>1. DOMAIN joined = 1..(b - a + 1) /\ DOMAIN all = 1..(b - a + 1)
    BY <1>6, <1>8
  <2> QED
    BY <1>6, <1>8, <2>1, ListMade
<1> QED
  BY <1>1, <1>2, <1>3, <1>7, <1>9, <1>10

LEMMA SplitAt ==
  ASSUME NEW T, NEW list \in Seq(T), NEW n \in 0..Len(list)
  PROVE  /\ SubSeq(list, 1, n) \in Seq(T) /\ SubSeq(list, n + 1, Len(list)) \in Seq(T)
         /\ SubSeq(list, 1, n) \o SubSeq(list, n + 1, Len(list)) = list
         /\ Len(SubSeq(list, 1, n)) = n
         /\ Len(SubSeq(list, n + 1, Len(list))) = Len(list) - n
         /\ \A k \in 1..(Len(list) - n) : SubSeq(list, n + 1, Len(list))[k] = list[n + k]
<1>1. PICK l : l = Len(list)
  OBVIOUS
<1>2. l \in Nat /\ n \in 0..l
  BY <1>1
<1>3. SubSeq(list, 1, n) \in Seq(T) /\ Len(SubSeq(list, 1, n)) = n
  <2>1. 1 \in 1..(l + 1) /\ n \in (1 - 1)..l /\ n - 1 + 1 = n
    BY <1>2
  <2> QED
    BY <1>1, <2>1, Piece
<1>4. /\ SubSeq(list, n + 1, l) \in Seq(T) /\ Len(SubSeq(list, n + 1, l)) = l - n
      /\ \A k \in 1..(l - n) : SubSeq(list, n + 1, l)[k] = list[n + k]
  <2>1. /\ n + 1 \in 1..(l + 1) /\ l \in ((n + 1) - 1)..l /\ l - (n + 1) + 1 = l - n
        /\ \A k \in 1..(l - n) : (n + 1) + k - 1 = n + k
    BY <1>2
  <2>2. /\ SubSeq(list, n + 1, l) \in Seq(T) /\ Len(SubSeq(list, n + 1, l)) = l - (n + 1) + 1
        /\ \A k \in 1..(l - (n + 1) + 1) : SubSeq(list, n + 1, l)[k] = list[(n + 1) + k - 1]
    BY <1>1, <2>1, Piece
  <2> QED
    BY <2>1, <2>2
<1>5. SubSeq(list, 1, n) \o SubSeq(list, n + 1, l) = SubSeq(list, 1, l)
  <2>1. 1 \in 1..(l + 1) /\ n \in (1 - 1)..l /\ l \in n..l
    BY <1>2
  <2> QED
    BY <1>1, <2>1, Pieces
<1>6. SubSeq(list, 1, l) = list
  BY <1>1, WholeList
<1> QED
  BY <1>1, <1>3, <1>4, <1>5, <1>6

\* A table's units have its rows.
LEMMA TableUnitsAre ==
  ASSUME NEW d, NEW S, NEW rows \in Seq(S), ToSet(rows) \subseteq Tabular(d, S)
  PROVE  TableUnits(d, rows) \in Seq(UnitOf(d, S)) /\ LinesIn(TableUnits(d, rows)) = rows
<1>1. PICK n : n = HeadingCount(d, rows)
  OBVIOUS
<1>2. n \in 0..Len(rows) /\ Len(rows) \in Nat
  <2>1. Len(rows) \in Nat /\ DOMAIN rows = 1..Len(rows)
    OBVIOUS
  <2> QED
    BY <1>1, <2>1, HeadingRows
<1>3. PICK heading, rest : heading = SubSeq(rows, 1, n) /\ rest = SubSeq(rows, n + 1, Len(rows))
  OBVIOUS
<1>4. /\ heading \in Seq(S) /\ rest \in Seq(S) /\ heading \o rest = rows
      /\ Len(heading) = n /\ Len(rest) = Len(rows) - n
      /\ \A k \in 1..(Len(rows) - n) : rest[k] = rows[n + k]
  BY <1>2, <1>3, SplitAt
<1>5. PICK one : one = IF n = 0 THEN <<>> ELSE <<Unit(heading, <<>>, TRUE, TRUE)>>
  OBVIOUS
<1>6. PICK two : two = [k \in 1..(Len(rows) - n) |-> Unit(<<rows[n + k]>>, <<>>, TRUE, FALSE)]
  OBVIOUS
<1>7. TableUnits(d, rows) = one \o two
  BY <1>1, <1>3, <1>5, <1>6 DEF TableUnits
<1>8. one \in Seq(UnitOf(d, S)) /\ LinesIn(one) = heading
  <2>1. CASE n = 0
    <3>1. heading = <<>> /\ one = <<>>
      BY <1>4, <1>5, <2>1
    <3>2. <<>> \in Seq(UnitOf(d, S))
      OBVIOUS
    <3>3. LinesIn(<<>>) = <<>>
      BY <3>2, LinesInIs
    <3> QED
      BY <3>1, <3>2, <3>3
  <2>2. CASE n # 0
    <3>1. PICK u : u = Unit(heading, <<>>, TRUE, TRUE)
      OBVIOUS
    <3>2. heading # <<>> /\ <<>> \in Seq(Nat)
      BY <1>2, <1>4, <2>2
    <3>3. u \in UnitOf(d, S) /\ u.lines = heading
      <4>1. ToSet(heading) \subseteq ToSet(rows)
        <5>1. ToSet(heading \o rest) = ToSet(heading) \cup ToSet(rest)
          BY <1>4, ToSetConcat
        <5> QED
          BY <1>4, <5>1
      <4>2. StepsRead(d, S, heading, <<>>)
        BY <4>1 DEF StepsRead
      <4> QED
        BY <1>4, <3>1, <3>2, <4>2, UnitIs DEF Unit
    <3>4. one = <<u>> /\ one \in Seq(UnitOf(d, S))
      <4>1. one = <<u>>
        BY <1>5, <2>2, <3>1
      <4>2. \A X : u \in X => <<u>> \in Seq(X)
        OBVIOUS
      <4> QED
        BY <3>3, <4>1, <4>2
    <3>5. [k \in DOMAIN one |-> one[k].lines] = <<heading>>
      BY <3>3, <3>4
    <3>6. FlattenSeq(<<heading>>) = heading
      <4>1. <<>> \in Seq(Seq(S)) /\ Append(<<>>, heading) = <<heading>> /\ <<>> \o heading = heading
        BY <1>4
      <4>2. FlattenSeq(<<>>) = <<>> /\ FlattenSeq(Append(<<>>, heading)) = FlattenSeq(<<>>) \o heading
        <5>1. \A s \in Seq(S) : FlattenSeq(<<>>) = <<>>
                /\ FlattenSeq(Append(<<>>, s)) = FlattenSeq(<<>>) \o s
          BY <4>1, FlattenAppend
        <5> QED
          BY <1>4, <5>1
      <4>3. FlattenSeq(<<>>) \o heading = heading
        BY <4>1, <4>2, Zenon
      <4>4. FlattenSeq(<<heading>>) = FlattenSeq(Append(<<>>, heading))
        BY <4>1, Zenon
      <4> QED
        BY <4>2, <4>3, <4>4, Zenon
    <3> QED
      BY <3>4, <3>5, <3>6 DEF LinesIn
  <2> QED
    BY <2>1, <2>2
<1>9. two \in Seq(UnitOf(d, S)) /\ LinesIn(two) = rest
  <2>1. PICK m : m = Len(rows) - n
    OBVIOUS
  <2>2. m \in Nat /\ DOMAIN rest = 1..m /\ \A k \in 1..m : rest[k] = rows[n + k] /\ rest[k] \in S
    BY <1>2, <1>4, <2>1
  <2>3. two = [k \in 1..m |-> Unit(<<rest[k]>>, <<>>, TRUE, FALSE)]
    BY <1>6, <2>1, <2>2
  <2>4. ASSUME NEW k \in 1..m
        PROVE  Unit(<<rest[k]>>, <<>>, TRUE, FALSE) \in UnitOf(d, S)
    <3>1. <<rest[k]>> \in Seq(S) /\ <<rest[k]>> # <<>> /\ <<>> \in Seq(Nat)
      BY <2>2
    <3>2. ToSet(<<rest[k]>>) = {rest[k]}
      BY DEF ToSet
    <3>3. rest[k] \in ToSet(rows)
      <4>1. n + k \in DOMAIN rows /\ rest[k] = rows[n + k]
        BY <1>2, <2>1, <2>2
      <4> QED
        BY <4>1 DEF ToSet
    <3>4. StepsRead(d, S, <<rest[k]>>, <<>>)
      BY <3>2, <3>3 DEF StepsRead
    <3> QED
      BY <3>1, <3>4, UnitIs
  <2>5. two \in Seq(UnitOf(d, S))
    <3>1. two = [k \in 1..m |-> two[k]]
      BY <2>3, Zenon
    <3>2. ASSUME NEW k \in 1..m PROVE two[k] \in UnitOf(d, S)
      BY <2>3, <2>4
    <3> QED
      BY <2>2, <3>1, <3>2, MadeList
  <2>6. [k \in DOMAIN two |-> two[k].lines] = [k \in DOMAIN rest |-> <<rest[k]>>]
    BY <2>2, <2>3 DEF Unit
  <2>7. FlattenSeq([k \in DOMAIN rest |-> <<rest[k]>>]) = rest
    BY <1>4, Singles
  <2> QED
    BY <2>5, <2>6, <2>7 DEF LinesIn
<1>10. one \o two \in Seq(UnitOf(d, S)) /\ LinesIn(one \o two) = LinesIn(one) \o LinesIn(two)
  <2>1. one \in Seq(UnitOf(d, S))
    BY <1>8
  <2>2. two \in Seq(UnitOf(d, S))
    BY <1>9
  <2> QED
    BY <2>1, <2>2, LinesInConcat
<1> QED
  BY <1>4, <1>7, <1>8, <1>9, <1>10

LEMMA StepsAre ==
  ASSUME NEW d, IsDocument(d), NEW rows \in Seq(Indices(d))
  PROVE  Steps(d, rows) \in Seq(Nat \ {0})
<1>1. PICK list : list = [k \in DOMAIN rows |-> Step(d, rows[k])]
  OBVIOUS
<1>2. \A k \in 1..Len(rows) : rows[k] \in Indices(d) /\ Step(d, rows[k]) \in Nat
  BY DEF IsDocument, Step
<1>3. list \in Seq(Nat)
  BY <1>1, <1>2
<1>4. Among(list, Nat \ {0}) \in Seq(Nat \cap (Nat \ {0}))
  BY <1>3, AmongIs
<1>5. Nat \cap (Nat \ {0}) = Nat \ {0}
  OBVIOUS
<1> QED
  BY <1>1, <1>4, <1>5 DEF Steps

LEMMA NoSteps ==
  ASSUME NEW d, NEW T, NEW rows \in Seq(T), \A k \in 1..Len(rows) : Step(d, rows[k]) = 0
  PROVE  Steps(d, rows) = <<>>
<1>1. PICK list : list = [k \in DOMAIN rows |-> Step(d, rows[k])]
  OBVIOUS
<1>2. list \in Seq({0}) /\ Len(list) = Len(rows)
  BY <1>1
<1>3. ToSet(list) \subseteq {0}
  BY <1>2, ToSetIs
<1>4. ToSet(list) \cap (Nat \ {0}) = {}
  BY <1>3
<1>5. Among(list, Nat \ {0}) = <<>>
  BY <1>2, <1>4, AmongNone
<1> QED
  BY <1>1, <1>5 DEF Steps

LEMMA StepsConcat ==
  ASSUME NEW d, NEW T, NEW one \in Seq(T), NEW two \in Seq(T)
  PROVE  Steps(d, one \o two) = Steps(d, one) \o Steps(d, two)
<1>1. PICK a, b : a = [k \in DOMAIN one |-> Step(d, one[k])] /\ b = [k \in DOMAIN two |-> Step(d, two[k])]
  OBVIOUS
<1>2. PICK both, c : both = one \o two /\ c = [k \in DOMAIN both |-> Step(d, both[k])]
  OBVIOUS
<1>3. PICK V : V = ToSet(a) \cup ToSet(b)
  OBVIOUS
<1>4. a \in Seq(V) /\ b \in Seq(V) /\ Len(a) = Len(one) /\ Len(b) = Len(two)
  <2>1. DOMAIN a = 1..Len(one) /\ DOMAIN b = 1..Len(two)
    BY <1>1
  <2>2. \A k \in DOMAIN a : a[k] \in V
    BY <1>3 DEF ToSet
  <2>3. \A k \in DOMAIN b : b[k] \in V
    BY <1>3 DEF ToSet
  <2> QED
    BY <1>1, <2>1, <2>2, <2>3
<1>5. c = a \o b
  <2>1. PICK m, n : m = Len(one) /\ n = Len(two)
    OBVIOUS
  <2>2. /\ m \in Nat /\ n \in Nat /\ DOMAIN both = 1..(m + n)
        /\ \A k \in 1..m : both[k] = one[k]
        /\ \A k \in (m + 1)..(m + n) : both[k] = two[k - m]
    BY <1>2, <2>1
  <2>3. /\ DOMAIN (a \o b) = 1..(m + n)
        /\ \A k \in 1..m : (a \o b)[k] = a[k]
        /\ \A k \in (m + 1)..(m + n) : (a \o b)[k] = b[k - m]
    BY <1>4, <2>1, SMTT(20)
  <2>4. ASSUME NEW k \in 1..(m + n) PROVE c[k] = (a \o b)[k]
    <3>1. CASE k \in 1..m
      BY <1>1, <1>2, <2>1, <2>2, <2>3, <3>1
    <3>2. CASE k \in (m + 1)..(m + n)
      <4>1. k - m \in 1..n /\ k - m \in DOMAIN two /\ k \in DOMAIN both
        BY <2>1, <2>2, <3>2
      <4>2. both[k] = two[k - m] /\ (a \o b)[k] = b[k - m]
        BY <2>2, <2>3, <3>2
      <4>3. b[k - m] = Step(d, two[k - m]) /\ c[k] = Step(d, both[k])
        BY <1>1, <1>2, <4>1
      <4> QED
        BY <4>2, <4>3
    <3>3. m \in Nat /\ n \in Nat
      BY <2>1
    <3>4. k \in 1..m \/ k \in (m + 1)..(m + n)
      BY <3>3
    <3> QED
      BY <3>1, <3>2, <3>4
  <2>5. c = [k \in 1..(m + n) |-> c[k]] /\ a \o b = [k \in 1..(m + n) |-> (a \o b)[k]]
    <3>1. PICK ab : ab = a \o b
      OBVIOUS
    <3>2. ab = [k \in DOMAIN ab |-> ab[k]]
      <4>1. ab \in Seq(V)
        BY <1>4, <3>1
      <4> QED
        BY <4>1
    <3> QED
      BY <1>2, <2>2, <2>3, <3>1, <3>2
  <2> QED
    BY <2>4, <2>5
<1>6. Among(a \o b, Nat \ {0}) = Among(a, Nat \ {0}) \o Among(b, Nat \ {0})
  BY <1>4, AmongConcat
<1> QED
  BY <1>1, <1>2, <1>5, <1>6, Zenon DEF Steps

-----------------------------------------------------------------------------
(* Prose.                                                                  *)

\* The unit that begins at a row.
PartEnd(d, rows, k) == IF Step(d, rows[k]) = 0 THEN ParagraphEnd(d, rows, k) ELSE ProcedureEnd(d, rows, k)
PartOf(d, rows, k, part) ==
  IF Step(d, rows[k]) = 0 THEN Unit(part, <<>>, FALSE, FALSE) ELSE Unit(part, Steps(d, part), TRUE, FALSE)
PartAt(d, rows, k) == PartOf(d, rows, k, SubSeq(rows, k, PartEnd(d, rows, k)))

LinesCount(units) == Total([n \in DOMAIN units |-> Len(units[n].lines)], Len(units))

LEMMA PartEndIs ==
  ASSUME NEW d, NEW T, NEW rows \in Seq(T), NEW k \in 1..Len(rows)
  PROVE  PartEnd(d, rows, k) \in k..Len(rows)
<1>1. PICK n : n = Len(rows)
  OBVIOUS
<1>2. n \in Nat /\ k \in 1..n
  BY <1>1
<1>3. ASSUME NEW S \in SUBSET (k..n), k \in S
      PROVE  Max(S) \in k..n
  <2>1. S \in SUBSET (0..n) /\ S # {}
    BY <1>2, <1>3
  <2> QED
    BY <1>2, <1>3, <2>1, GreatestIn
<1>4. CASE Step(d, rows[k]) = 0
  <2>1. PICK S : S = {m \in k..n : \A j \in k..m :
           Step(d, rows[j]) = 0 /\ d.lines[rows[j]].block = d.lines[rows[k]].block}
    OBVIOUS
  <2>2. k \in S /\ S \in SUBSET (k..n)
    BY <1>2, <1>4, <2>1
  <2>3. PartEnd(d, rows, k) = Max(S)
    BY <1>1, <1>4, <2>1 DEF PartEnd, ParagraphEnd
  <2> QED
    BY <1>1, <1>3, <2>2, <2>3
<1>5. CASE Step(d, rows[k]) # 0
  <2> DEFINE Continues(m) ==
        LET next == Last(Steps(d, SubSeq(rows, k, m - 1))) + 1 IN
          IF Step(d, rows[m]) = 0 THEN d.lines[rows[m]].wraps ELSE Step(d, rows[m]) = next
  <2>1. PICK S : S = {m \in k..n : \A j \in (k + 1)..m : Continues(j)}
    OBVIOUS
  <2>2. k \in S /\ S \in SUBSET (k..n)
    <3>1. (k + 1)..k = {}
      BY <1>2
    <3> QED
      BY <1>2, <2>1, <3>1
  <2>3. PartEnd(d, rows, k) = Max(S)
    BY <1>1, <1>5, <2>1 DEF PartEnd, ProcedureEnd
  <2> QED
    BY <1>1, <1>3, <2>2, <2>3
<1> QED
  BY <1>4, <1>5

LEMMA ParagraphHasNoStep ==
  ASSUME NEW d, NEW T, NEW rows \in Seq(T), NEW k \in 1..Len(rows), Step(d, rows[k]) = 0
  PROVE  \A j \in k..PartEnd(d, rows, k) : Step(d, rows[j]) = 0
<1>1. PICK n : n = Len(rows)
  OBVIOUS
<1>2. n \in Nat /\ k \in 1..n
  BY <1>1
<1>3. PICK S : S = {m \in k..n : \A j \in k..m :
         Step(d, rows[j]) = 0 /\ d.lines[rows[j]].block = d.lines[rows[k]].block}
  OBVIOUS
<1>4. k \in S /\ S \in SUBSET (0..n) /\ S # {}
  <2>1. \A j \in k..k : j = k
    BY <1>2
  <2>2. k \in k..n
    BY <1>2
  <2>3. k \in S
    BY <1>3, <2>1, <2>2
  <2>4. k..n \subseteq 0..n
    BY <1>2
  <2> QED
    BY <1>3, <2>3, <2>4
<1>5. PICK e : e = Max(S)
  OBVIOUS
<1>6. e \in S
  BY <1>2, <1>4, <1>5, GreatestIn
<1>7. PartEnd(d, rows, k) = e
  BY <1>1, <1>3, <1>5 DEF PartEnd, ParagraphEnd
<1>8. \A j \in k..e : Step(d, rows[j]) = 0
  BY <1>3, <1>6, Zenon
<1> QED
  BY <1>7, <1>8

LEMMA PartAtIs ==
  ASSUME NEW d, IsDocument(d), NEW S \in SUBSET Indices(d), NEW rows \in Seq(S), OnOnePage(d, rows),
         NEW k \in 1..Len(rows)
  PROVE  /\ PartAt(d, rows, k) \in UnitOf(d, S)
         /\ PartAt(d, rows, k).lines = SubSeq(rows, k, PartEnd(d, rows, k))
<1>1. PICK m : m = PartEnd(d, rows, k)
  OBVIOUS
<1>2. m \in k..Len(rows)
  BY <1>1, PartEndIs
<1>3. PICK part : part = SubSeq(rows, k, m)
  OBVIOUS
<1>4. part \in Seq(S) /\ Len(part) = m - k + 1 /\ \A i \in 1..(m - k + 1) : part[i] = rows[k + i - 1]
  <2>1. k \in 1..(Len(rows) + 1) /\ m \in (k - 1)..Len(rows)
    BY <1>2
  <2> QED
    BY <1>3, <2>1, Piece
<1>5. part # <<>>
  BY <1>2, <1>4
<1>6. OnOnePage(d, part)
  <2>1. ToSet(part) = {part[i] : i \in 1..Len(part)} /\ ToSet(rows) = {rows[i] : i \in 1..Len(rows)}
    BY <1>4, ToSetIs
  <2>2. \A i \in 1..Len(part) : part[i] \in ToSet(rows)
    <3>1. \A i \in 1..Len(part) : k + i - 1 \in 1..Len(rows)
      BY <1>2, <1>4
    <3> QED
      BY <1>4, <2>1, <3>1
  <2>3. ToSet(part) \subseteq ToSet(rows)
    BY <2>1, <2>2
  <2> QED
    BY <2>3 DEF OnOnePage
<1>7. Steps(d, part) \in Seq(Nat) /\ <<>> \in Seq(Nat)
  <2>1. part \in Seq(Indices(d))
    BY <1>4
  <2>2. Steps(d, part) \in Seq(Nat \ {0})
    BY <2>1, StepsAre
  <2>3. \A s \in Seq(Nat \ {0}) : s \in Seq(Nat)
    OBVIOUS
  <2> QED
    BY <2>2, <2>3
<1>8. ASSUME Step(d, rows[k]) = 0 PROVE Unit(part, <<>>, FALSE, FALSE) \in UnitOf(d, S)
  <2>1. \A i \in 1..Len(part) : Step(d, part[i]) = 0
    <3>1. \A j \in k..m : Step(d, rows[j]) = 0
      BY <1>1, <1>8, ParagraphHasNoStep
    <3>2. \A i \in 1..Len(part) : k + i - 1 \in k..m /\ part[i] = rows[k + i - 1]
      BY <1>2, <1>4
    <3> QED
      BY <3>1, <3>2
  <2>2. Steps(d, part) = <<>>
    BY <1>4, <2>1, NoSteps
  <2>3. StepsRead(d, S, part, <<>>)
    BY <2>2 DEF StepsRead
  <2> QED
    BY <1>4, <1>5, <1>6, <1>7, <2>3, UnitIs
<1>9. Unit(part, Steps(d, part), TRUE, FALSE) \in UnitOf(d, S)
  <2>1. StepsRead(d, S, part, Steps(d, part))
    BY DEF StepsRead
  <2> QED
    BY <1>4, <1>5, <1>7, <2>1, UnitIs
<1>10. PartAt(d, rows, k) = PartOf(d, rows, k, part)
  BY <1>1, <1>3 DEF PartAt
<1>11. PartOf(d, rows, k, part) \in UnitOf(d, S) /\ PartOf(d, rows, k, part).lines = part
  BY <1>8, <1>9 DEF PartOf, Unit
<1> QED
  BY <1>1, <1>3, <1>10, <1>11

\* The fold of ProseUnits.
ProseSteps(h, d, rows) ==
  /\ h[0] = <<>>
  /\ \A k \in 1..Len(rows) :
       h[k] = IF LinesCount(h[k - 1]) >= k THEN h[k - 1] ELSE Append(h[k - 1], PartAt(d, rows, k))
  /\ ProseUnits(d, rows) = h[Len(rows)]

LEMMA ProseStepsExist ==
  ASSUME NEW d, NEW T, NEW rows \in Seq(T)
  PROVE  \E h : ProseSteps(h, d, rows)
<1>1. PICK n, list : n = Len(rows) /\ list = [k \in DOMAIN rows |-> k]
  OBVIOUS
<1>2. n \in Nat /\ DOMAIN list = 1..n /\ \A k \in 1..n : list[k] = k
  BY <1>1
<1> DEFINE V == Seq({PartAt(d, rows, k) : k \in 1..n})
           Fold(f) == f = [S \in SUBSET (DOMAIN list) |->
                             IF S = {} THEN <<>>
                             ELSE LET x == Max(S) IN
                                    IF LinesCount(f[S \ {x}]) >= list[x]
                                      THEN f[S \ {x}] ELSE Append(f[S \ {x}], PartAt(d, rows, list[x]))]
<1>3. \E f : Fold(f)
  <2> DEFINE G == [p \in (1..n) \X V |-> IF LinesCount(p[2]) >= p[1]
                                           THEN p[2] ELSE Append(p[2], PartAt(d, rows, p[1]))]
  <2>1. G \in [(1..n) \X V -> V] /\ <<>> \in V
    OBVIOUS
  <2>2. \A x \in 1..n, v \in V : G[<<x, v>>] = IF LinesCount(v) >= x
                                                 THEN v ELSE Append(v, PartAt(d, rows, x))
    OBVIOUS
  <2> HIDE DEF G, V
  <2>3. PICK f : Folded(f, n, V, <<>>, G)
    BY <1>2, <2>1, FoldExists
  <2>4. ASSUME NEW S \in SUBSET (1..n)
        PROVE  f[S] = IF S = {} THEN <<>>
                      ELSE LET x == Max(S) IN
                             IF LinesCount(f[S \ {x}]) >= list[x]
                               THEN f[S \ {x}] ELSE Append(f[S \ {x}], PartAt(d, rows, list[x]))
    <3>1. S # {} => Max(S) \in 1..n /\ f[S \ {Max(S)}] \in V /\ list[Max(S)] = Max(S)
      BY <1>2, <2>3 DEF Folded
    <3>2. S # {} => f[S] = G[<<Max(S), f[S \ {Max(S)}]>>]
      BY <2>3 DEF Folded
    <3>3. S = {} => f[S] = <<>>
      BY <2>3 DEF Folded
    <3> QED
      BY <2>2, <3>1, <3>2, <3>3
  <2>5. Fold(f)
    <3>1. f \in [SUBSET (1..n) -> V]
      BY <2>3 DEF Folded
    <3> QED
      BY <1>2, <2>4, <3>1
  <2> QED
    BY <2>5
<1>4. PICK f : Fold(f) /\ ProseUnits(d, rows) = f[1..n]
  <2>1. ProseUnits(d, rows) = (CHOOSE f : Fold(f))[DOMAIN list]
    BY <1>1 DEF ProseUnits, FoldLeft, MapThenFoldSet, PartAt, PartOf, PartEnd, LinesCount
  <2> QED
    BY <1>2, <1>3, <2>1
<1>5. PICK h : h = [k \in 0..n |-> f[1..k]]
  OBVIOUS
<1>6. ProseSteps(h, d, rows)
  <2>1. h[0] = <<>>
    BY <1>2, <1>4, <1>5, FirstPlaces
  <2>2. ASSUME NEW k \in 1..n
        PROVE  h[k] = IF LinesCount(h[k - 1]) >= k THEN h[k - 1] ELSE Append(h[k - 1], PartAt(d, rows, k))
    <3>1. h[k] = f[1..k] /\ h[k - 1] = f[1..(k - 1)] /\ list[k] = k
      BY <1>2, <1>5
    <3>2. /\ 1..k \in SUBSET (1..n) /\ 1..k # {}
          /\ Max(1..k) = k /\ (1..k) \ {k} = 1..(k - 1)
      BY <1>2, FirstPlaces
    <3>3. f[1..k] = IF LinesCount(f[1..(k - 1)]) >= list[k]
                      THEN f[1..(k - 1)] ELSE Append(f[1..(k - 1)], PartAt(d, rows, list[k]))
      <4>1. PICK S : S = 1..k
        OBVIOUS
      <4>2. S \in SUBSET (DOMAIN list) /\ S # {} /\ Max(S) = k /\ S \ {k} = 1..(k - 1)
        BY <1>2, <3>2, <4>1
      <4>3. f[S] = LET x == Max(S) IN
                     IF LinesCount(f[S \ {x}]) >= list[x]
                       THEN f[S \ {x}] ELSE Append(f[S \ {x}], PartAt(d, rows, list[x]))
        <5>1. \A Q \in SUBSET (DOMAIN list) :
                f[Q] = IF Q = {} THEN <<>>
                       ELSE LET x == Max(Q) IN
                              IF LinesCount(f[Q \ {x}]) >= list[x]
                                THEN f[Q \ {x}] ELSE Append(f[Q \ {x}], PartAt(d, rows, list[x]))
          <6>1. Fold(f)
            BY <1>4
          <6> QED
            BY <6>1, Zenon
        <5> QED
          BY <4>2, <5>1
      <4> QED
        BY <4>1, <4>2, <4>3
    <3> QED
      BY <3>1, <3>3
  <2>3. ProseUnits(d, rows) = h[Len(rows)]
    BY <1>1, <1>2, <1>4, <1>5
  <2> QED
    BY <1>1, <2>1, <2>2, <2>3 DEF ProseSteps
<1> QED
  BY <1>6

\* The units made of the rows up to one, or past it.
ProseMade(d, S, rows, units, k) ==
  /\ units \in Seq(UnitOf(d, S))
  /\ LinesCount(units) \in k..Len(rows)
  /\ LinesIn(units) = SubSeq(rows, 1, LinesCount(units))

LEMMA ProseBegins ==
  ASSUME NEW d, NEW S, NEW rows \in Seq(S)
  PROVE  ProseMade(d, S, rows, <<>>, 0)
<1>1. <<>> \in Seq(UnitOf(d, S))
  OBVIOUS
<1>2. LinesIn(<<>>) = <<>> /\ Len(LinesIn(<<>>)) = LinesCount(<<>>)
  BY <1>1, LinesInIs DEF LinesCount
<1>3. LinesCount(<<>>) = 0
  BY <1>2
<1>4. SubSeq(rows, 1, 0) = <<>>
  BY WholeList
<1>5. LinesIn(<<>>) = SubSeq(rows, 1, LinesCount(<<>>))
  BY <1>2, <1>3, <1>4, Zenon
<1>6. LinesCount(<<>>) \in 0..Len(rows)
  BY <1>3
<1> QED
  BY <1>1, <1>5, <1>6 DEF ProseMade

\* Where the units made so far end before a row, the one that begins there is next.
LEMMA ProseAppend ==
  ASSUME NEW d, IsDocument(d), NEW S \in SUBSET Indices(d), NEW rows \in Seq(S), OnOnePage(d, rows),
         NEW k \in 1..Len(rows), NEW units, ProseMade(d, S, rows, units, k - 1), ~(LinesCount(units) >= k)
  PROVE  /\ LinesCount(units) = k - 1
         /\ ProseMade(d, S, rows, Append(units, PartAt(d, rows, k)), k)
         /\ LinesCount(Append(units, PartAt(d, rows, k))) = PartEnd(d, rows, k)
<1>1. PICK n, c : n = Len(rows) /\ c = LinesCount(units)
  OBVIOUS
<1>2. n \in Nat /\ k \in 1..n
  BY <1>1
<1>3. units \in Seq(UnitOf(d, S)) /\ c \in (k - 1)..n /\ LinesIn(units) = SubSeq(rows, 1, c)
  BY <1>1 DEF ProseMade
<1>4. c = k - 1
  BY <1>1, <1>2, <1>3
<1>5. PICK u, e : u = PartAt(d, rows, k) /\ e = PartEnd(d, rows, k)
  OBVIOUS
<1>6. e \in k..n
  BY <1>1, <1>5, PartEndIs
<1>7. u \in UnitOf(d, S) /\ u.lines = SubSeq(rows, k, e)
  BY <1>5, PartAtIs
<1>8. PICK more : more = Append(units, u)
  OBVIOUS
<1>9. more \in Seq(UnitOf(d, S))
  BY <1>3, <1>7, <1>8
<1>10. LinesIn(more) = SubSeq(rows, 1, k - 1) \o SubSeq(rows, k, e)
  <2>1. LinesIn(Append(units, u)) = LinesIn(units) \o u.lines
    <3>1. units \in Seq(UnitOf(d, S))
      BY <1>3
    <3>2. u \in UnitOf(d, S)
      BY <1>7
    <3> QED
      BY <3>1, <3>2, LinesInAppend
  <2>2. LinesIn(units) = SubSeq(rows, 1, k - 1)
    BY <1>3, <1>4
  <2> QED
    BY <1>7, <1>8, <2>1, <2>2, Zenon
<1>11. SubSeq(rows, 1, k - 1) \o SubSeq(rows, k, e) = SubSeq(rows, 1, e)
  <2>1. 1 \in 1..(n + 1) /\ k - 1 \in (1 - 1)..n /\ e \in (k - 1)..n /\ (k - 1) + 1 = k
    BY <1>2, <1>6
  <2> QED
    BY <1>1, <2>1, Pieces
<1>12. Len(SubSeq(rows, 1, e)) = e
  <2>1. 1 \in 1..(n + 1) /\ e \in (1 - 1)..n /\ e - 1 + 1 = e
    BY <1>2, <1>6
  <2> QED
    BY <1>1, <2>1, Piece
<1>13. LinesCount(more) = Len(LinesIn(more))
  BY <1>9, LinesInIs DEF LinesCount
<1>14. LinesCount(more) = e
  BY <1>10, <1>11, <1>12, <1>13
<1>15. ProseMade(d, S, rows, more, k)
  BY <1>1, <1>6, <1>9, <1>10, <1>11, <1>14 DEF ProseMade
<1> QED
  BY <1>1, <1>4, <1>5, <1>8, <1>14, <1>15

\* Prose has every row of it, in units of one page unless they are procedures.
LEMMA ProseUnitsAre ==
  ASSUME NEW d, IsDocument(d), NEW S \in SUBSET Indices(d), NEW rows \in Seq(S), OnOnePage(d, rows)
  PROVE  ProseUnits(d, rows) \in Seq(UnitOf(d, S)) /\ LinesIn(ProseUnits(d, rows)) = rows
<1>1. PICK h : ProseSteps(h, d, rows)
  BY ProseStepsExist
<1>2. PICK n : n = Len(rows)
  OBVIOUS
<1>3. n \in Nat
  BY <1>2
<1> DEFINE W == {k \in 0..n : ProseMade(d, S, rows, h[k], k)}
<1>4. 0 \in W
  <2>1. h[0] = <<>>
    BY <1>1 DEF ProseSteps
  <2>2. ProseMade(d, S, rows, <<>>, 0) /\ 0 \in 0..n
    BY <1>3, ProseBegins
  <2> QED
    BY <2>1, <2>2
<1>5. ASSUME NEW k \in 1..n, k - 1 \in W PROVE k \in W
  <2>1. PICK units : units = h[k - 1]
    OBVIOUS
  <2>2. PICK c : c = LinesCount(units)
    OBVIOUS
  <2>3. units \in Seq(UnitOf(d, S)) /\ c \in (k - 1)..n /\ LinesIn(units) = SubSeq(rows, 1, c)
    BY <1>2, <1>5, <2>1, <2>2 DEF ProseMade
  <2>4. h[k] = IF c >= k THEN units ELSE Append(units, PartAt(d, rows, k))
    BY <1>1, <1>2, <2>1, <2>2 DEF ProseSteps
  <2>5. CASE c >= k
    <3>1. h[k] = units /\ c \in k..n
      BY <2>3, <2>4, <2>5
    <3>2. ProseMade(d, S, rows, h[k], k)
      BY <1>2, <2>2, <2>3, <3>1 DEF ProseMade
    <3> QED
      BY <1>3, <3>2
  <2>6. CASE ~(c >= k)
    <3>1. ProseMade(d, S, rows, Append(units, PartAt(d, rows, k)), k)
      <4>1. ProseMade(d, S, rows, units, k - 1) /\ ~(LinesCount(units) >= k) /\ k \in 1..Len(rows)
        BY <1>2, <1>5, <2>1, <2>2, <2>6
      <4> QED
        BY <4>1, ProseAppend
    <3>2. h[k] = Append(units, PartAt(d, rows, k))
      BY <2>4, <2>6
    <3>3. k \in 0..n
      BY <1>3
    <3> QED
      BY <3>1, <3>2, <3>3
  <2> QED
    BY <2>5, <2>6
<1> HIDE DEF W
<1>6. \A k \in 1..n : k - 1 \in W => k \in W
  BY <1>5
<1>7. \A k \in 0..n : k \in W
  BY <1>3, <1>4, <1>6, EveryPlace
<1>8. ProseMade(d, S, rows, h[n], n)
  BY <1>3, <1>7 DEF W
<1>9. /\ LinesCount(h[n]) = n /\ h[n] \in Seq(UnitOf(d, S))
      /\ LinesIn(h[n]) = SubSeq(rows, 1, LinesCount(h[n]))
  BY <1>2, <1>3, <1>8 DEF ProseMade
<1>10. SubSeq(rows, 1, n) = rows
  BY <1>2, WholeList
<1> QED
  BY <1>1, <1>2, <1>9, <1>10 DEF ProseSteps

-----------------------------------------------------------------------------
(* Pages.                                                                  *)

ProseEndOf(d, rows, k) == Max({m \in k..Len(rows) : \A j \in k..m : ~InTableOf(d, rows, j)})
StartsOf(d, rows) ==
  {k \in DOMAIN rows : \/ \E r \in TableRuns(d, rows) : r[1] = k
                       \/ ~InTableOf(d, rows, k) /\ (k = 1 \/ InTableOf(d, rows, k - 1))}
RunAt(d, rows, k) == CHOOSE run \in TableRuns(d, rows) : run[1] = k
TableAt(d, rows, k) == SubSeq(rows, RunAt(d, rows, k)[1], RunAt(d, rows, k)[2])
ProseAt(d, marks, rows, k) == Among(SubSeq(rows, k, ProseEndOf(d, rows, k)), Indices(d) \ marks)
SegmentOf(d, marks, rows, k) ==
  IF InTableOf(d, rows, k) THEN TableUnits(d, TableAt(d, rows, k))
  ELSE ProseUnits(d, ProseAt(d, marks, rows, k))

LEMMA PageUnitsIs ==
  ASSUME NEW d, NEW marks, NEW rows
  PROVE  PageUnits(d, marks, rows) =
           FlattenSeq([n \in DOMAIN InReadingOrder(StartsOf(d, rows)) |->
                         SegmentOf(d, marks, rows, InReadingOrder(StartsOf(d, rows))[n])])
BY DEF PageUnits, SegmentOf, StartsOf, InTableOf, ProseEndOf, RunAt, TableAt, ProseAt

LEMMA RunAtIs ==
  ASSUME NEW d, IsDocument(d), NEW rows \in Seq(Indices(d)), rows \in Seq(Nat),
         NEW k \in StartsOf(d, rows), InTableOf(d, rows, k)
  PROVE  /\ RunAt(d, rows, k) \in TableRuns(d, rows) /\ RunAt(d, rows, k)[1] = k
         /\ RunAt(d, rows, k)[2] \in k..Len(rows)
         /\ TableRun(d, rows, k, RunAt(d, rows, k)[2])
<1>1. \E run \in TableRuns(d, rows) : run[1] = k
  BY DEF StartsOf
<1>2. PICK r : r = RunAt(d, rows, k)
  OBVIOUS
<1>3. r \in TableRuns(d, rows) /\ r[1] = k
  BY <1>1, <1>2 DEF RunAt
<1>4. TableRun(d, rows, r[1], r[2])
  BY <1>3, RunsAreTables
<1>5. r[2] \in k..Len(rows)
  BY <1>3, <1>4 DEF TableRun
<1> QED
  BY <1>2, <1>3, <1>4, <1>5

LEMMA ProseEndIs ==
  ASSUME NEW d, NEW T, NEW rows \in Seq(T), NEW k \in 1..Len(rows), ~InTableOf(d, rows, k)
  PROVE  /\ ProseEndOf(d, rows, k) \in k..Len(rows)
         /\ \A j \in k..ProseEndOf(d, rows, k) : ~InTableOf(d, rows, j)
         /\ \/ ProseEndOf(d, rows, k) = Len(rows)
            \/ InTableOf(d, rows, ProseEndOf(d, rows, k) + 1)
<1> DEFINE S == {m \in k..Len(rows) : \A j \in k..m : ~InTableOf(d, rows, j)}
<1>1. k \in S
  OBVIOUS
<1>2. S \in SUBSET (0..Len(rows)) /\ Len(rows) \in Nat
  OBVIOUS
<1>3. PICK e : e = Max(S)
  OBVIOUS
<1>4. e \in S /\ \A m \in S : m <= e
  <2> HIDE DEF S
  <2> QED
    BY <1>1, <1>2, <1>3, GreatestIn
<1>5. e \in k..Len(rows) /\ \A j \in k..e : ~InTableOf(d, rows, j)
  BY <1>4
<1>6. e # Len(rows) => InTableOf(d, rows, e + 1)
  <2> SUFFICES ASSUME e # Len(rows), ~InTableOf(d, rows, e + 1) PROVE FALSE
    OBVIOUS
  <2>1. e + 1 \in k..Len(rows) /\ \A j \in k..(e + 1) : j = e + 1 \/ j \in k..e
    BY <1>2, <1>5
  <2>2. e + 1 \in S
    BY <1>5, <2>1
  <2> QED
    BY <1>4, <1>5, <2>2
<1>7. ProseEndOf(d, rows, k) = e
  BY <1>3 DEF ProseEndOf
<1> QED
  BY <1>5, <1>6, <1>7

LEMMA IndicesAre ==
  ASSUME NEW d, IsDocument(d)
  PROVE  /\ d.lines \in Seq(ToSet(d.lines)) /\ Len(d.lines) \in Nat
         /\ Indices(d) = 1..Len(d.lines) /\ Indices(d) \subseteq Nat
<1>1. d.lines \in Seq(ToSet(d.lines))
  BY DEF IsDocument, IsSeq
<1>2. Indices(d) = 1..Len(d.lines) /\ Len(d.lines) \in Nat
  BY <1>1 DEF Indices
<1> QED
  BY <1>1, <1>2

LEMMA RowsAre ==
  ASSUME NEW d, IsDocument(d), NEW S \in SUBSET Indices(d), NEW rows \in Seq(S)
  PROVE  rows \in Seq(Indices(d)) /\ rows \in Seq(Nat) /\ Len(rows) \in Nat
<1>1. Indices(d) \subseteq Nat
  BY IndicesAre
<1>2. \A i \in 1..Len(rows) : rows[i] \in S
  OBVIOUS
<1> QED
  BY <1>1, <1>2

LEMMA OnePagePart ==
  ASSUME NEW d, NEW T, NEW rows \in Seq(T), OnOnePage(d, rows), NEW part, ToSet(part) \subseteq ToSet(rows)
  PROVE  OnOnePage(d, part)
BY DEF OnOnePage

LEMMA PieceElements ==
  ASSUME NEW T, NEW list \in Seq(T), NEW a \in 1..(Len(list) + 1), NEW b \in (a - 1)..Len(list)
  PROVE  ToSet(SubSeq(list, a, b)) = {list[i] : i \in a..b}
<1>1. PICK part : part = SubSeq(list, a, b)
  OBVIOUS
<1>2. /\ part \in Seq(T) /\ Len(part) = b - a + 1
      /\ \A i \in 1..(b - a + 1) : part[i] = list[a + i - 1]
  BY <1>1, Piece
<1>3. ToSet(part) = {part[i] : i \in 1..(b - a + 1)}
  BY <1>2, ToSetIs
<1>4. ASSUME NEW i \in 1..(b - a + 1) PROVE part[i] \in {list[j] : j \in a..b}
  <2>1. a + i - 1 \in a..b
    OBVIOUS
  <2> QED
    BY <1>2, <2>1
<1>5. ASSUME NEW j \in a..b PROVE list[j] \in {part[i] : i \in 1..(b - a + 1)}
  <2>1. j - a + 1 \in 1..(b - a + 1) /\ a + (j - a + 1) - 1 = j
    OBVIOUS
  <2>2. part[j - a + 1] = list[j]
    BY <1>2, <2>1
  <2> QED
    BY <2>1, <2>2
<1> QED
  BY <1>1, <1>3, <1>4, <1>5

\* The rows of a table are known for one.
InTables(d, S, rows) == \A k \in DOMAIN rows : InTableOf(d, rows, k) => rows[k] \in Tabular(d, S)

\* A segment of a page: a table's rows, or the prose between tables.
LEMMA SegmentIs ==
  ASSUME NEW d, IsDocument(d), NEW marks, NEW S \in SUBSET Indices(d), NEW rows \in Seq(S),
         OnOnePage(d, rows), InTables(d, S, rows), NEW k \in StartsOf(d, rows)
  PROVE  /\ SegmentOf(d, marks, rows, k) \in Seq(UnitOf(d, S))
         /\ LinesIn(SegmentOf(d, marks, rows, k)) =
              IF InTableOf(d, rows, k) THEN TableAt(d, rows, k) ELSE ProseAt(d, marks, rows, k)
<1>1. rows \in Seq(Indices(d)) /\ rows \in Seq(Nat) /\ Len(rows) \in Nat
  BY RowsAre
<1>2. k \in 1..Len(rows)
  BY <1>1 DEF StartsOf
<1>3. CASE InTableOf(d, rows, k)
  <2>1. PICK b : b = RunAt(d, rows, k)[2]
    OBVIOUS
  <2>2. RunAt(d, rows, k)[1] = k /\ b \in k..Len(rows)
    BY <1>1, <1>3, <2>1, RunAtIs
  <2>3. k \in 1..(Len(rows) + 1) /\ b \in (k - 1)..Len(rows)
    BY <1>1, <1>2, <2>2
  <2>4. SubSeq(rows, k, b) \in Seq(S)
    BY <2>3, Piece
  <2>5. TableAt(d, rows, k) \in Seq(S)
    BY <2>1, <2>2, <2>4 DEF TableAt
  <2>6. ToSet(TableAt(d, rows, k)) \subseteq Tabular(d, S)
    <3>1. TableAt(d, rows, k) = SubSeq(rows, k, b)
      BY <2>1, <2>2 DEF TableAt
    <3>2. ToSet(SubSeq(rows, k, b)) = {rows[j] : j \in k..b}
      BY <2>3, PieceElements
    <3>3. ASSUME NEW j \in k..b PROVE rows[j] \in Tabular(d, S)
      <4>1. RunAt(d, rows, k) \in TableRuns(d, rows)
        BY <1>1, <1>3, RunAtIs
      <4>2. InTableOf(d, rows, j)
        BY <2>1, <2>2, <4>1 DEF InTableOf
      <4>3. j \in DOMAIN rows
        BY <1>1, <1>2, <2>2
      <4> QED
        BY <4>2, <4>3 DEF InTables
    <3> QED
      BY <3>1, <3>2, <3>3
  <2> QED
    BY <1>3, <2>5, <2>6, TableUnitsAre DEF SegmentOf
<1>4. CASE ~InTableOf(d, rows, k)
  <2>1. PICK b : b = ProseEndOf(d, rows, k)
    OBVIOUS
  <2>2. b \in k..Len(rows)
    BY <1>2, <1>4, <2>1, ProseEndIs
  <2>3. k \in 1..(Len(rows) + 1) /\ b \in (k - 1)..Len(rows)
    BY <1>1, <1>2, <2>2
  <2>4. PICK part : part = SubSeq(rows, k, b)
    OBVIOUS
  <2>5. part \in Seq(S) /\ ToSet(part) = {rows[i] : i \in k..b}
    BY <2>3, <2>4, Piece, PieceElements
  <2>6. PICK prose : prose = Among(part, Indices(d) \ marks)
    OBVIOUS
  <2>7. prose \in Seq(S) /\ ToSet(prose) \subseteq ToSet(part)
    BY <2>5, <2>6, AmongElements
  <2>8. ToSet(prose) \subseteq ToSet(rows)
    <3>1. ToSet(rows) = {rows[i] : i \in 1..Len(rows)}
      BY ToSetIs
    <3>2. k..b \subseteq 1..Len(rows)
      BY <1>1, <1>2, <2>2
    <3> QED
      BY <2>5, <2>7, <3>1, <3>2
  <2>9. OnOnePage(d, prose)
    BY <2>8, OnePagePart
  <2>10. ProseAt(d, marks, rows, k) = prose
    BY <2>1, <2>4, <2>6 DEF ProseAt
  <2> QED
    BY <1>4, <2>7, <2>9, <2>10, ProseUnitsAre DEF SegmentOf
<1> QED
  BY <1>3, <1>4

LEMMA PageUnitsType ==
  ASSUME NEW d, IsDocument(d), NEW marks, NEW S \in SUBSET Indices(d), NEW rows \in Seq(S),
         OnOnePage(d, rows), InTables(d, S, rows)
  PROVE  PageUnits(d, marks, rows) \in Seq(UnitOf(d, S))
<1>1. PICK starts : starts = InReadingOrder(StartsOf(d, rows))
  OBVIOUS
<1>2. starts \in Seq(StartsOf(d, rows))
  <2>1. Len(rows) \in Nat /\ StartsOf(d, rows) \in SUBSET (1..Len(rows))
    BY RowsAre DEF StartsOf
  <2> QED
    BY <1>1, <2>1, ReadingOrder
<1>3. PICK seqs : seqs = [n \in DOMAIN starts |-> SegmentOf(d, marks, rows, starts[n])]
  OBVIOUS
<1>4. PICK n : n = Len(starts)
  OBVIOUS
<1>5. n \in Nat /\ DOMAIN starts = 1..n /\ \A m \in 1..n : starts[m] \in StartsOf(d, rows)
  BY <1>2, <1>4
<1>6. \A m \in 1..n : seqs[m] \in Seq(UnitOf(d, S))
  <2>1. \A k \in StartsOf(d, rows) : SegmentOf(d, marks, rows, k) \in Seq(UnitOf(d, S))
    BY SegmentIs
  <2> QED
    BY <1>3, <1>5, <2>1
<1>7. seqs = [m \in 1..n |-> seqs[m]]
  BY <1>3, <1>5
<1>8. seqs \in Seq(Seq(UnitOf(d, S)))
  BY <1>5, <1>6, <1>7, MadeList
<1>9. FlattenSeq(seqs) \in Seq(UnitOf(d, S))
  BY <1>8, FlattenIs
<1> QED
  BY <1>1, <1>3, <1>9, PageUnitsIs

-----------------------------------------------------------------------------
(* Procedures over a page break.                                           *)

Follow(one, two) == one.steps # <<>> /\ two.steps # <<>> /\ Head(two.steps) = Last(one.steps) + 1
Merged(one, two) == Unit(one.lines \o two.lines, one.steps \o two.steps, TRUE, one.repeat)
JoinOne(units, u) ==
  IF units # <<>> /\ Follow(Last(units), u) THEN Append(Front(units), Merged(Last(units), u))
  ELSE Append(units, u)

LEMMA FrontAndLast ==
  ASSUME NEW T, NEW list \in Seq(T), list # <<>>
  PROVE  /\ Front(list) \in Seq(T) /\ Last(list) \in T /\ list = Append(Front(list), Last(list))
         /\ Len(Front(list)) = Len(list) - 1 /\ Last(list) = list[Len(list)]
         /\ \A k \in 1..(Len(list) - 1) : Front(list)[k] = list[k]
<1>1. PICK n : n = Len(list)
  OBVIOUS
<1>2. n \in Nat /\ n > 0
  BY <1>1
<1>3. n \in 1..Len(list) /\ SubSeq(list, 1, n) = list
  BY <1>1, <1>2, WholeList
<1>4. SubSeq(list, 1, n - 1) \in Seq(T) /\ list[n] \in T /\ list = Append(SubSeq(list, 1, n - 1), list[n])
  BY <1>3, SplitLast
<1>5. /\ Len(SubSeq(list, 1, n - 1)) = n - 1
      /\ \A k \in 1..(n - 1) : SubSeq(list, 1, n - 1)[k] = list[k]
  <2>1. 1 \in 1..(Len(list) + 1) /\ n - 1 \in (1 - 1)..Len(list) /\ (n - 1) - 1 + 1 = n - 1
    BY <1>1, <1>2
  <2>2. \A k \in 1..(n - 1) : 1 + k - 1 = k
    OBVIOUS
  <2> QED
    BY <2>1, <2>2, Piece
<1>6. Front(list) = SubSeq(list, 1, n - 1) /\ Last(list) = list[n]
  BY <1>1 DEF Front, Last
<1> QED
  BY <1>1, <1>4, <1>5, <1>6

LEMMA MergedIs ==
  ASSUME NEW d, NEW S, NEW one \in UnitOf(d, S), NEW two \in UnitOf(d, S), Follow(one, two)
  PROVE  Merged(one, two) \in UnitOf(d, S) /\ Merged(one, two).lines = one.lines \o two.lines
<1>1. /\ one.lines \in Seq(S) /\ two.lines \in Seq(S) /\ one.lines # <<>>
      /\ one.steps \in Seq(Nat) /\ two.steps \in Seq(Nat) /\ one.repeat \in BOOLEAN
  BY UnitHas
<1>2. PICK lines, steps : lines = one.lines \o two.lines /\ steps = one.steps \o two.steps
  OBVIOUS
<1>3. lines \in Seq(S) /\ steps \in Seq(Nat)
  BY <1>1, <1>2, ConcatProperties
<1>4. lines # <<>>
  <2>1. Len(lines) = Len(one.lines) + Len(two.lines)
    BY <1>1, <1>2, ConcatProperties
  <2>2. PICK a, b : a = Len(one.lines) /\ b = Len(two.lines)
    OBVIOUS
  <2>3. Len(lines) > 0
    <3>1. a \in Nat /\ b \in Nat /\ a > 0
      BY <2>2, UnitHas
    <3>2. Len(lines) = a + b
      BY <2>1, <2>2, Zenon
    <3> QED
      BY <3>1, <3>2
  <2>4. Len(<<>>) = 0
    OBVIOUS
  <2> QED
    BY <2>3, <2>4
<1>5. Unit(lines, steps, TRUE, one.repeat) \in UnitOf(d, S)
  <2>1. one.steps = Steps(d, one.lines) /\ two.steps = Steps(d, two.lines)
    BY UnitHas DEF StepsRead, Follow
  <2>2. Steps(d, one.lines \o two.lines) = Steps(d, one.lines) \o Steps(d, two.lines)
    BY <1>1, StepsConcat
  <2>3. StepsRead(d, S, lines, steps)
    BY <1>2, <2>1, <2>2 DEF StepsRead
  <2> QED
    BY <1>1, <1>3, <1>4, <2>3, UnitIs
<1> QED
  BY <1>2, <1>5 DEF Merged, Unit

LEMMA JoinOneType ==
  ASSUME NEW d, NEW S, NEW units \in Seq(UnitOf(d, S)), NEW u \in UnitOf(d, S)
  PROVE  JoinOne(units, u) \in Seq(UnitOf(d, S))
<1>1. CASE units # <<>> /\ Follow(Last(units), u)
  <2>1. Front(units) \in Seq(UnitOf(d, S)) /\ Last(units) \in UnitOf(d, S)
    BY <1>1, FrontAndLast
  <2>2. PICK m : m = Merged(Last(units), u)
    OBVIOUS
  <2>3. m \in UnitOf(d, S)
    BY <1>1, <2>1, <2>2, MergedIs
  <2>4. Append(Front(units), m) \in Seq(UnitOf(d, S))
    BY <2>1, <2>3, AppendProperties
  <2> QED
    BY <1>1, <2>2, <2>4 DEF JoinOne
<1>2. CASE ~(units # <<>> /\ Follow(Last(units), u))
  <2>1. Append(units, u) \in Seq(UnitOf(d, S))
    BY AppendProperties
  <2> QED
    BY <1>2, <2>1 DEF JoinOne
<1> QED
  BY <1>1, <1>2

JoinSteps(h, units) ==
  /\ h[0] = <<>>
  /\ \A k \in 1..Len(units) : h[k] = JoinOne(h[k - 1], units[k])
  /\ Joined(units) = h[Len(units)]

LEMMA JoinStepsExist ==
  ASSUME NEW d, NEW S, NEW units \in Seq(UnitOf(d, S))
  PROVE  \E h : JoinSteps(h, units)
<1>1. PICK n : n = Len(units)
  OBVIOUS
<1>2. n \in Nat /\ DOMAIN units = 1..n /\ \A k \in 1..n : units[k] \in UnitOf(d, S)
  BY <1>1
<1> DEFINE V == Seq(UnitOf(d, S))
           Fold(f) == f = [Q \in SUBSET (DOMAIN units) |->
                             IF Q = {} THEN <<>>
                             ELSE LET x == Max(Q) IN JoinOne(f[Q \ {x}], units[x])]
<1>3. \E f : Fold(f)
  <2> DEFINE G == [p \in (1..n) \X V |-> JoinOne(p[2], units[p[1]])]
  <2>1. G \in [(1..n) \X V -> V] /\ <<>> \in V
    <3>1. <<>> \in V
      OBVIOUS
    <3>2. ASSUME NEW p \in (1..n) \X V PROVE JoinOne(p[2], units[p[1]]) \in V
      BY <1>2, JoinOneType
    <3> QED
      BY <3>1, <3>2
  <2>2. \A x \in 1..n, v \in V : G[<<x, v>>] = JoinOne(v, units[x])
    OBVIOUS
  <2> HIDE DEF G, V
  <2>3. PICK f : Folded(f, n, V, <<>>, G)
    BY <1>2, <2>1, FoldExists
  <2>4. ASSUME NEW Q \in SUBSET (1..n)
        PROVE  f[Q] = IF Q = {} THEN <<>> ELSE LET x == Max(Q) IN JoinOne(f[Q \ {x}], units[x])
    <3>1. Q # {} => Max(Q) \in 1..n /\ f[Q \ {Max(Q)}] \in V
      BY <2>3 DEF Folded
    <3>2. Q # {} => f[Q] = G[<<Max(Q), f[Q \ {Max(Q)}]>>]
      BY <2>3 DEF Folded
    <3>3. Q = {} => f[Q] = <<>>
      BY <2>3 DEF Folded
    <3> QED
      BY <2>2, <3>1, <3>2, <3>3
  <2>5. Fold(f)
    <3>1. f \in [SUBSET (1..n) -> V]
      BY <2>3 DEF Folded
    <3> QED
      BY <1>2, <2>4, <3>1
  <2> QED
    BY <2>5
<1>4. PICK f : Fold(f) /\ Joined(units) = f[1..n]
  <2>1. Joined(units) = (CHOOSE f : Fold(f))[DOMAIN units]
    BY DEF Joined, FoldLeft, MapThenFoldSet, JoinOne, Merged, Follow
  <2> QED
    BY <1>2, <1>3, <2>1
<1>5. PICK h : h = [k \in 0..n |-> f[1..k]]
  OBVIOUS
<1>6. \A Q \in SUBSET (1..n) : f[Q] = IF Q = {} THEN <<>> ELSE LET x == Max(Q) IN JoinOne(f[Q \ {x}], units[x])
  <2>1. Fold(f)
    BY <1>4
  <2>2. \A Q \in SUBSET (DOMAIN units) :
          f[Q] = IF Q = {} THEN <<>> ELSE LET x == Max(Q) IN JoinOne(f[Q \ {x}], units[x])
    BY <2>1, Zenon
  <2>3. ASSUME NEW Q \in SUBSET (1..n)
        PROVE  f[Q] = IF Q = {} THEN <<>> ELSE LET x == Max(Q) IN JoinOne(f[Q \ {x}], units[x])
    <3>1. Q \in SUBSET (DOMAIN units)
      BY <1>2
    <3> QED
      BY <2>2, <3>1
  <2> QED
    BY <2>3
<1>7. JoinSteps(h, units)
  <2>1. h[0] = <<>>
    <3>1. h[0] = f[1..0] /\ 1..0 = {}
      BY <1>2, <1>5
    <3>2. f[{}] = <<>>
      BY <1>6
    <3> QED
      BY <3>1, <3>2
  <2>2. ASSUME NEW k \in 1..n
        PROVE  h[k] = JoinOne(h[k - 1], units[k])
    <3>1. h[k] = f[1..k] /\ h[k - 1] = f[1..(k - 1)]
      BY <1>2, <1>5
    <3>2. PICK Q : Q = 1..k
      OBVIOUS
    <3>3. Q \in SUBSET (1..n) /\ Q # {} /\ Max(Q) = k /\ Q \ {k} = 1..(k - 1)
      BY <1>2, <3>2, FirstPlaces
    <3>4. f[Q] = JoinOne(f[Q \ {k}], units[k])
      BY <1>6, <3>3
    <3> QED
      BY <3>1, <3>2, <3>3, <3>4
  <2>3. Joined(units) = h[Len(units)]
    BY <1>1, <1>2, <1>4, <1>5
  <2> QED
    BY <1>1, <2>1, <2>2, <2>3 DEF JoinSteps
<1> QED
  BY <1>7

NoneFollows(units) == \A k \in 1..(Len(units) - 1) : ~Follow(units[k], units[k + 1])

LEMMA JoinOneLines ==
  ASSUME NEW d, NEW S, NEW units \in Seq(UnitOf(d, S)), NEW u \in UnitOf(d, S)
  PROVE  LinesIn(JoinOne(units, u)) = LinesIn(units) \o u.lines
<1>1. CASE units # <<>> /\ Follow(Last(units), u)
  <2>1. PICK front, last : front = Front(units) /\ last = Last(units)
    OBVIOUS
  <2>2. front \in Seq(UnitOf(d, S)) /\ last \in UnitOf(d, S) /\ units = Append(front, last)
    BY <1>1, <2>1, FrontAndLast
  <2>3. PICK m : m = Merged(last, u)
    OBVIOUS
  <2>4. m \in UnitOf(d, S) /\ m.lines = last.lines \o u.lines
    <3>1. last \in UnitOf(d, S)
      BY <2>2
    <3>2. Merged(last, u) \in UnitOf(d, S)
      BY <1>1, <2>1, <3>1, MergedIs
    <3>3. Merged(last, u).lines = last.lines \o u.lines
      BY DEF Merged, Unit
    <3> QED
      BY <2>3, <3>2, <3>3, Zenon
  <2>5. front \in Seq(UnitOf(d, S))
    BY <2>2
  <2>6. last \in UnitOf(d, S)
    BY <2>2
  <2>7. m \in UnitOf(d, S)
    BY <2>4
  <2>8. LinesIn(Append(front, m)) = LinesIn(front) \o m.lines
    BY <2>5, <2>7, LinesInAppend
  <2>9. LinesIn(Append(front, last)) = LinesIn(front) \o last.lines
    BY <2>5, <2>6, LinesInAppend
  <2>10. LinesIn(front) \in Seq(S)
    BY <2>5, LinesInIs
  <2>11. last.lines \in Seq(S) /\ u.lines \in Seq(S)
    BY <2>6, UnitHas
  <2>12. (LinesIn(front) \o last.lines) \o u.lines = LinesIn(front) \o (last.lines \o u.lines)
    <3>1. PICK a, b, c : a = LinesIn(front) /\ b = last.lines /\ c = u.lines
      OBVIOUS
    <3>2. a \in Seq(S) /\ b \in Seq(S) /\ c \in Seq(S)
      BY <2>10, <2>11, <3>1
    <3>3. (a \o b) \o c = a \o (b \o c)
      BY <3>2, ConcatAssociative, SMTT(20)
    <3> QED
      BY <3>1, <3>3, Zenon
  <2>13. JoinOne(units, u) = Append(front, m)
    BY <1>1, <2>1, <2>3 DEF JoinOne
  <2>14. LinesIn(Append(front, m)) = LinesIn(front) \o (last.lines \o u.lines)
    BY <2>4, <2>8, Zenon
  <2>15. LinesIn(units) = LinesIn(front) \o last.lines
    BY <2>2, <2>9, Zenon
  <2> QED
    BY <2>12, <2>13, <2>14, <2>15, Zenon
<1>2. CASE ~(units # <<>> /\ Follow(Last(units), u))
  <2>1. JoinOne(units, u) = Append(units, u)
    BY <1>2, Zenon DEF JoinOne
  <2>2. LinesIn(Append(units, u)) = LinesIn(units) \o u.lines
    BY LinesInAppend
  <2> QED
    BY <2>1, <2>2, Zenon
<1> QED
  BY <1>1, <1>2

LEMMA JoinOneFollows ==
  ASSUME NEW d, NEW S, NEW units \in Seq(UnitOf(d, S)), NEW u \in UnitOf(d, S), NoneFollows(units)
  PROVE  NoneFollows(JoinOne(units, u))
<1>1. CASE units # <<>> /\ Follow(Last(units), u)
  <2>1. PICK front, last : front = Front(units) /\ last = Last(units)
    OBVIOUS
  <2>2. PICK n : n = Len(units)
    OBVIOUS
  <2>3. /\ n \in Nat /\ n > 0 /\ front \in Seq(UnitOf(d, S)) /\ last \in UnitOf(d, S)
        /\ Len(front) = n - 1 /\ last = units[n] /\ \A k \in 1..(n - 1) : front[k] = units[k]
    BY <1>1, <2>1, <2>2, FrontAndLast
  <2>4. PICK m : m = Merged(last, u)
    OBVIOUS
  <2>5. m \in UnitOf(d, S)
    BY <1>1, <2>1, <2>3, <2>4, MergedIs
  <2>6. PICK list : list = Append(front, m)
    OBVIOUS
  <2>7. Len(list) = n /\ list[n] = m /\ \A k \in 1..(n - 1) : list[k] = units[k]
    <3>1. front \in Seq(UnitOf(d, S))
      BY <2>3
    <3>2. /\ Len(list) = Len(front) + 1 /\ list[Len(front) + 1] = m
          /\ \A k \in 1..Len(front) : list[k] = front[k]
      BY <2>5, <2>6, <3>1, AppendProperties
    <3> QED
      BY <2>3, <3>2
  <2>8. m.steps = last.steps \o u.steps
    BY <2>4 DEF Merged, Unit
  <2>9. last.steps \in Seq(Nat) /\ u.steps \in Seq(Nat) /\ last.steps # <<>>
    BY <1>1, <2>1, <2>3, UnitHas DEF Follow
  <2>10. Head(m.steps) = Head(last.steps)
    <3>1. PICK a, b : a = last.steps /\ b = u.steps
      OBVIOUS
    <3>2. a \in Seq(Nat) /\ b \in Seq(Nat) /\ a # <<>>
      BY <2>9, <3>1
    <3>3. Head(a \o b) = Head(a)
      BY <3>2
    <3> QED
      BY <2>8, <3>1, <3>3, Zenon
  <2>11. ASSUME NEW one, Follow(one, m) PROVE Follow(one, last)
    BY <2>9, <2>10, <2>11 DEF Follow
  <2>12. ASSUME NEW k \in 1..(n - 1) PROVE ~Follow(list[k], list[k + 1])
    <3>1. ~Follow(units[k], units[k + 1])
      BY <2>2 DEF NoneFollows
    <3>2. list[k] = units[k]
      BY <2>7
    <3>3. CASE k = n - 1
      <4>1. list[k + 1] = m /\ units[k + 1] = last
        BY <2>3, <2>7, <3>3
      <4> QED
        BY <2>11, <3>1, <3>2, <4>1
    <3>4. CASE k # n - 1
      <4>1. k + 1 \in 1..(n - 1)
        BY <2>3, <3>4
      <4>2. list[k + 1] = units[k + 1]
        BY <2>7, <4>1
      <4> QED
        BY <3>1, <3>2, <4>2
    <3> QED
      BY <3>3, <3>4
  <2>13. JoinOne(units, u) = list
    BY <1>1, <2>1, <2>4, <2>6 DEF JoinOne
  <2> QED
    BY <2>7, <2>12, <2>13 DEF NoneFollows
<1>2. CASE ~(units # <<>> /\ Follow(Last(units), u))
  <2>1. PICK list : list = Append(units, u)
    OBVIOUS
  <2>2. PICK n : n = Len(units)
    OBVIOUS
  <2>3. n \in Nat /\ Len(list) = n + 1 /\ list[n + 1] = u /\ \A k \in 1..n : list[k] = units[k]
    BY <2>1, <2>2, AppendProperties
  <2>4. JoinOne(units, u) = list
    BY <1>2, <2>1, Zenon DEF JoinOne
  <2>5. ASSUME NEW k \in 1..n PROVE ~Follow(list[k], list[k + 1])
    <3>1. CASE k = n
      <4>1. units # <<>> /\ Last(units) = units[n]
        BY <2>2, <2>3, <3>1 DEF Last
      <4> QED
        BY <1>2, <2>3, <3>1, <4>1
    <3>2. CASE k # n
      <4>1. k \in 1..(n - 1) /\ k + 1 \in 1..n
        BY <2>3, <3>2
      <4>2. ~Follow(units[k], units[k + 1])
        BY <2>2, <4>1 DEF NoneFollows
      <4> QED
        BY <2>3, <4>1, <4>2
    <3> QED
      BY <3>1, <3>2
  <2>6. (n + 1) - 1 = n
    BY <2>3
  <2> QED
    BY <2>3, <2>4, <2>5, <2>6 DEF NoneFollows
<1> QED
  BY <1>1, <1>2

JoinMade(d, S, units, k, made) ==
  /\ made \in Seq(UnitOf(d, S)) /\ NoneFollows(made)
  /\ LinesIn(made) = LinesIn(SubSeq(units, 1, k))

\* Joining keeps every line and its place, and leaves no procedure in two.
LEMMA JoinedAre ==
  ASSUME NEW d, NEW S, NEW units \in Seq(UnitOf(d, S))
  PROVE  /\ Joined(units) \in Seq(UnitOf(d, S)) /\ NoneFollows(Joined(units))
         /\ LinesIn(Joined(units)) = LinesIn(units)
<1>1. PICK h : JoinSteps(h, units)
  BY JoinStepsExist
<1>2. PICK n : n = Len(units)
  OBVIOUS
<1>3. n \in Nat /\ \A k \in 1..n : units[k] \in UnitOf(d, S)
  BY <1>2
<1> DEFINE W == {k \in 0..n : JoinMade(d, S, units, k, h[k])}
<1>4. 0 \in W
  <2>1. h[0] = <<>> /\ 0 \in 0..n
    BY <1>1, <1>3 DEF JoinSteps
  <2>2. <<>> \in Seq(UnitOf(d, S)) /\ NoneFollows(<<>>)
    BY DEF NoneFollows
  <2>3. SubSeq(units, 1, 0) = <<>>
    BY WholeList
  <2>4. JoinMade(d, S, units, 0, <<>>)
    BY <2>2, <2>3, Zenon DEF JoinMade
  <2> QED
    BY <2>1, <2>4
<1>5. ASSUME NEW k \in 1..n, k - 1 \in W PROVE k \in W
  <2>1. PICK made, u : made = h[k - 1] /\ u = units[k]
    OBVIOUS
  <2>2. JoinMade(d, S, units, k - 1, made)
    BY <1>5, <2>1
  <2>3. h[k] = JoinOne(made, u) /\ u \in UnitOf(d, S)
    BY <1>1, <1>2, <1>3, <2>1 DEF JoinSteps
  <2>4. made \in Seq(UnitOf(d, S))
    BY <2>2 DEF JoinMade
  <2>5. u \in UnitOf(d, S)
    BY <2>3
  <2>6. JoinOne(made, u) \in Seq(UnitOf(d, S))
    BY <2>4, <2>5, JoinOneType
  <2>7. NoneFollows(JoinOne(made, u))
    BY <2>2, <2>4, <2>5, JoinOneFollows DEF JoinMade
  <2>8. LinesIn(JoinOne(made, u)) = LinesIn(made) \o u.lines
    BY <2>4, <2>5, JoinOneLines
  <2>9. PICK before : before = SubSeq(units, 1, k - 1)
    OBVIOUS
  <2>10. before \in Seq(UnitOf(d, S)) /\ SubSeq(units, 1, k) = Append(before, u)
    BY <1>2, <2>1, <2>9, SplitLast
  <2>11. before \in Seq(UnitOf(d, S))
    BY <2>10
  <2>12. LinesIn(Append(before, u)) = LinesIn(before) \o u.lines
    BY <2>5, <2>11, LinesInAppend
  <2>13. LinesIn(made) = LinesIn(before)
    BY <2>2, <2>9 DEF JoinMade
  <2>14. LinesIn(JoinOne(made, u)) = LinesIn(SubSeq(units, 1, k))
    BY <2>8, <2>10, <2>12, <2>13, Zenon
  <2>15. JoinMade(d, S, units, k, h[k])
    BY <2>3, <2>6, <2>7, <2>14 DEF JoinMade
  <2>16. k \in 0..n
    BY <1>3
  <2> QED
    BY <2>15, <2>16
<1> HIDE DEF W
<1>6. \A k \in 1..n : k - 1 \in W => k \in W
  BY <1>5
<1>7. \A k \in 0..n : k \in W
  BY <1>3, <1>4, <1>6, EveryPlace
<1>8. JoinMade(d, S, units, n, h[n])
  BY <1>3, <1>7 DEF W
<1>9. SubSeq(units, 1, n) = units /\ Joined(units) = h[n]
  BY <1>1, <1>2, WholeList DEF JoinSteps
<1> QED
  BY <1>8, <1>9 DEF JoinMade

-----------------------------------------------------------------------------
(* Regions.                                                                *)

\* The lines a region takes, and those of a page.
Taken(d, blocks, contents, span) ==
  {i \in Indices(d) : Holds(span, i) /\ d.lines[i].block \in blocks /\ d.lines[i].page \notin contents}
TakenOn(d, blocks, span, p) == {i \in OnPage(d, p) : Holds(span, i) /\ d.lines[i].block \in blocks}
PageOf(d, marks, blocks, contents, span, p) ==
  IF p \in contents THEN <<>> ELSE PageUnits(d, marks, InReadingOrder(TakenOn(d, blocks, span, p)))
PagesIn(d, marks, blocks, contents, span) ==
  [p \in 1..d.pages |-> PageOf(d, marks, blocks, contents, span, p)]

LEMMA RegionUnitsIs ==
  ASSUME NEW d, NEW marks, NEW blocks, NEW contents, NEW span
  PROVE  RegionUnits(d, marks, blocks, contents, span) =
           Joined(FlattenSeq(PagesIn(d, marks, blocks, contents, span)))
BY DEF RegionUnits, RegionRows, PagesIn, PageOf, TakenOn

LEMMA TakenOnIs ==
  ASSUME NEW d, IsDocument(d), NEW blocks, NEW contents, NEW span, NEW p, p \notin contents
  PROVE  LET rows == InReadingOrder(TakenOn(d, blocks, span, p)) IN
         /\ rows \in Seq(Taken(d, blocks, contents, span)) /\ rows \in Seq(Nat)
         /\ Ascending(rows) /\ ToSet(rows) = TakenOn(d, blocks, span, p) /\ OnOnePage(d, rows)
<1>1. PICK Q : Q = TakenOn(d, blocks, span, p)
  OBVIOUS
<1>2. PICK n : n = Len(d.lines)
  OBVIOUS
<1>3. n \in Nat /\ Indices(d) = 1..n
  BY <1>2, IndicesAre
<1>4. Q \in SUBSET (1..n) /\ Q \subseteq Taken(d, blocks, contents, span)
  BY <1>1, <1>3 DEF TakenOn, OnPage, Taken
<1>5. PICK rows : rows = InReadingOrder(Q)
  OBVIOUS
<1>6. rows \in Seq(Q) /\ rows \in Seq(Nat) /\ Ascending(rows) /\ ToSet(rows) = Q
  BY <1>3, <1>4, <1>5, ReadingOrder
<1>7. rows \in Seq(Taken(d, blocks, contents, span))
  BY <1>4, <1>6
<1>8. OnOnePage(d, rows)
  BY <1>1, <1>6 DEF OnOnePage, TakenOn, OnPage
<1> QED
  BY <1>1, <1>5, <1>6, <1>7, <1>8

\* What a region takes of a page is all there is to tell its tables by.
LEMMA PageRows ==
  ASSUME NEW d, IsDocument(d), NEW blocks, NEW contents, NEW span, NEW p, p \notin contents
  PROVE  LET S    == Taken(d, blocks, contents, span)
             rows == InReadingOrder(TakenOn(d, blocks, span, p))
         IN  RowsIn(d, S, p) = rows /\ InTables(d, S, rows)
<1>1. PICK S : S = Taken(d, blocks, contents, span)
  OBVIOUS
<1>2. PICK rows : rows = InReadingOrder(TakenOn(d, blocks, span, p))
  OBVIOUS
<1>3. rows \in Seq(S) /\ ToSet(rows) = TakenOn(d, blocks, span, p)
  BY <1>1, <1>2, TakenOnIs
<1>4. OnPage(d, p) \cap S = TakenOn(d, blocks, span, p)
  BY <1>1 DEF OnPage, TakenOn, Taken
<1>5. RowsIn(d, S, p) = rows
  BY <1>2, <1>4 DEF RowsIn
<1>6. ASSUME NEW k \in DOMAIN rows PROVE rows[k] \in S /\ d.lines[rows[k]].page = p
  <2>1. rows[k] \in ToSet(rows) /\ rows[k] \in S
    BY <1>3 DEF ToSet
  <2> QED
    BY <1>3, <2>1 DEF TakenOn, OnPage
<1>7. InTables(d, S, rows)
  BY <1>5, <1>6 DEF InTables, Tabular
<1> QED
  BY <1>1, <1>2, <1>5, <1>7

LEMMA PageOfType ==
  ASSUME NEW d, IsDocument(d), NEW marks, NEW blocks, NEW contents, NEW span, NEW p
  PROVE  PageOf(d, marks, blocks, contents, span, p) \in Seq(UnitOf(d, Taken(d, blocks, contents, span)))
<1>1. PICK S : S = Taken(d, blocks, contents, span)
  OBVIOUS
<1>2. S \in SUBSET Indices(d)
  BY <1>1 DEF Taken
<1>3. CASE p \in contents
  <2>1. <<>> \in Seq(UnitOf(d, S))
    OBVIOUS
  <2> QED
    BY <1>1, <1>3, <2>1 DEF PageOf
<1>4. CASE p \notin contents
  <2>1. PICK rows : rows = InReadingOrder(TakenOn(d, blocks, span, p))
    OBVIOUS
  <2>2. rows \in Seq(S) /\ OnOnePage(d, rows)
    BY <1>1, <1>4, <2>1, TakenOnIs
  <2>3. InTables(d, S, rows)
    BY <1>1, <1>4, <2>1, PageRows
  <2>4. PageUnits(d, marks, rows) \in Seq(UnitOf(d, S))
    BY <1>2, <2>2, <2>3, PageUnitsType
  <2> QED
    BY <1>1, <1>4, <2>1, <2>4 DEF PageOf
<1> QED
  BY <1>3, <1>4

LEMMA RegionUnitsType ==
  ASSUME NEW d, IsDocument(d), NEW marks, NEW blocks, NEW contents, NEW span
  PROVE  /\ RegionUnits(d, marks, blocks, contents, span)
              \in Seq(UnitOf(d, Taken(d, blocks, contents, span)))
         /\ NoneFollows(RegionUnits(d, marks, blocks, contents, span))
         /\ LinesIn(RegionUnits(d, marks, blocks, contents, span)) =
              LinesIn(FlattenSeq(PagesIn(d, marks, blocks, contents, span)))
<1>1. PICK U : U = UnitOf(d, Taken(d, blocks, contents, span))
  OBVIOUS
<1>2. PICK seqs : seqs = PagesIn(d, marks, blocks, contents, span)
  OBVIOUS
<1>3. d.pages \in Nat
  BY DEF IsDocument
<1>4. ASSUME NEW p \in 1..d.pages PROVE seqs[p] \in Seq(U)
  BY <1>1, <1>2, PageOfType DEF PagesIn
<1>5. seqs = [p \in 1..d.pages |-> seqs[p]]
  BY <1>2 DEF PagesIn
<1>6. seqs \in Seq(Seq(U))
  BY <1>3, <1>4, <1>5, MadeList
<1>7. FlattenSeq(seqs) \in Seq(U)
  BY <1>6, FlattenIs
<1>8. PICK units : units = FlattenSeq(seqs)
  OBVIOUS
<1>9. units \in Seq(UnitOf(d, Taken(d, blocks, contents, span)))
  BY <1>1, <1>7, <1>8
<1>10. RegionUnits(d, marks, blocks, contents, span) = Joined(units)
  BY <1>2, <1>8, RegionUnitsIs
<1>11. /\ Joined(units) \in Seq(UnitOf(d, Taken(d, blocks, contents, span)))
       /\ NoneFollows(Joined(units)) /\ LinesIn(Joined(units)) = LinesIn(units)
  BY <1>9, JoinedAre
<1> QED
  BY <1>2, <1>8, <1>10, <1>11, Zenon

-----------------------------------------------------------------------------
(* Regions as streams of words.                                            *)

\* The words of each line of a list.
WordCounts(d, lines) == [m \in DOMAIN lines |-> d.lines[lines[m]].words]

LEMMA WordCountsAre ==
  ASSUME NEW d, IsDocument(d), NEW S \in SUBSET Indices(d), NEW lines \in Seq(S)
  PROVE  /\ WordCounts(d, lines) \in Seq(Nat) /\ Len(WordCounts(d, lines)) = Len(lines)
         /\ \A k \in 1..Len(lines) :
              WordCounts(d, lines)[k] = d.lines[lines[k]].words /\ WordCounts(d, lines)[k] > 0
<1>1. PICK counts : counts = WordCounts(d, lines)
  OBVIOUS
<1>2. Len(lines) \in Nat /\ DOMAIN lines = 1..Len(lines)
  OBVIOUS
<1>3. counts = [m \in 1..Len(lines) |-> d.lines[lines[m]].words]
  BY <1>1, <1>2 DEF WordCounts
<1>4. ASSUME NEW k \in 1..Len(lines) PROVE counts[k] \in Nat /\ counts[k] > 0
  <2>1. lines[k] \in Indices(d)
    BY <1>2
  <2>2. d.lines[lines[k]].words \in Nat \ {0}
    BY <2>1 DEF IsDocument
  <2> QED
    BY <1>3, <2>2
<1>5. counts = [k \in 1..Len(lines) |-> counts[k]]
  BY <1>3
<1>6. counts \in Seq(Nat) /\ Len(counts) = Len(lines)
  BY <1>2, <1>4, <1>5, MadeList
<1> QED
  BY <1>1, <1>3, <1>4, <1>6

\* Some lines have words.
LEMMA WordsInLines ==
  ASSUME NEW d, IsDocument(d), NEW S \in SUBSET Indices(d), NEW lines \in Seq(S)
  PROVE  /\ \A n \in 0..Len(lines) : Total(WordCounts(d, lines), n) \in Nat
         /\ lines # <<>> => Total(WordCounts(d, lines), Len(lines)) > 0
<1>1. PICK counts, n : counts = WordCounts(d, lines) /\ n = Len(lines)
  OBVIOUS
<1>2. counts \in Seq(Nat) /\ Len(counts) = n /\ n \in Nat /\ \A k \in 1..n : counts[k] > 0
  BY <1>1, WordCountsAre
<1>3. /\ \A k \in 0..n : Total(counts, k) \in Nat
      /\ \A k \in 1..n : Total(counts, k) = Total(counts, k - 1) + counts[k]
  BY <1>2, TotalIs
<1>4. lines # <<>> => Total(counts, n) > 0
  <2> SUFFICES ASSUME lines # <<>> PROVE Total(counts, n) > 0
    OBVIOUS
  <2>1. n > 0
    BY <1>1
  <2>2. n \in 1..n /\ n - 1 \in 0..n
    BY <1>2, <2>1
  <2>3. Total(counts, n) = Total(counts, n - 1) + counts[n] /\ Total(counts, n - 1) \in Nat /\ counts[n] > 0
    BY <1>2, <1>3, <2>2
  <2>4. counts[n] \in Nat
    BY <1>2, <2>2
  <2> QED
    BY <2>3, <2>4
<1> QED
  BY <1>1, <1>3, <1>4

UnitCounts(units) == [k \in DOMAIN units |-> LineWords(units[k].lines, Len(units[k].lines))]

\* A unit of a region, and where it begins and ends in the region's words.
LaidAs(laid, unit, from, upto) ==
  /\ laid \in ChunkUnit
  /\ laid.lines = unit.lines /\ laid.from = from /\ laid.upto = upto
  /\ laid.atomic = unit.atomic /\ laid.repeat = unit.repeat /\ laid.partial = FALSE

LEMMA UnitCountsAre ==
  ASSUME IsDocument(doc), NEW S \in SUBSET Indices(doc), NEW units \in Seq(UnitOf(doc, S))
  PROVE  /\ UnitCounts(units) \in Seq(Nat) /\ Len(UnitCounts(units)) = Len(units)
         /\ \A k \in 1..Len(units) :
              /\ UnitCounts(units)[k] = LineWords(units[k].lines, Len(units[k].lines))
              /\ UnitCounts(units)[k] > 0
<1>1. PICK counts, n : counts = UnitCounts(units) /\ n = Len(units)
  OBVIOUS
<1>2. n \in Nat /\ DOMAIN units = 1..n /\ \A k \in 1..n : units[k] \in UnitOf(doc, S)
  BY <1>1
<1>3. counts = [k \in 1..n |-> LineWords(units[k].lines, Len(units[k].lines))]
  BY <1>1, <1>2 DEF UnitCounts
<1>4. ASSUME NEW k \in 1..n PROVE counts[k] \in Nat /\ counts[k] > 0
  <2>1. PICK lines : lines = units[k].lines
    OBVIOUS
  <2>2. units[k] \in UnitOf(doc, S)
    BY <1>2
  <2>3. lines \in Seq(S) /\ lines # <<>>
    BY <2>1, <2>2, UnitHas
  <2>4. Len(lines) \in 0..Len(lines)
    BY <2>3
  <2>5. Total(WordCounts(doc, lines), Len(lines)) \in Nat /\ Total(WordCounts(doc, lines), Len(lines)) > 0
    BY <2>3, <2>4, WordsInLines
  <2>6. counts[k] = Total(WordCounts(doc, lines), Len(lines))
    BY <1>3, <2>1 DEF LineWords, WordCounts
  <2> QED
    BY <2>5, <2>6
<1>5. counts = [k \in 1..n |-> counts[k]]
  BY <1>3
<1>6. counts \in Seq(Nat) /\ Len(counts) = n
  BY <1>2, <1>4, <1>5, MadeList
<1> QED
  BY <1>1, <1>3, <1>4, <1>6

LEMMA LaidIs ==
  ASSUME IsDocument(doc), NEW S \in SUBSET Indices(doc), NEW units \in Seq(UnitOf(doc, S))
  PROVE  /\ Laid(units) \in Seq(ChunkUnit) /\ Len(Laid(units)) = Len(units)
         /\ \A k \in 1..Len(units) :
              LaidAs(Laid(units)[k], units[k], Total(UnitCounts(units), k - 1), Total(UnitCounts(units), k))
<1>1. PICK words, n : words = UnitCounts(units) /\ n = Len(units)
  OBVIOUS
<1>2. n \in Nat /\ DOMAIN units = 1..n /\ \A k \in 1..n : units[k] \in UnitOf(doc, S)
  BY <1>1
<1>3. words \in Seq(Nat) /\ Len(words) = n /\ \A k \in 1..n : words[k] > 0
  BY <1>1, UnitCountsAre
<1>4. /\ \A k \in 0..n : Total(words, k) \in Nat
      /\ \A k \in 1..n : Total(words, k) = Total(words, k - 1) + words[k]
  BY <1>3, TotalIs
<1> DEFINE Stops(k) == {Total(words, k - 1) + LineWords(units[k].lines, m) :
                          m \in {j \in DOMAIN units[k].lines : doc.lines[units[k].lines[j]].stop}}
           One(k) == [lines |-> units[k].lines, from |-> Total(words, k - 1), upto |-> Total(words, k),
                      stops |-> Stops(k), atomic |-> units[k].atomic, repeat |-> units[k].repeat,
                      partial |-> FALSE]
<1>5. Laid(units) = [k \in 1..n |-> One(k)]
  BY <1>1, <1>2 DEF Laid, UnitCounts
<1>6. ASSUME NEW k \in 1..n
      PROVE  LaidAs(One(k), units[k], Total(words, k - 1), Total(words, k))
  <2>1. PICK a, b : a = Total(words, k - 1) /\ b = Total(words, k)
    OBVIOUS
  <2>2. a \in Nat /\ b \in Nat /\ a < b
    <3>1. k - 1 \in 0..n /\ k \in 0..n
      BY <1>2
    <3>2. a \in Nat /\ b \in Nat /\ b = a + words[k]
      BY <1>4, <2>1, <3>1
    <3>3. words[k] \in Nat /\ words[k] > 0
      BY <1>3
    <3> QED
      BY <3>2, <3>3
  <2>3. PICK lines : lines = units[k].lines
    OBVIOUS
  <2>4. lines \in Seq(S) /\ units[k].atomic \in BOOLEAN /\ units[k].repeat \in BOOLEAN
    BY <1>2, <2>3, UnitHas
  <2>5. lines \in Seq(Nat)
    BY <2>4, RowsAre
  <2>6. Stops(k) \in SUBSET Nat
    <3>1. ASSUME NEW m \in DOMAIN lines PROVE LineWords(lines, m) \in Nat
      <4>1. m \in 0..Len(lines)
        BY <2>4
      <4>2. Total(WordCounts(doc, lines), m) \in Nat
        BY <2>4, <4>1, WordsInLines
      <4> QED
        BY <4>2 DEF LineWords, WordCounts
    <3> QED
      BY <2>1, <2>2, <2>3, <3>1
  <2> HIDE DEF Stops
  <2>7. One(k) \in ChunkUnit
    BY <2>1, <2>2, <2>3, <2>4, <2>5, <2>6 DEF ChunkUnit
  <2> QED
    BY <2>7 DEF LaidAs
<1>7. PICK laid : laid = Laid(units)
  OBVIOUS
<1>8. \A k \in 1..n : laid[k] \in ChunkUnit /\ LaidAs(laid[k], units[k], Total(words, k - 1), Total(words, k))
  <2> HIDE DEF One
  <2>1. \A k \in 1..n : laid[k] = One(k)
    BY <1>5, <1>7
  <2> QED
    BY <1>6, <2>1 DEF LaidAs
<1>9. laid = [k \in 1..n |-> laid[k]]
  BY <1>5, <1>7
<1>10. laid \in Seq(ChunkUnit) /\ Len(laid) = n
  BY <1>2, <1>8, <1>9, MadeList
<1> QED
  BY <1>1, <1>7, <1>8, <1>10

-----------------------------------------------------------------------------
(* Anchors.                                                                *)

LEMMA ReadingOrderIsSeq ==
  ASSUME NEW d, IsDocument(d), NEW Q \in SUBSET Indices(d)
  PROVE  InReadingOrder(Q) \in Seq(Q)
<1>1. Len(d.lines) \in Nat /\ Q \in SUBSET (1..Len(d.lines))
  BY IndicesAre
<1> QED
  BY <1>1, ReadingOrder

LEMMA EntriesAre ==
  ASSUME NEW d, IsDocument(d), NEW marks
  PROVE  \E n \in Nat : DOMAIN SectionMap(d, marks).entries = 1..n
<1>1. \E n \in Nat : DOMAIN d.toc = 1..n
  <2>1. d.toc \in Seq(ToSet(d.toc))
    BY DEF IsDocument, IsSeq
  <2>2. Len(d.toc) \in Nat /\ DOMAIN d.toc = 1..Len(d.toc)
    BY <2>1
  <2> QED
    BY <2>2
<1>2. \E n \in Nat : DOMAIN <<>> = 1..n
  BY 1..0 = {}
<1>3. \E n \in Nat : DOMAIN ContentsEntries(d, marks) = 1..n
  <2>1. PICK pages : pages = {p \in 1..d.pages : IsDotLeaderPage(d, marks, p)}
    OBVIOUS
  <2>2. CASE pages = {}
    BY <1>2, <2>1, <2>2 DEF ContentsEntries
  <2>3. CASE pages # {}
    <3>1. PICK order : order = InReadingOrder(Leaders(d, Min(pages)))
      OBVIOUS
    <3>2. order \in Seq(Leaders(d, Min(pages)))
      <4>1. Leaders(d, Min(pages)) \in SUBSET Indices(d)
        BY DEF Leaders, OnPage
      <4> QED
        BY <3>1, <4>1, ReadingOrderIsSeq
    <3>3. ContentsEntries(d, marks) = [k \in DOMAIN order |-> LeaderAt(d, order[k])]
      BY <2>1, <2>3, <3>1 DEF ContentsEntries
    <3>4. Len(order) \in Nat /\ DOMAIN order = 1..Len(order)
      BY <3>2
    <3> QED
      BY <3>3, <3>4
  <2> QED
    BY <2>2, <2>3
<1>4. \E n \in Nat : DOMAIN HeadingEntries(d, marks) = 1..n
  <2>1. PICK size : size = HeadingSize(d, marks)
    OBVIOUS
  <2>2. PICK order : order = IF size = 0 THEN <<>> ELSE InReadingOrder(HeadingLines(d, marks, size))
    OBVIOUS
  <2>3. order \in Seq(Indices(d))
    <3>1. HeadingLines(d, marks, size) \in SUBSET Indices(d)
      BY DEF HeadingLines
    <3>2. InReadingOrder(HeadingLines(d, marks, size)) \in Seq(HeadingLines(d, marks, size))
      BY <3>1, ReadingOrderIsSeq
    <3>3. <<>> \in Seq(Indices(d))
      OBVIOUS
    <3> QED
      BY <2>2, <3>1, <3>2, <3>3
  <2> DEFINE HeadingsOn(p) == Among(order, {i \in Indices(d) : \E j \in OnPage(d, p) : SameLine(d, i, j)})
             EntriesOn(p) == [k \in DOMAIN HeadingsOn(p) |-> EntryAt(d, HeadingsOn(p)[k], p)]
  <2>4. PICK E : E = {EntryAt(d, q[1], q[2]) : q \in Indices(d) \X (1..d.pages)}
    OBVIOUS
  <2>5. ASSUME NEW p \in 1..d.pages PROVE EntriesOn(p) \in Seq(E)
    <3>1. HeadingsOn(p) \in Seq(Indices(d))
      BY <2>3, AmongElements
    <3>2. PICK lines : lines = HeadingsOn(p)
      OBVIOUS
    <3>3. /\ Len(lines) \in Nat
          /\ DOMAIN lines = 1..Len(lines)
          /\ \A k \in 1..Len(lines) : lines[k] \in Indices(d)
      <4>1. lines \in Seq(Indices(d))
        BY <3>1, <3>2, Zenon
      <4> QED
        BY <4>1
    <3>4. ASSUME NEW k \in 1..Len(lines) PROVE EntryAt(d, lines[k], p) \in E
      <4>1. <<lines[k], p>> \in Indices(d) \X (1..d.pages)
        BY <3>3
      <4> QED
        BY <2>4, <4>1
    <3>5. EntriesOn(p) = [k \in DOMAIN lines |-> EntryAt(d, lines[k], p)]
      BY <3>2, Zenon
    <3>6. PICK made : made = [k \in 1..Len(lines) |-> EntryAt(d, lines[k], p)]
      OBVIOUS
    <3>7. \A k \in 1..Len(lines) : made[k] \in E
      BY <3>4, <3>6
    <3>8. made = [k \in 1..Len(lines) |-> made[k]]
      BY <3>6
    <3>9. made \in Seq(E)
      BY <3>3, <3>7, <3>8, MadeList
    <3>10. EntriesOn(p) = made
      BY <3>3, <3>5, <3>6, Zenon
    <3> QED
      BY <3>9, <3>10, Zenon
  <2>6. PICK seqs : seqs = [p \in 1..d.pages |-> EntriesOn(p)]
    OBVIOUS
  <2>7. HeadingEntries(d, marks) = FlattenSeq(seqs)
    BY <2>1, <2>2, <2>6 DEF HeadingEntries
  <2> HIDE DEF EntriesOn, HeadingsOn
  <2>8. seqs \in Seq(Seq(E))
    <3>1. d.pages \in Nat
      BY DEF IsDocument
    <3>2. \A p \in 1..d.pages : seqs[p] \in Seq(E)
      BY <2>5, <2>6
    <3>3. seqs = [p \in 1..d.pages |-> seqs[p]]
      BY <2>6
    <3> QED
      BY <3>1, <3>2, <3>3, MadeList
  <2>9. PICK all : all = FlattenSeq(seqs)
    OBVIOUS
  <2>10. all \in Seq(E)
    BY <2>8, <2>9, FlattenIs
  <2>11. Len(all) \in Nat /\ DOMAIN all = 1..Len(all)
    BY <2>10
  <2> QED
    BY <2>7, <2>9, <2>11
<1>5. PICK path : path = IF Len(d.toc) >= OutlineMinEntries THEN "outline"
              ELSE IF ContentsEntries(d, marks) # <<>> THEN "contents"
              ELSE IF HeadingSize(d, marks) # 0 THEN "headings" ELSE "none"
  OBVIOUS
<1>6. PICK raw : raw = CASE path = "outline" -> d.toc
               [] path = "contents" -> ContentsEntries(d, marks)
               [] path = "headings" -> HeadingEntries(d, marks)
               [] OTHER -> <<>>
  OBVIOUS
<1>7. PICK entries : entries = WithParents(raw)
  OBVIOUS
<1>8. SectionMap(d, marks).entries =
        IF IsNumbered(entries) THEN entries
        ELSE [k \in DOMAIN entries |-> [entries[k] EXCEPT !.number = None]]
  BY <1>5, <1>6, <1>7 DEF SectionMap
<1>9. \E n \in Nat : DOMAIN raw = 1..n
  <2>1. path \in {"outline", "contents", "headings", "none"}
    BY <1>5
  <2>2. path = "outline" => raw = d.toc
    BY <1>6
  <2>3. path = "contents" => raw = ContentsEntries(d, marks)
    BY <1>6
  <2>4. path = "headings" => raw = HeadingEntries(d, marks)
    BY <1>6
  <2>5. path = "none" => raw = <<>>
    BY <1>6
  <2> QED
    BY <1>1, <1>2, <1>3, <1>4, <2>1, <2>2, <2>3, <2>4, <2>5
<1>10. DOMAIN entries = DOMAIN raw
  BY <1>7 DEF WithParents
<1> QED
  BY <1>8, <1>9, <1>10

LEMMA TopIs ==
  ASSUME NEW d, IsDocument(d), NEW p
  PROVE  Top(d, p) \in Nat
<1>1. PICK Q : Q = {Len(d.lines) + 1} \cup {i \in Indices(d) : d.lines[i].page >= p}
  OBVIOUS
<1>2. Q \in SUBSET Nat /\ Q # {} /\ \A q \in Q : q >= 1
  BY <1>1, IndicesAre
<1>3. Min(Q) \in Q
  BY <1>2, LeastIn
<1>4. Min(Q) \in Nat /\ Min(Q) >= 1
  BY <1>2, <1>3
<1> QED
  BY <1>1, <1>4 DEF Top, At

\* An anchor is never before the one it follows.
LEMMA AnchorOfIs ==
  ASSUME NEW d, IsDocument(d), NEW entry, NEW previous \in Nat
  PROVE  LET a == Clamped(AnchorOf(d, entry, previous), previous) IN
         /\ a.entry = entry /\ a.position \in Nat /\ a.position >= previous
<1>1. PICK target : target = TargetPage(d, entry.page)
  OBVIOUS
<1> DEFINE Found(p) == {i \in OnPage(d, p) : At(i) > previous /\ entry.title \in d.lines[i].reads}
<1>2. PICK pages : pages = <<target>> \o Among(<<entry.page - 1, entry.page + 1>>, 1..d.pages)
  OBVIOUS
<1>3. PICK at : at = SelectInSeq(pages, LAMBDA p : Found(p) # {})
  OBVIOUS
<1>4. AnchorOf(d, entry, previous) =
        IF entry.title = None \/ at = 0
        THEN Anchor(entry, Top(d, target), None, "page-only")
        ELSE LET line == Min(Found(pages[at]))
             IN  Anchor(entry, At(line), line, IF at = 1 THEN "title" ELSE "nearby")
  BY <1>1, <1>2, <1>3 DEF AnchorOf
<1>5. PICK a : a = AnchorOf(d, entry, previous)
  OBVIOUS
<1>6. \E x \in Nat : \E l, q : a = Anchor(entry, x, l, q)
  <2>1. CASE entry.title = None \/ at = 0
    BY <1>4, <1>5, <2>1, TopIs
  <2>2. CASE ~(entry.title = None \/ at = 0)
    <3>1. PICK line : line = Min(Found(pages[at]))
      OBVIOUS
    <3>2. Found(pages[at]) # {}
      <4>1. PICK I : I = {i \in 1..Len(pages) : Found(pages[i]) # {}}
        OBVIOUS
      <4>2. at = IF I # {} THEN Min(I) ELSE 0
        BY <1>3, <4>1 DEF SelectInSeq
      <4>3. Len(pages) \in Nat
        <5>1. Among(<<entry.page - 1, entry.page + 1>>, 1..d.pages) \in
                Seq({entry.page - 1, entry.page + 1} \cap (1..d.pages))
          <6>1. <<entry.page - 1, entry.page + 1>> \in Seq({entry.page - 1, entry.page + 1})
            OBVIOUS
          <6> QED
            BY <6>1, AmongIs
        <5>2. PICK more : more = Among(<<entry.page - 1, entry.page + 1>>, 1..d.pages)
          OBVIOUS
        <5>3. PICK T : T = {target} \cup ({entry.page - 1, entry.page + 1} \cap (1..d.pages))
          OBVIOUS
        <5>4. more \in Seq(T) /\ <<target>> \in Seq(T)
          BY <5>1, <5>2, <5>3
        <5>5. <<target>> \o more \in Seq(T)
          BY <5>4, ConcatProperties
        <5> QED
          BY <1>2, <5>2, <5>5
      <4>4. I \in SUBSET (1..Len(pages))
        BY <4>1
      <4>5. (I = {} /\ at = 0) \/ at \in I
        BY <4>2, <4>3, <4>4, LeastPlace
      <4> QED
        BY <2>2, <4>1, <4>5
    <3>3. Found(pages[at]) \in SUBSET Nat
      BY IndicesAre DEF OnPage
    <3>4. line \in Nat
      <4> HIDE DEF Found
      <4> QED
        BY <3>1, <3>2, <3>3, LeastIn
    <3>5. At(line) \in Nat
      BY <3>4 DEF At
    <3>6. a = Anchor(entry, At(line), line, IF at = 1 THEN "title" ELSE "nearby")
      BY <1>4, <1>5, <2>2, <3>1
    <3> QED
      BY <3>5, <3>6
  <2> QED
    BY <2>1, <2>2
<1>6a. PICK x \in Nat : \E l, q : a = Anchor(entry, x, l, q)
  BY <1>6
<1>7. PICK l, q : a = Anchor(entry, x, l, q)
  BY <1>6a
<1>8. a = [entry |-> entry, position |-> x, line |-> l, quality |-> q]
  BY <1>7 DEF Anchor
<1>9. PICK b : b = Clamped(a, previous)
  OBVIOUS
<1>10. b = IF x < previous THEN [a EXCEPT !.position = previous, !.quality = "page-only"] ELSE a
  BY <1>8, <1>9 DEF Clamped
<1>11. b.entry = entry /\ b.position \in Nat /\ b.position >= previous
  BY <1>8, <1>10
<1> QED
  BY <1>5, <1>9, <1>11

PreviousOf(anchs) == IF anchs = <<>> THEN 0 ELSE Last(anchs).position
NextAnchor(d, anchs, entry) == Clamped(AnchorOf(d, entry, PreviousOf(anchs)), PreviousOf(anchs))

AnchorSteps(h, d, entries) ==
  /\ h[0] = <<>>
  /\ \A k \in 1..Len(entries) : h[k] = Append(h[k - 1], NextAnchor(d, h[k - 1], entries[k]))
  /\ AnchorEntries(d, entries) = h[Len(entries)]

\* Anchors in the order of their positions.
InPlace(anchs) ==
  /\ IsSeq(anchs)
  /\ \A k \in 1..Len(anchs) : anchs[k].position \in Nat
  /\ \A j, k \in 1..Len(anchs) : j <= k => anchs[j].position <= anchs[k].position

LEMMA AnchorStepsExist ==
  ASSUME NEW d, IsDocument(d), NEW entries, NEW n \in Nat, DOMAIN entries = 1..n, Len(entries) = n
  PROVE  \E h : AnchorSteps(h, d, entries)
<1> DEFINE A == {a \in {Clamped(AnchorOf(d, entries[k], p), p) : k \in 1..n, p \in Nat} : a.position \in Nat}
           V == Seq(A)
           Fold(f) == f = [Q \in SUBSET (DOMAIN entries) |->
                             IF Q = {} THEN <<>>
                             ELSE LET x == Max(Q) IN
                                    Append(f[Q \ {x}], NextAnchor(d, f[Q \ {x}], entries[x]))]
<1>1. ASSUME NEW v \in V, NEW k \in 1..n
      PROVE  Append(v, NextAnchor(d, v, entries[k])) \in V
  <2>1. PICK p : p = PreviousOf(v)
    OBVIOUS
  <2>2. p \in Nat
    <3>1. CASE v = <<>>
      BY <2>1, <3>1 DEF PreviousOf
    <3>2. CASE v # <<>>
      <4>1. v \in Seq(A)
        OBVIOUS
      <4> HIDE DEF A
      <4>2. Last(v) \in A
        BY <3>2, <4>1, FrontAndLast
      <4> QED
        BY <2>1, <3>2, <4>2 DEF PreviousOf, A
    <3> QED
      BY <3>1, <3>2
  <2>3. PICK a : a = Clamped(AnchorOf(d, entries[k], p), p)
    OBVIOUS
  <2>4. a \in A
    <3>1. a.position \in Nat
      BY <2>2, <2>3, AnchorOfIs
    <3> QED
      BY <2>2, <2>3, <3>1
  <2>5. NextAnchor(d, v, entries[k]) = a
    BY <2>1, <2>3 DEF NextAnchor
  <2> HIDE DEF A
  <2> QED
    BY <2>4, <2>5, AppendProperties
<1>2. \E f : Fold(f)
  <2> DEFINE G == [p \in (1..n) \X V |-> Append(p[2], NextAnchor(d, p[2], entries[p[1]]))]
  <2>1. G \in [(1..n) \X V -> V] /\ <<>> \in V
    <3>1. <<>> \in V
      OBVIOUS
    <3>2. ASSUME NEW p \in (1..n) \X V PROVE Append(p[2], NextAnchor(d, p[2], entries[p[1]])) \in V
      <4>1. p[2] \in V /\ p[1] \in 1..n
        OBVIOUS
      <4> HIDE DEF V
      <4> QED
        BY <1>1, <4>1
    <3> QED
      BY <3>1, <3>2
  <2>2. \A x \in 1..n, v \in V : G[<<x, v>>] = Append(v, NextAnchor(d, v, entries[x]))
    OBVIOUS
  <2> HIDE DEF G, V
  <2>3. PICK f : Folded(f, n, V, <<>>, G)
    BY <2>1, FoldExists
  <2>4. ASSUME NEW Q \in SUBSET (1..n)
        PROVE  f[Q] = IF Q = {} THEN <<>>
                      ELSE LET x == Max(Q) IN Append(f[Q \ {x}], NextAnchor(d, f[Q \ {x}], entries[x]))
    <3>1. Q # {} => Max(Q) \in 1..n /\ f[Q \ {Max(Q)}] \in V
      BY <2>3 DEF Folded
    <3>2. Q # {} => f[Q] = G[<<Max(Q), f[Q \ {Max(Q)}]>>]
      BY <2>3 DEF Folded
    <3>3. Q = {} => f[Q] = <<>>
      BY <2>3 DEF Folded
    <3> QED
      BY <2>2, <3>1, <3>2, <3>3
  <2>5. Fold(f)
    <3>1. f \in [SUBSET (1..n) -> V]
      BY <2>3 DEF Folded
    <3> QED
      BY <2>4, <3>1
  <2> QED
    BY <2>5
<1>3. PICK f : Fold(f) /\ AnchorEntries(d, entries) = f[1..n]
  <2>1. AnchorEntries(d, entries) = (CHOOSE f : Fold(f))[DOMAIN entries]
    BY DEF AnchorEntries, FoldLeft, MapThenFoldSet, NextAnchor, PreviousOf
  <2> QED
    BY <1>2, <2>1
<1>4. PICK h : h = [k \in 0..n |-> f[1..k]]
  OBVIOUS
<1>5. \A Q \in SUBSET (1..n) :
        f[Q] = IF Q = {} THEN <<>>
               ELSE LET x == Max(Q) IN Append(f[Q \ {x}], NextAnchor(d, f[Q \ {x}], entries[x]))
  <2>1. Fold(f)
    BY <1>3
  <2>2. \A Q \in SUBSET (DOMAIN entries) :
          f[Q] = IF Q = {} THEN <<>>
                 ELSE LET x == Max(Q) IN Append(f[Q \ {x}], NextAnchor(d, f[Q \ {x}], entries[x]))
    BY <2>1, Zenon
  <2>3. ASSUME NEW Q \in SUBSET (1..n)
        PROVE  f[Q] = IF Q = {} THEN <<>>
                      ELSE LET x == Max(Q) IN Append(f[Q \ {x}], NextAnchor(d, f[Q \ {x}], entries[x]))
    <3>1. Q \in SUBSET (DOMAIN entries)
      OBVIOUS
    <3> QED
      BY <2>2, <3>1
  <2> QED
    BY <2>3
<1>6. AnchorSteps(h, d, entries)
  <2>1. h[0] = <<>>
    <3>1. h[0] = f[1..0] /\ 1..0 = {}
      BY <1>4
    <3>2. f[{}] = <<>>
      BY <1>5
    <3> QED
      BY <3>1, <3>2
  <2>2. ASSUME NEW k \in 1..n
        PROVE  h[k] = Append(h[k - 1], NextAnchor(d, h[k - 1], entries[k]))
    <3>1. h[k] = f[1..k] /\ h[k - 1] = f[1..(k - 1)]
      BY <1>4
    <3>2. PICK Q : Q = 1..k
      OBVIOUS
    <3>3. Q \in SUBSET (1..n) /\ Q # {} /\ Max(Q) = k /\ Q \ {k} = 1..(k - 1)
      BY <3>2, FirstPlaces
    <3>4. f[Q] = Append(f[Q \ {k}], NextAnchor(d, f[Q \ {k}], entries[k]))
      BY <1>5, <3>3
    <3> QED
      BY <3>1, <3>2, <3>3, <3>4
  <2>3. AnchorEntries(d, entries) = h[Len(entries)]
    BY <1>3, <1>4
  <2> QED
    BY <2>1, <2>2, <2>3 DEF AnchorSteps
<1> QED
  BY <1>6

LEMMA AnchorAppended ==
  ASSUME NEW d, IsDocument(d), NEW anchs, InPlace(anchs), NEW entry
  PROVE  InPlace(Append(anchs, NextAnchor(d, anchs, entry)))
<1>1. PICK n, p : n = Len(anchs) /\ p = PreviousOf(anchs)
  OBVIOUS
<1>2. anchs \in Seq(ToSet(anchs))
  BY DEF InPlace, IsSeq
<1>3. n \in Nat
  BY <1>1, <1>2
<1>4. p \in Nat /\ \A k \in 1..n : anchs[k].position <= p
  <2>1. CASE anchs = <<>>
    BY <1>1, <2>1 DEF PreviousOf
  <2>2. CASE anchs # <<>>
    <3>1. n > 0
      BY <1>1, <1>2, <2>2
    <3>2. n \in 1..n
      BY <1>3, <3>1
    <3>3. p = anchs[n].position
      BY <1>1, <2>2 DEF PreviousOf, Last
    <3>4. \A k \in 1..n : k <= n
      BY <1>3
    <3> QED
      BY <1>1, <3>2, <3>3, <3>4 DEF InPlace
  <2> QED
    BY <2>1, <2>2
<1>5. PICK a : a = NextAnchor(d, anchs, entry)
  OBVIOUS
<1>6. a.position \in Nat /\ a.position >= p
  <2>1. a = Clamped(AnchorOf(d, entry, p), p)
    BY <1>1, <1>5 DEF NextAnchor
  <2> QED
    BY <1>4, <2>1, AnchorOfIs
<1>7. PICK list : list = Append(anchs, a)
  OBVIOUS
<1>8. PICK T : T = ToSet(anchs) \cup {a}
  OBVIOUS
<1>9. /\ list \in Seq(T) /\ Len(list) = n + 1 /\ list[n + 1] = a
      /\ \A k \in 1..n : list[k] = anchs[k]
  <2>1. anchs \in Seq(T) /\ a \in T
    BY <1>2, <1>8
  <2> QED
    BY <1>1, <1>7, <2>1, AppendProperties
<1>10. IsSeq(list)
  BY <1>9, IsSeqOf
<1>11. \A k \in 1..(n + 1) : k \in 1..n \/ k = n + 1
  BY <1>3
<1>12. \A k \in 1..(n + 1) : list[k].position \in Nat
  <2>1. \A k \in 1..n : anchs[k].position \in Nat
    BY <1>1 DEF InPlace
  <2> QED
    BY <1>6, <1>9, <1>11, <2>1
<1>13. ASSUME NEW j \in 1..(n + 1), NEW k \in 1..(n + 1), j <= k
       PROVE  list[j].position <= list[k].position
  <2>1. CASE k \in 1..n
    <3>1. j \in 1..n
      BY <1>3, <1>13, <2>1
    <3>2. anchs[j].position <= anchs[k].position
      BY <1>1, <1>13, <2>1, <3>1 DEF InPlace
    <3> QED
      BY <1>9, <2>1, <3>1, <3>2
  <2>2. CASE k = n + 1
    <3>1. CASE j \in 1..n
      <4>1. anchs[j].position \in Nat /\ anchs[j].position <= p
        BY <1>1, <1>4, <3>1 DEF InPlace
      <4> QED
        BY <1>4, <1>6, <1>9, <2>2, <3>1, <4>1
    <3>2. CASE j = n + 1
      BY <1>6, <1>9, <2>2, <3>2
    <3> QED
      BY <1>11, <3>1, <3>2
  <2> QED
    BY <1>11, <2>1, <2>2
<1> QED
  BY <1>5, <1>7, <1>9, <1>10, <1>12, <1>13 DEF InPlace

LEMMA AnchorsAre ==
  ASSUME NEW d, IsDocument(d), NEW marks
  PROVE  InPlace(AnchorEntries(d, SectionMap(d, marks).entries))
<1>1. PICK entries : entries = SectionMap(d, marks).entries
  OBVIOUS
<1>2. PICK n \in Nat : DOMAIN entries = 1..n
  BY <1>1, EntriesAre
<1>3. Len(entries) = n
  BY <1>2
<1>4. PICK h : AnchorSteps(h, d, entries)
  BY <1>2, <1>3, AnchorStepsExist
<1> DEFINE W == {k \in 0..n : InPlace(h[k])}
<1>5. 0 \in W
  <2>1. h[0] = <<>>
    BY <1>4 DEF AnchorSteps
  <2>2. <<>> \in Seq(ToSet(<<>>)) /\ Len(<<>>) = 0
    OBVIOUS
  <2>3. InPlace(<<>>)
    BY <2>2 DEF InPlace, IsSeq
  <2> QED
    BY <2>1, <2>3
<1>6. ASSUME NEW k \in 1..n, k - 1 \in W PROVE k \in W
  <2>1. InPlace(h[k - 1])
    BY <1>6
  <2>2. h[k] = Append(h[k - 1], NextAnchor(d, h[k - 1], entries[k]))
    BY <1>3, <1>4 DEF AnchorSteps
  <2>3. InPlace(h[k])
    BY <2>1, <2>2, AnchorAppended
  <2> QED
    BY <2>3
<1> HIDE DEF W
<1>7. \A k \in 1..n : k - 1 \in W => k \in W
  BY <1>6
<1>8. \A k \in 0..n : k \in W
  BY <1>5, <1>7, EveryPlace
<1>9. InPlace(h[n])
  BY <1>8 DEF W
<1> QED
  BY <1>1, <1>3, <1>4, <1>9 DEF AnchorSteps

-----------------------------------------------------------------------------
(* The regions between anchors.                                            *)

\* The lines of a span are those of the last heading found at or before them.
TitleAt(anchs, sps, i) ==
  LET before == {a \in DOMAIN anchs : anchs[a].position <= At(i)} IN
    IF before = {} THEN sps[1].entry.title ELSE anchs[Max(before)].entry.title

UnderTheirSection(d, anchs, sps) ==
  /\ IsSeq(sps)
  /\ \A r \in 1..Len(sps) : \A i \in Indices(d) :
       Holds(sps[r], i) => sps[r].entry.title = TitleAt(anchs, sps, i)

\* What an anchor holds is after it and before the next.
LEMMA LastBefore ==
  ASSUME NEW anchs, InPlace(anchs), NEW k \in 1..Len(anchs), NEW x \in Nat,
         anchs[k].position <= x, k < Len(anchs) => x < anchs[k + 1].position
  PROVE  LET before == {a \in DOMAIN anchs : anchs[a].position <= x} IN
         before # {} /\ Max(before) = k
<1>1. anchs \in Seq(ToSet(anchs))
  BY DEF InPlace, IsSeq
<1>2. PICK n : n = Len(anchs)
  OBVIOUS
<1>3. n \in Nat /\ DOMAIN anchs = 1..n /\ k \in 1..n
  BY <1>1, <1>2
<1>4. PICK before : before = {a \in DOMAIN anchs : anchs[a].position <= x}
  OBVIOUS
<1>5. before \in SUBSET (0..n) /\ before \in SUBSET (1..n) /\ k \in before
  BY <1>3, <1>4
<1>6. Max(before) \in before /\ \A y \in before : y <= Max(before)
  BY <1>3, <1>5, GreatestIn
<1>7. PICK m : m = Max(before)
  OBVIOUS
<1>8. m \in 1..n /\ k <= m /\ anchs[m].position <= x
  BY <1>4, <1>5, <1>6, <1>7
<1>9. m = k
  <2> SUFFICES ASSUME m # k PROVE FALSE
    OBVIOUS
  <2>1. k + 1 <= m /\ k < n /\ k + 1 \in 1..n
    BY <1>3, <1>8
  <2>2. anchs[k + 1].position <= anchs[m].position /\ anchs[k + 1].position \in Nat /\ anchs[m].position \in Nat
    BY <1>2, <1>8, <2>1 DEF InPlace
  <2>3. x < anchs[k + 1].position
    BY <1>2, <2>1
  <2> QED
    BY <1>8, <2>2, <2>3
<1> QED
  BY <1>4, <1>5, <1>7, <1>9

LEMMA SpansAre ==
  ASSUME NEW d, IsDocument(d), NEW marks, NEW anchs, InPlace(anchs), NEW inferred
  PROVE  UnderTheirSection(d, anchs, DeriveRegions(d, marks, anchs, inferred))
<1>1. PICK n : n = Len(anchs)
  OBVIOUS
<1>2. anchs \in Seq(ToSet(anchs))
  BY DEF InPlace, IsSeq
<1>3. n \in Nat /\ DOMAIN anchs = 1..n /\ (anchs = <<>> <=> n = 0)
  BY <1>1, <1>2
<1>4. PICK end : end = At(Len(d.lines) + 1)
  OBVIOUS
<1>5. PICK first : first = IF anchs = <<>> THEN end ELSE anchs[1].position
  OBVIOUS
<1> DEFINE titles == {i \in Indices(d) : At(i) < first /\ ReadsAsTitle(d, marks, i)}
<1>6. PICK front : front = Entry(1, None, IF titles = {} THEN FrontMatter ELSE d.lines[Min(titles)].title, 1)
  OBVIOUS
<1> DEFINE One(k) == Span(anchs[k].entry, anchs[k].position,
                          IF k < Len(anchs) THEN anchs[k + 1].position ELSE end, inferred)
<1>7. PICK before : before = IF At(1) < first THEN <<Span(front, At(1), first, FALSE)>> ELSE <<>>
  OBVIOUS
<1>8. PICK rest : rest = [k \in DOMAIN anchs |-> One(k)]
  OBVIOUS
<1>9. PICK sps : sps = DeriveRegions(d, marks, anchs, inferred)
  OBVIOUS
<1>10. sps = IF d.lines = <<>> THEN <<>> ELSE before \o rest
  BY <1>4, <1>5, <1>6, <1>7, <1>8, <1>9 DEF DeriveRegions
<1>11. ASSUME NEW i \in Indices(d)
       PROVE  i \in Nat /\ i >= 1 /\ At(i) \in Nat /\ At(1) <= At(i)
  BY IndicesAre DEF At
<1>12. end \in Nat
  BY <1>4, IndicesAre DEF At
<1>13. CASE d.lines = <<>>
  <2>1. sps = <<>>
    BY <1>10, <1>13
  <2>2. <<>> \in Seq(ToSet(<<>>)) /\ Len(<<>>) = 0
    OBVIOUS
  <2> QED
    BY <1>9, <2>1, <2>2 DEF UnderTheirSection, IsSeq
<1>14. CASE d.lines # <<>>
  <2>1. PICK T : T = {One(k) : k \in 1..n} \cup {Span(front, At(1), first, FALSE)}
    OBVIOUS
  <2>2. rest \in Seq(T) /\ Len(rest) = n /\ \A k \in 1..n : rest[k] = One(k)
    <3>1. \A k \in 1..n : rest[k] = One(k) /\ rest[k] \in T
      BY <1>3, <1>8, <2>1
    <3>2. rest = [k \in 1..n |-> rest[k]]
      BY <1>3, <1>8
    <3> QED
      BY <1>3, <3>1, <3>2, MadeList
  <2>3. \A k \in 1..n : \A i \in Indices(d) : Holds(One(k), i) =>
          LET held == {a \in DOMAIN anchs : anchs[a].position <= At(i)} IN
            held # {} /\ Max(held) = k
    <3> SUFFICES ASSUME NEW k \in 1..n, NEW i \in Indices(d), Holds(One(k), i)
                 PROVE  LET held == {a \in DOMAIN anchs : anchs[a].position <= At(i)} IN
                          held # {} /\ Max(held) = k
      OBVIOUS
    <3>1. anchs[k].position <= At(i) /\ (k < Len(anchs) => At(i) < anchs[k + 1].position)
      BY DEF Holds, Span
    <3>2. At(i) \in Nat
      BY <1>11
    <3>3. PICK x : x = At(i)
      OBVIOUS
    <3>4. LET held == {a \in DOMAIN anchs : anchs[a].position <= x} IN held # {} /\ Max(held) = k
      BY <1>1, <3>1, <3>2, <3>3, LastBefore
    <3> QED
      BY <3>3, <3>4
  <2>4. \A k \in 1..n : One(k).entry = anchs[k].entry
    BY DEF Span
  <2> HIDE DEF One
  <2>5. CASE At(1) < first
    <3>1. PICK f : f = Span(front, At(1), first, FALSE)
      OBVIOUS
    <3>2. before = <<f>> /\ before \in Seq(T) /\ Len(before) = 1
      <4>1. before = <<f>>
        BY <1>7, <2>5, <3>1
      <4>2. f \in T
        BY <2>1, <3>1
      <4> QED
        BY <4>1, <4>2
    <3>3. /\ sps \in Seq(T) /\ Len(sps) = n + 1 /\ sps[1] = f
          /\ \A r \in 1..(n + 1) : r # 1 => r - 1 \in 1..n /\ sps[r] = rest[r - 1]
      <4>1. /\ before \o rest \in Seq(T) /\ Len(before \o rest) = Len(before) + Len(rest)
            /\ \A r \in 1..(Len(before) + Len(rest)) :
                 (before \o rest)[r] = IF r <= Len(before) THEN before[r] ELSE rest[r - Len(before)]
        BY <2>2, <3>2, ConcatProperties
      <4>2. sps = before \o rest
        BY <1>10, <1>14
      <4>3. Len(before) = 1 /\ Len(rest) = n /\ before[1] = f
        BY <2>2, <3>2
      <4>4. 1 + n = n + 1 /\ \A r \in 1..(n + 1) : r <= 1 <=> r = 1
        BY <1>3
      <4>5. \A r \in 1..(n + 1) : sps[r] = IF r = 1 THEN before[1] ELSE rest[r - 1]
        BY <1>3, <4>1, <4>2, <4>3, <4>4
      <4>6. sps \in Seq(T) /\ Len(sps) = n + 1
        BY <1>3, <4>1, <4>2, <4>3
      <4>7. \A r \in 1..(n + 1) : r # 1 => r - 1 \in 1..n
        BY <1>3
      <4>8. 1 \in 1..(n + 1)
        BY <1>3
      <4> QED
        BY <4>3, <4>5, <4>6, <4>7, <4>8
    <3>4. ASSUME NEW r \in 1..(n + 1), NEW i \in Indices(d), Holds(sps[r], i)
          PROVE  sps[r].entry.title = TitleAt(anchs, sps, i)
      <4>1. PICK held : held = {a \in DOMAIN anchs : anchs[a].position <= At(i)}
        OBVIOUS
      <4>2. CASE r = 1
        <5>1. At(i) < first
          BY <3>1, <3>3, <3>4, <4>2 DEF Holds, Span
        <5>2. held = {}
          <6> SUFFICES ASSUME NEW a \in held PROVE FALSE
            OBVIOUS
          <6>1. a \in 1..n /\ anchs[a].position <= At(i)
            BY <1>3, <4>1
          <6>2. n # 0 /\ 1 \in 1..n
            BY <1>3, <6>1
          <6>3. first = anchs[1].position
            BY <1>3, <1>5, <6>2
          <6>4. /\ anchs[1].position <= anchs[a].position
                /\ anchs[1].position \in Nat /\ anchs[a].position \in Nat
            BY <1>1, <6>1, <6>2 DEF InPlace
          <6>5. At(i) \in Nat
            BY <1>11
          <6> QED
            BY <5>1, <6>1, <6>3, <6>4, <6>5
        <5> QED
          BY <4>1, <4>2, <5>2 DEF TitleAt
      <4>3. CASE r # 1
        <5>1. r - 1 \in 1..n /\ sps[r] = One(r - 1)
          BY <2>2, <3>3, <4>3
        <5>2. held # {} /\ Max(held) = r - 1
          BY <2>3, <3>4, <4>1, <5>1
        <5>3. sps[r].entry = anchs[r - 1].entry
          BY <2>4, <5>1
        <5> QED
          BY <4>1, <5>2, <5>3 DEF TitleAt
      <4> QED
        BY <4>2, <4>3
    <3>5. IsSeq(sps)
      BY <3>3, IsSeqOf
    <3> QED
      BY <1>9, <3>3, <3>4, <3>5 DEF UnderTheirSection
  <2>6. CASE ~(At(1) < first)
    <3>1. sps = rest
      <4>1. before = <<>>
        BY <1>7, <2>6
      <4>2. <<>> \o rest = rest
        BY <2>2
      <4> QED
        BY <1>10, <1>14, <4>1, <4>2
    <3>2. IsSeq(sps)
      BY <2>2, <3>1, IsSeqOf
    <3>3. ASSUME NEW r \in 1..n, NEW i \in Indices(d), Holds(sps[r], i)
          PROVE  sps[r].entry.title = TitleAt(anchs, sps, i)
      <4>1. PICK held : held = {a \in DOMAIN anchs : anchs[a].position <= At(i)}
        OBVIOUS
      <4>2. sps[r] = One(r)
        BY <2>2, <3>1
      <4>3. held # {} /\ Max(held) = r
        BY <2>3, <3>3, <4>1, <4>2
      <4>4. sps[r].entry = anchs[r].entry
        BY <2>4, <4>2
      <4> QED
        BY <4>1, <4>3, <4>4 DEF TitleAt
    <3> QED
      BY <1>9, <2>2, <3>1, <3>2, <3>3 DEF UnderTheirSection
  <2> QED
    BY <2>5, <2>6
<1> QED
  BY <1>13, <1>14

-----------------------------------------------------------------------------
(* The load.                                                               *)

RegionAt(r) == RegionUnits(doc, marked, english, mapping.contents, spans[r])
TakenAt(r) == Taken(doc, english, mapping.contents, spans[r])

\* What the stages before packing leave behind.
StageOK ==
  /\ IsDocument(doc) /\ UnderTheirSection(doc, anchors, spans)
  /\ IF stage \in {"packing", "loaded"} THEN regions = [r \in DOMAIN spans |-> Laid(RegionAt(r))]
     ELSE regions = <<>> /\ StartPacking

SourceInv == StageOK /\ PackOK

LEMMA LaidRegions ==
  ASSUME IsDocument(doc), UnderTheirSection(doc, anchors, spans)
  PROVE  LET made == [r \in DOMAIN spans |-> Laid(RegionAt(r))] IN
         made \in Seq(Seq(ChunkUnit)) /\ Len(made) = Len(spans)
<1>1. spans \in Seq(ToSet(spans))
  BY DEF UnderTheirSection, IsSeq
<1>2. Len(spans) \in Nat /\ DOMAIN spans = 1..Len(spans)
  BY <1>1
<1>3. PICK made : made = [r \in 1..Len(spans) |-> Laid(RegionAt(r))]
  OBVIOUS
<1>4. ASSUME NEW r \in 1..Len(spans) PROVE made[r] \in Seq(ChunkUnit)
  <2>1. PICK units : units = RegionAt(r)
    OBVIOUS
  <2>2. units \in Seq(UnitOf(doc, TakenAt(r)))
    BY <2>1, RegionUnitsType DEF RegionAt, TakenAt
  <2>3. TakenAt(r) \in SUBSET Indices(doc)
    BY DEF TakenAt, Taken
  <2>4. Laid(units) \in Seq(ChunkUnit)
    BY <2>2, <2>3, LaidIs
  <2> QED
    BY <1>3, <2>1, <2>4
<1>5. made = [r \in 1..Len(spans) |-> made[r]]
  BY <1>3
<1>6. made \in Seq(Seq(ChunkUnit)) /\ Len(made) = Len(spans)
  BY <1>2, <1>4, <1>5, MadeList
<1> QED
  BY <1>2, <1>3, <1>6

\* Nothing is packed yet.
LEMMA StartedPacking ==
  ASSUME regions \in Seq(Seq(ChunkUnit)), StartPacking
  PROVE  PackOK
<1>1. PackType
  <2>1. NoOverlap \in Interval
    BY DEF NoOverlap, Interval
  <2>2. region \in 0..Len(regions)
    BY DEF StartPacking
  <2>3. <<>> \in Seq(ChunkUnit) /\ <<>> \in Seq(ChunkPart)
    OBVIOUS
  <2> QED
    BY <2>1, <2>2, <2>3 DEF PackType, StartPacking
<1>2. Room
  <2>1. AllWords(<<>>) = 0
    BY <1>1, AllWordsIs DEF PackType
  <2>2. Words(NoOverlap) = 0
    BY DEF Words, NoOverlap
  <2>3. WordCap \in Nat /\ WordCap > 0
    BY CapAssumption
  <2> QED
    BY <2>1, <2>2, <2>3 DEF Room, StartPacking
<1>3. Carried
  BY DEF Carried, StartPacking
<1>4. WithinCap
  BY DEF WithinCap, StartPacking
<1> QED
  BY <1>1, <1>2, <1>3, <1>4 DEF PackOK

LEMMA SourceInit == Init => SourceInv
<1> SUFFICES ASSUME Init PROVE SourceInv
  OBVIOUS
<1>1. IsDocument(doc)
  BY ExtractedAssumption DEF Init
<1>2. UnderTheirSection(doc, anchors, spans)
  <2>1. <<>> \in Seq(ToSet(<<>>)) /\ Len(<<>>) = 0
    OBVIOUS
  <2> QED
    BY <2>1 DEF Init, UnderTheirSection, IsSeq
<1>3. StageOK
  BY <1>1, <1>2 DEF Init, StageOK
<1>4. regions \in Seq(Seq(ChunkUnit)) /\ StartPacking
  BY DEF Init
<1> QED
  BY <1>3, <1>4, StartedPacking DEF SourceInv

\* A stage before packing that leaves the sections as they are.
LEMMA QuietStage ==
  ASSUME SourceInv, stage \notin {"packing", "loaded"}, stage' \notin {"packing", "loaded"},
         UNCHANGED <<doc, anchors, spans, regions, packing>>
  PROVE  SourceInv'
<1>1. StageOK'
  BY DEF SourceInv, StageOK, StartPacking, packing
<1>2. PackOK'
  BY ZenonT(40) DEF SourceInv, PackOK, PackType, Room, Carried, WithinCap, AllWords, Words, packing
<1> QED
  BY <1>1, <1>2 DEF SourceInv

LEMMA SectionsKeep == SourceInv /\ FindSections => SourceInv'
<1> SUFFICES ASSUME SourceInv, FindSections PROVE SourceInv'
  OBVIOUS
<1>1. /\ stage = "repaired" /\ stage' = "sectioned" /\ doc' = doc /\ IsDocument(doc)
      /\ UNCHANGED <<regions, packing>>
  BY DEF FindSections, SourceInv, StageOK
<1>2. mapping' = SectionMap(doc, marked) /\ anchors' = AnchorEntries(doc, SectionMap(doc, marked).entries)
  BY DEF FindSections
<1>3. InPlace(anchors')
  BY <1>1, <1>2, AnchorsAre
<1>4. spans' = DeriveRegions(doc, marked, anchors', mapping'.inferred)
  BY DEF FindSections
<1>5. UnderTheirSection(doc, anchors', spans')
  BY <1>1, <1>3, <1>4, SpansAre
<1>6. regions = <<>> /\ StartPacking
  BY <1>1 DEF SourceInv, StageOK
<1>7. StageOK'
  BY <1>1, <1>5, <1>6 DEF StageOK, StartPacking, packing
<1>8. PackOK'
  BY <1>1 DEF SourceInv, PackOK, PackType, Room, Carried, WithinCap, AllWords, Words, packing
<1> QED
  BY <1>7, <1>8 DEF SourceInv

LEMMA AssembleKeeps == SourceInv /\ AssembleUnits => SourceInv'
<1> SUFFICES ASSUME SourceInv, AssembleUnits PROVE SourceInv'
  OBVIOUS
<1>1. /\ stage = "selected" /\ stage' = "packing"
      /\ UNCHANGED <<doc, marked, mapping, anchors, spans, english, packing>>
      /\ IsDocument(doc) /\ UnderTheirSection(doc, anchors, spans)
  BY DEF AssembleUnits, SourceInv, StageOK
<1>2. regions' = [r \in DOMAIN spans |-> Laid(RegionAt(r))]
  BY DEF AssembleUnits, RegionAt
<1>3. regions' \in Seq(Seq(ChunkUnit))
  BY <1>1, <1>2, LaidRegions
<1>4. StartPacking'
  BY <1>1 DEF SourceInv, StageOK, StartPacking, packing
<1>5. PackOK'
  <2>1. (regions \in Seq(Seq(ChunkUnit)) /\ StartPacking => PackOK)'
    BY StartedPacking, PTL
  <2> QED
    BY <1>3, <1>4, <2>1
<1>6. StageOK'
  <2>1. ASSUME NEW r PROVE RegionAt(r)' = RegionAt(r)
    BY <1>1 DEF RegionAt
  <2>2. ASSUME NEW units PROVE Laid(units)' = Laid(units)
    BY <1>1 DEF Laid, LineWords
  <2>3. ASSUME NEW r PROVE Laid(RegionAt(r))' = Laid(RegionAt(r))
    BY <1>1, <2>1, ZenonT(40) DEF Laid, LineWords
  <2>4. (regions = [r \in DOMAIN spans |-> Laid(RegionAt(r))])'
    BY <1>1, <1>2, <2>3
  <2>5. UnderTheirSection(doc, anchors, spans)'
    BY <1>1
  <2> QED
    BY <1>1, <2>4, <2>5 DEF StageOK
<1> QED
  BY <1>5, <1>6 DEF SourceInv

\* Packing leaves what it packs alone.
LEMMA PackKeepsStage ==
  ASSUME StageOK, stage = "packing", stage' \in {"packing", "loaded"},
         UNCHANGED <<doc, marked, mapping, anchors, spans, english, regions>>
  PROVE  StageOK'
<1>1. ASSUME NEW r PROVE RegionAt(r)' = RegionAt(r)
  BY DEF RegionAt
<1>2. ASSUME NEW r PROVE Laid(RegionAt(r))' = Laid(RegionAt(r))
  BY <1>1, ZenonT(40) DEF Laid, LineWords
<1>3. regions = [r \in DOMAIN spans |-> Laid(RegionAt(r))]
  BY DEF StageOK
<1>4. (regions = [r \in DOMAIN spans |-> Laid(RegionAt(r))])'
  BY <1>2, <1>3
<1>5. IsDocument(doc)' /\ UnderTheirSection(doc, anchors, spans)'
  BY DEF StageOK
<1> QED
  BY <1>4, <1>5 DEF StageOK

LEMMA PackKeeps == SourceInv /\ Pack => SourceInv'
<1> SUFFICES ASSUME SourceInv, Pack PROVE SourceInv'
  OBVIOUS
<1>1. /\ stage = "packing" /\ stage' = "packing" /\ PackStep
      /\ UNCHANGED <<doc, marked, mapping, anchors, spans, english>>
  BY DEF Pack
<1>2. regions' = regions
  BY <1>1 DEF PackStep, Place, Close, Split, NextRegion
<1>3. StageOK'
  BY <1>1, <1>2, PackKeepsStage DEF SourceInv
<1>4. PackOK /\ stage # "loaded" /\ stage' # "loaded"
  BY <1>1 DEF SourceInv
<1>5. PackOK'
  BY <1>1, <1>4, PlaceKeeps, CloseKeeps, SplitKeeps, NextRegionKeeps DEF PackStep
<1> QED
  BY <1>3, <1>5 DEF SourceInv

LEMMA FinishedKeeps == SourceInv /\ Finish => SourceInv'
<1> SUFFICES ASSUME SourceInv, Finish PROVE SourceInv'
  OBVIOUS
<1>1. /\ stage = "packing" /\ stage' = "loaded"
      /\ UNCHANGED <<doc, marked, mapping, anchors, spans, english, regions>>
  BY DEF Finish
<1>2. StageOK'
  BY <1>1, PackKeepsStage DEF SourceInv
<1>3. PackOK /\ stage # "loaded"
  BY <1>1 DEF SourceInv
<1>4. PackOK'
  BY <1>3, FinishKeeps
<1> QED
  BY <1>2, <1>4 DEF SourceInv

\* The stages that may reject the source.
LEMMA EarlyKeeps == SourceInv /\ (FindFurniture \/ RepairGlyphs \/ SelectEnglish) => SourceInv'
<1> SUFFICES ASSUME SourceInv, FindFurniture \/ RepairGlyphs \/ SelectEnglish PROVE SourceInv'
  OBVIOUS
<1>1. CASE FindFurniture
  BY <1>1, QuietStage DEF FindFurniture, Reject
<1>2. CASE RepairGlyphs
  BY <1>2, QuietStage DEF RepairGlyphs, Reject
<1>3. CASE SelectEnglish
  BY <1>3, QuietStage DEF SelectEnglish, Reject
<1> QED
  BY <1>1, <1>2, <1>3

LEMMA SourceStutters == SourceInv /\ UNCHANGED vars => SourceInv'
<1> SUFFICES ASSUME SourceInv, UNCHANGED vars PROVE SourceInv'
  OBVIOUS
<1>1. UNCHANGED <<stage, doc, marked, mapping, anchors, spans, english, regions, packing>>
  BY DEF vars
<1>2. ASSUME NEW r PROVE RegionAt(r)' = RegionAt(r)
  BY <1>1 DEF RegionAt
<1>3. ASSUME NEW r PROVE Laid(RegionAt(r))' = Laid(RegionAt(r))
  BY <1>1, <1>2, ZenonT(40) DEF Laid, LineWords
<1>4. StageOK'
  <2>1. stage \in {"packing", "loaded"} => (regions = [r \in DOMAIN spans |-> Laid(RegionAt(r))])'
    BY <1>1, <1>3 DEF SourceInv, StageOK
  <2>2. stage \notin {"packing", "loaded"} => (regions = <<>> /\ StartPacking)'
    BY <1>1 DEF SourceInv, StageOK, StartPacking, packing
  <2>3. IsDocument(doc)' /\ UnderTheirSection(doc, anchors, spans)'
    BY <1>1 DEF SourceInv, StageOK
  <2> QED
    BY <1>1, <2>1, <2>2, <2>3 DEF StageOK
<1>5. PackOK'
  BY <1>1, ZenonT(40) DEF SourceInv, PackOK, PackType, Room, Carried, WithinCap, AllWords, Words, packing
<1> QED
  BY <1>4, <1>5 DEF SourceInv

LEMMA SourceIsKept == Spec => []SourceInv
<1>1. SourceInv /\ [Next]_vars => SourceInv'
  BY EarlyKeeps, SectionsKeep, AssembleKeeps, PackKeeps, FinishedKeeps, SourceStutters DEF Next
<1> QED
  BY <1>1, SourceInit, PTL DEF Spec

\* Whatever the manual, no chunk is longer than the cap and each has words of its
\* own; what it carries is repeated units or overlap, never both, and overlap is
\* the end of the chunk before it in its region (corpus/chunk.py _pack).
THEOREM ChunksKeepToTheCap == Spec => []WithinCap
<1>1. SourceInv => WithinCap
  BY DEF SourceInv, PackOK
<1> QED
  BY <1>1, SourceIsKept, PTL

-----------------------------------------------------------------------------
(* What is placed is a unit of its region, or part of one.                 *)

PieceOf(u, whole) ==
  /\ u.lines = whole.lines /\ u.atomic = whole.atomic /\ u.repeat = whole.repeat
  /\ whole.from <= u.from /\ u.upto <= whole.upto
  /\ u.atomic /\ ~u.partial => u.from = whole.from /\ u.upto = whole.upto

FromRegion(r, u) == r \in 1..Len(regions) /\ \E k \in 1..Len(regions[r]) : PieceOf(u, regions[r][k])
AllFrom(r, units) == \A n \in 1..Len(units) : FromRegion(r, units[n])

FromRegions ==
  /\ AllFrom(region, queue) /\ AllFrom(region, own)
  /\ \A p \in 1..Len(parts) : AllFrom(parts[p].region, parts[p].own)

LEMMA WholePiece ==
  ASSUME NEW u
  PROVE  u \in ChunkUnit => PieceOf(u, u)
BY DEF PieceOf, ChunkUnit

LEMMA AllFromAppend ==
  ASSUME NEW r, NEW units \in Seq(ChunkUnit), NEW u \in ChunkUnit, AllFrom(r, units), FromRegion(r, u)
  PROVE  AllFrom(r, Append(units, u))
<1>1. PICK n, list : n = Len(units) /\ list = Append(units, u)
  OBVIOUS
<1>2. n \in Nat /\ Len(list) = n + 1 /\ list[n + 1] = u /\ \A k \in 1..n : list[k] = units[k]
  BY <1>1, AppendProperties
<1>3. ASSUME NEW k \in 1..(n + 1) PROVE FromRegion(r, list[k])
  <2>1. CASE k = n + 1
    BY <1>2, <2>1
  <2>2. CASE k # n + 1
    <3>1. k \in 1..n
      BY <1>2, <2>2
    <3>2. FromRegion(r, units[k])
      BY <1>1, <3>1 DEF AllFrom
    <3> QED
      BY <1>2, <3>1, <3>2
  <2> QED
    BY <2>1, <2>2
<1> QED
  BY <1>1, <1>2, <1>3 DEF AllFrom

LEMMA AllFromTail ==
  ASSUME NEW r, NEW units \in Seq(ChunkUnit), units # <<>>, AllFrom(r, units)
  PROVE  FromRegion(r, Head(units)) /\ AllFrom(r, Tail(units)) /\ Head(units) \in ChunkUnit
<1>1. PICK n, list : n = Len(units) /\ list = Tail(units)
  OBVIOUS
<1>2. n \in Nat /\ n > 0
  BY <1>1
<1>3. Head(units) = units[1] /\ units[1] \in ChunkUnit
  BY <1>1, <1>2
<1>4. Len(list) = n - 1 /\ \A k \in 1..(n - 1) : list[k] = units[k + 1]
  BY <1>1, <1>2
<1>5. 1 \in 1..n /\ \A k \in 1..(n - 1) : k + 1 \in 1..n
  BY <1>2
<1>6. FromRegion(r, units[1]) /\ \A k \in 1..(n - 1) : FromRegion(r, units[k + 1])
  BY <1>1, <1>5 DEF AllFrom
<1> QED
  BY <1>1, <1>3, <1>4, <1>6 DEF AllFrom

\* One of them in front.
LEMMA AllFromHead ==
  ASSUME NEW r, NEW units \in Seq(ChunkUnit), NEW u \in ChunkUnit, AllFrom(r, units), FromRegion(r, u)
  PROVE  AllFrom(r, <<u>> \o units) /\ AllFrom(r, <<u>>)
<1>1. PICK n, list : n = Len(units) /\ list = <<u>> \o units
  OBVIOUS
<1>2. /\ n \in Nat /\ Len(list) = n + 1
      /\ \A k \in 1..(n + 1) : list[k] = IF k = 1 THEN u ELSE units[k - 1]
  <2>1. <<u>> \in Seq(ChunkUnit) /\ Len(<<u>>) = 1 /\ <<u>>[1] = u
    OBVIOUS
  <2>2. /\ Len(list) = Len(<<u>>) + Len(units)
        /\ \A k \in 1..(Len(<<u>>) + Len(units)) :
             list[k] = IF k <= Len(<<u>>) THEN <<u>>[k] ELSE units[k - Len(<<u>>)]
    BY <1>1, <2>1, ConcatProperties
  <2>3. n \in Nat
    BY <1>1
  <2>4. Len(list) = 1 + n /\ \A k \in 1..(1 + n) : list[k] = IF k <= 1 THEN <<u>>[k] ELSE units[k - 1]
    BY <1>1, <2>1, <2>2
  <2>5. 1 + n = n + 1 /\ \A k \in 1..(n + 1) : k <= 1 <=> k = 1
    BY <2>3
  <2> QED
    BY <2>1, <2>3, <2>4, <2>5
<1>3. ASSUME NEW k \in 1..(n + 1) PROVE FromRegion(r, list[k])
  <2>1. CASE k = 1
    BY <1>2, <2>1
  <2>2. CASE k # 1
    <3>1. k - 1 \in 1..n
      BY <1>2, <2>2
    <3>2. FromRegion(r, units[k - 1])
      BY <1>1, <3>1 DEF AllFrom
    <3> QED
      BY <1>2, <2>2, <3>2
  <2> QED
    BY <2>1, <2>2
<1>4. AllFrom(r, <<u>>)
  BY DEF AllFrom
<1> QED
  BY <1>1, <1>2, <1>3, <1>4 DEF AllFrom

\* A closed part is of the region it was packed from.
LEMMA ClosedFrom ==
  ASSUME PackType, FromRegions, NEW units \in Seq(ChunkUnit), AllFrom(region, units),
         regions' = regions, parts' = Append(parts, Part(units))
  PROVE  \A p \in 1..Len(parts') : (AllFrom(parts[p].region, parts[p].own))'
<1>1. PICK n : n = Len(parts)
  OBVIOUS
<1>2. parts \in Seq(ChunkPart) /\ n \in Nat
  BY <1>1 DEF PackType
<1>3. Part(units) \in ChunkPart
  BY DEF Part, ChunkPart, PackType
<1>4. Len(parts') = n + 1 /\ parts'[n + 1] = Part(units) /\ \A p \in 1..n : parts'[p] = parts[p]
  BY <1>1, <1>2, <1>3, AppendProperties
<1>5. Part(units).region = region /\ Part(units).own = units
  BY DEF Part
<1>6. ASSUME NEW p \in 1..(n + 1) PROVE AllFrom(parts'[p].region, parts'[p].own)
  <2>1. CASE p = n + 1
    BY <1>4, <1>5, <2>1
  <2>2. CASE p # n + 1
    <3>1. p \in 1..n
      BY <1>2, <2>2
    <3>2. AllFrom(parts[p].region, parts[p].own)
      BY <1>1, <3>1 DEF FromRegions
    <3> QED
      BY <1>4, <3>1, <3>2
  <2> QED
    BY <2>1, <2>2
<1> QED
  BY <1>4, <1>6 DEF AllFrom, FromRegion

LEMMA PlaceFrom ==
  ASSUME PackType, FromRegions, Place
  PROVE  FromRegions'
<1>1. queue \in Seq(ChunkUnit) /\ own \in Seq(ChunkUnit) /\ queue # <<>>
  BY DEF PackType, Place
<1>2. AllFrom(region, queue) /\ AllFrom(region, own)
  BY DEF FromRegions
<1>3. FromRegion(region, Head(queue)) /\ AllFrom(region, Tail(queue)) /\ Head(queue) \in ChunkUnit
  BY <1>1, <1>2, AllFromTail
<1>4. AllFrom(region, Append(own, Head(queue)))
  BY <1>1, <1>2, <1>3, AllFromAppend
<1>5. /\ own' = Append(own, Head(queue)) /\ queue' = Tail(queue)
      /\ regions' = regions /\ region' = region /\ parts' = parts
  BY DEF Place
<1> QED
  BY <1>3, <1>4, <1>5 DEF FromRegions, AllFrom, FromRegion

LEMMA CloseFrom ==
  ASSUME PackType, FromRegions, Close
  PROVE  FromRegions'
<1>1. /\ parts' = Append(parts, Part(own)) /\ own' = <<>> /\ queue' = queue
      /\ regions' = regions /\ region' = region
  BY DEF Close, StartChunk
<1>2. own \in Seq(ChunkUnit) /\ AllFrom(region, own) /\ AllFrom(region, queue)
  BY DEF PackType, FromRegions
<1>3. \A p \in 1..Len(parts') : (AllFrom(parts[p].region, parts[p].own))'
  BY <1>1, <1>2, ClosedFrom
<1>4. (AllFrom(region, queue))' /\ (AllFrom(region, own))'
  BY <1>1, <1>2 DEF AllFrom, FromRegion
<1> QED
  BY <1>3, <1>4 DEF FromRegions

\* A unit that does not fit, and its two pieces.
PiecesOf(unit, at, first, rest) ==
  /\ unit.from < at /\ at < unit.upto
  /\ first.lines = unit.lines /\ first.atomic = unit.atomic /\ first.repeat = unit.repeat
  /\ rest.lines = unit.lines /\ rest.atomic = unit.atomic /\ rest.repeat = unit.repeat
  /\ first.from = unit.from /\ first.upto = at /\ rest.from = at /\ rest.upto = unit.upto
  /\ unit.atomic => first.partial /\ rest.partial

SplitInto(unit, at, first, rest) ==
  /\ unit \in ChunkUnit /\ first \in ChunkUnit /\ rest \in ChunkUnit /\ at \in Nat
  /\ PiecesOf(unit, at, first, rest)
  /\ queue \in Seq(ChunkUnit) /\ queue # <<>> /\ unit = Head(queue) /\ own = <<>>
  /\ parts' = Append(parts, Part(<<first>>)) /\ queue' = <<rest>> \o Tail(queue)
  /\ own' = <<>> /\ regions' = regions /\ region' = region

LEMMA SplitPieces ==
  ASSUME PackType, Room, Split
  PROVE  \E unit, at, first, rest : SplitInto(unit, at, first, rest)
<1>1. PICK unit : unit = Head(queue)
  OBVIOUS
<1>2. PICK room : room = Max({WordCap - used, 1})
  OBVIOUS
<1>3. PICK at : at = CutAt(unit, room)
  OBVIOUS
<1>4. PICK mark : mark = (unit.partial \/ unit.atomic)
  OBVIOUS
<1>5. PICK first : first = [unit EXCEPT !.upto = at, !.partial = mark]
  OBVIOUS
<1>6. PICK rest : rest = [unit EXCEPT !.from = at, !.partial = mark]
  OBVIOUS
<1>7. /\ parts' = Append(parts, Part(<<first>>)) /\ queue' = <<rest>> \o Tail(queue)
      /\ own' = <<>> /\ regions' = regions /\ region' = region
  BY <1>1, <1>2, <1>3, <1>4, <1>5, <1>6 DEF Split, StartChunk
<1>8. queue \in Seq(ChunkUnit) /\ queue # <<>> /\ own = <<>> /\ ~Fits(unit)
  BY <1>1 DEF PackType, Split
<1>9. unit \in ChunkUnit
  BY <1>1, <1>8
<1>10. used \in Nat /\ used < WordCap /\ WordCap \in Nat
  BY <1>8, CapAssumption DEF PackType, Room
<1>11. room = WordCap - used
  <2>1. WordCap - used \in Nat /\ WordCap - used >= 1
    BY <1>10
  <2>2. PICK w : w = WordCap - used
    OBVIOUS
  <2>3. Max({w, 1}) = w
    BY <2>1, <2>2 DEF Max
  <2> QED
    BY <1>2, <2>2, <2>3
<1>12. at \in (unit.from + 1)..(unit.from + room) /\ room \in Nat /\ room > 0
  BY <1>3, <1>9, <1>10, <1>11, CutIs
<1>13. PICK a, b : a = unit.from /\ b = unit.upto
  OBVIOUS
<1>14. a \in Nat /\ b \in Nat /\ a < b /\ a < at /\ at \in Nat /\ at < b
  <2>1. a \in Nat /\ b \in Nat /\ a < b
    BY <1>9, <1>13 DEF ChunkUnit
  <2>2. used + (b - a) > WordCap
    BY <1>8, <1>10, <1>13, <2>1 DEF Fits, Words
  <2> QED
    BY <1>10, <1>11, <1>12, <1>13, <2>1, <2>2
<1>15. /\ first.lines = unit.lines /\ first.atomic = unit.atomic /\ first.repeat = unit.repeat
       /\ first.from = a /\ first.upto = at /\ first.partial = mark
       /\ rest.lines = unit.lines /\ rest.atomic = unit.atomic /\ rest.repeat = unit.repeat
       /\ rest.from = at /\ rest.upto = b /\ rest.partial = mark
  BY <1>5, <1>6, <1>9, <1>13 DEF ChunkUnit
<1>16. mark \in BOOLEAN
  BY <1>4, <1>9 DEF ChunkUnit
<1>17. first \in ChunkUnit /\ rest \in ChunkUnit
  BY <1>5, <1>6, <1>9, <1>13, <1>14, <1>16 DEF ChunkUnit
<1>18. PiecesOf(unit, at, first, rest)
  BY <1>4, <1>13, <1>14, <1>15 DEF PiecesOf
<1>19. SplitInto(unit, at, first, rest)
  BY <1>1, <1>7, <1>8, <1>9, <1>14, <1>17, <1>18 DEF SplitInto
<1> QED
  BY <1>19

LEMMA PiecesFrom ==
  ASSUME PackType, NEW r, NEW unit, FromRegion(r, unit), NEW at, NEW first, NEW rest,
         unit \in ChunkUnit, at \in Nat, PiecesOf(unit, at, first, rest)
  PROVE  FromRegion(r, first) /\ FromRegion(r, rest)
<1>1. PICK k \in 1..Len(regions[r]) : PieceOf(unit, regions[r][k])
  BY DEF FromRegion
<1>2. PICK a, b, c, e : a = unit.from /\ b = unit.upto /\ c = regions[r][k].from /\ e = regions[r][k].upto
  OBVIOUS
<1>3. a \in Nat /\ b \in Nat /\ a < at /\ at < b
  BY <1>2 DEF ChunkUnit, PiecesOf
<1>4. c \in Nat /\ e \in Nat
  <2>1. r \in 1..Len(regions) /\ regions \in Seq(Seq(ChunkUnit))
    BY DEF PackType, FromRegion
  <2>2. regions[r] \in Seq(ChunkUnit)
    BY <2>1
  <2>3. regions[r][k] \in ChunkUnit
    BY <2>2
  <2> QED
    BY <1>2, <2>3 DEF ChunkUnit
<1>5. c <= a /\ b <= e
  BY <1>1, <1>2 DEF PieceOf
<1>6. c <= at /\ at <= e
  BY <1>3, <1>4, <1>5
<1>7. PieceOf(first, regions[r][k]) /\ PieceOf(rest, regions[r][k])
  <2>1. /\ first.lines = unit.lines /\ first.atomic = unit.atomic /\ first.repeat = unit.repeat
        /\ rest.lines = unit.lines /\ rest.atomic = unit.atomic /\ rest.repeat = unit.repeat
        /\ unit.atomic => first.partial /\ rest.partial
    BY DEF PiecesOf
  <2>2. first.from = a /\ first.upto = at /\ rest.from = at /\ rest.upto = b
    BY <1>2 DEF PiecesOf
  <2>3. /\ unit.lines = regions[r][k].lines /\ unit.atomic = regions[r][k].atomic
        /\ unit.repeat = regions[r][k].repeat
    BY <1>1 DEF PieceOf
  <2>4. PieceOf(first, regions[r][k])
    BY <1>2, <1>5, <1>6, <2>1, <2>2, <2>3 DEF PieceOf
  <2>5. PieceOf(rest, regions[r][k])
    BY <1>2, <1>5, <1>6, <2>1, <2>2, <2>3 DEF PieceOf
  <2> QED
    BY <2>4, <2>5
<1> QED
  BY <1>7 DEF FromRegion

LEMMA SplitFrom ==
  ASSUME PackType, Room, FromRegions, Split
  PROVE  FromRegions'
<1>1. PICK unit, at, first, rest : SplitInto(unit, at, first, rest)
  BY SplitPieces
<1>2. /\ unit \in ChunkUnit /\ first \in ChunkUnit /\ rest \in ChunkUnit /\ at \in Nat
      /\ PiecesOf(unit, at, first, rest)
      /\ queue \in Seq(ChunkUnit) /\ queue # <<>> /\ unit = Head(queue)
      /\ parts' = Append(parts, Part(<<first>>)) /\ queue' = <<rest>> \o Tail(queue)
      /\ own' = <<>> /\ regions' = regions /\ region' = region
  BY <1>1 DEF SplitInto
<1>3. FromRegion(region, unit) /\ AllFrom(region, Tail(queue))
  BY <1>2, AllFromTail DEF FromRegions
<1>4. FromRegion(region, first) /\ FromRegion(region, rest)
  BY <1>2, <1>3, PiecesFrom
<1>5. Tail(queue) \in Seq(ChunkUnit) /\ <<first>> \in Seq(ChunkUnit) /\ <<>> \in Seq(ChunkUnit)
  BY <1>2
<1>6. AllFrom(region, <<rest>> \o Tail(queue))
  BY <1>2, <1>3, <1>4, <1>5, AllFromHead
<1>7. AllFrom(region, <<first>>)
  BY <1>2, <1>3, <1>4, <1>5, AllFromHead
<1>8. \A p \in 1..Len(parts') : (AllFrom(parts[p].region, parts[p].own))'
  BY <1>2, <1>5, <1>7, ClosedFrom
<1>9. (AllFrom(region, queue))' /\ (AllFrom(region, own))'
  <2>1. queue' = <<rest>> \o Tail(queue) /\ own' = <<>> /\ regions' = regions /\ region' = region
    BY <1>2
  <2>2. Len(<<>>) = 0 /\ 1..0 = {}
    OBVIOUS
  <2> QED
    BY <1>6, <2>1, <2>2 DEF AllFrom, FromRegion
<1> QED
  BY <1>8, <1>9 DEF FromRegions

LEMMA NothingPlaced ==
  ASSUME StartPacking
  PROVE  FromRegions
<1>1. Len(<<>>) = 0 /\ 1..0 = {}
  OBVIOUS
<1> QED
  BY <1>1 DEF StartPacking, FromRegions, AllFrom

LEMMA LastPartFrom ==
  ASSUME PackType, FromRegions, regions' = regions, parts' = AllParts
  PROVE  \A p \in 1..Len(parts') : (AllFrom(parts[p].region, parts[p].own))'
<1>1. own \in Seq(ChunkUnit) /\ AllFrom(region, own)
  BY DEF PackType, FromRegions
<1>2. CASE own = <<>>
  <2>1. parts' = parts
    BY <1>2 DEF AllParts
  <2> QED
    BY <2>1 DEF FromRegions, AllFrom, FromRegion
<1>3. CASE own # <<>>
  <2>1. parts' = Append(parts, Part(own))
    BY <1>3 DEF AllParts
  <2> QED
    BY <1>1, <2>1, ClosedFrom
<1> QED
  BY <1>2, <1>3

LEMMA NextRegionFrom ==
  ASSUME PackType, FromRegions, NextRegion
  PROVE  FromRegions'
<1>1. /\ region' = region + 1 /\ queue' = regions[region + 1] /\ own' = <<>> /\ regions' = regions
      /\ parts' = AllParts /\ region < Len(regions)
  BY DEF NextRegion, AllParts
<1>2. \A p \in 1..Len(parts') : (AllFrom(parts[p].region, parts[p].own))'
  BY <1>1, LastPartFrom
<1>3. PICK r, units : r = region + 1 /\ units = regions[r]
  OBVIOUS
<1>4. r \in 1..Len(regions) /\ units \in Seq(ChunkUnit)
  <2>1. region \in Nat /\ Len(regions) \in Nat /\ regions \in Seq(Seq(ChunkUnit))
    BY DEF PackType
  <2>2. r \in 1..Len(regions)
    BY <1>1, <1>3, <2>1
  <2> QED
    BY <1>3, <2>1, <2>2
<1>5. \A n \in 1..Len(units) : PieceOf(units[n], regions[r][n])
  <2>1. \A n \in 1..Len(units) : units[n] \in ChunkUnit
    BY <1>4
  <2> QED
    BY <1>3, <2>1, WholePiece
<1>6. AllFrom(r, units)
  BY <1>3, <1>4, <1>5 DEF AllFrom, FromRegion
<1>7. (AllFrom(region, queue))'
  BY <1>1, <1>3, <1>6 DEF AllFrom, FromRegion
<1>8. (AllFrom(region, own))'
  <2>1. Len(<<>>) = 0 /\ 1..0 = {}
    OBVIOUS
  <2> QED
    BY <1>1, <2>1 DEF AllFrom
<1> QED
  BY <1>2, <1>7, <1>8 DEF FromRegions

LEMMA FinishFrom ==
  ASSUME PackType, FromRegions, Finish
  PROVE  FromRegions'
<1>1. /\ region' = region /\ queue' = queue /\ own' = <<>> /\ regions' = regions
      /\ parts' = AllParts
  BY DEF Finish
<1>2. \A p \in 1..Len(parts') : (AllFrom(parts[p].region, parts[p].own))'
  BY <1>1, LastPartFrom
<1>3. (AllFrom(region, queue))'
  BY <1>1 DEF FromRegions, AllFrom, FromRegion
<1>4. (AllFrom(region, own))'
  <2>1. Len(<<>>) = 0 /\ 1..0 = {}
    OBVIOUS
  <2> QED
    BY <1>1, <2>1 DEF AllFrom
<1> QED
  BY <1>2, <1>3, <1>4 DEF FromRegions

\* What is in a passage is in its region, as the region has it.
LEMMA PlacedFromRegions == Spec => []FromRegions
<1>1. Init => FromRegions
  BY NothingPlaced DEF Init
<1>2. SourceInv /\ FromRegions /\ [Next]_vars => FromRegions'
  <2> SUFFICES ASSUME SourceInv, FromRegions, [Next]_vars PROVE FromRegions'
    OBVIOUS
  <2>1. PackType
    BY DEF SourceInv, PackOK
  <2>2. ASSUME StartPacking, UNCHANGED packing PROVE FromRegions'
    <3>1. StartPacking'
      BY <2>2 DEF StartPacking, packing
    <3>2. (StartPacking => FromRegions)'
      BY NothingPlaced, PTL
    <3> QED
      BY <3>1, <3>2
  <2>3. CASE FindFurniture
    <3>1. StartPacking /\ UNCHANGED packing
      BY <2>3 DEF FindFurniture, Reject, SourceInv, StageOK
    <3> QED
      BY <2>2, <3>1
  <2>4. CASE RepairGlyphs
    <3>1. StartPacking /\ UNCHANGED packing
      BY <2>4 DEF RepairGlyphs, Reject, SourceInv, StageOK
    <3> QED
      BY <2>2, <3>1
  <2>5. CASE FindSections
    <3>1. StartPacking /\ UNCHANGED packing
      BY <2>5 DEF FindSections, SourceInv, StageOK
    <3> QED
      BY <2>2, <3>1
  <2>6. CASE SelectEnglish
    <3>1. StartPacking /\ UNCHANGED packing
      BY <2>6 DEF SelectEnglish, Reject, SourceInv, StageOK
    <3> QED
      BY <2>2, <3>1
  <2>7. CASE AssembleUnits
    <3>1. StartPacking /\ UNCHANGED packing
      BY <2>7 DEF AssembleUnits, SourceInv, StageOK
    <3> QED
      BY <2>2, <3>1
  <2>8. CASE Pack
    <3>1. PackStep /\ Room
      BY <2>8 DEF Pack, SourceInv, PackOK
    <3> QED
      BY <2>1, <3>1, PlaceFrom, CloseFrom, SplitFrom, NextRegionFrom DEF PackStep
  <2>9. CASE Finish
    BY <2>1, <2>9, FinishFrom
  <2>10. CASE UNCHANGED vars
    BY <2>10 DEF vars, packing, FromRegions, AllFrom, FromRegion
  <2> QED
    BY <2>3, <2>4, <2>5, <2>6, <2>7, <2>8, <2>9, <2>10 DEF Next
<1> QED
  BY <1>1, <1>2, SourceIsKept, PTL DEF Spec

-----------------------------------------------------------------------------
(* The words of a region, as the lines they are in.                        *)

TextLine(i) == [w \in 1..doc.lines[i].words |-> i]
TextLines(lines) == FlattenSeq([n \in DOMAIN lines |-> TextLine(lines[n])])

\* Some lines, word by word: as many words as the lines have, each of one of them.
LEMMA TextLinesAre ==
  ASSUME IsDocument(doc), NEW S \in SUBSET Indices(doc), NEW lines \in Seq(S)
  PROVE  /\ TextLines(lines) \in Seq(S) /\ ToSet(TextLines(lines)) = ToSet(lines)
         /\ Len(TextLines(lines)) = LineWords(lines, Len(lines))
<1>1. PICK n, counts : n = Len(lines) /\ counts = WordCounts(doc, lines)
  OBVIOUS
<1>2. n \in Nat /\ DOMAIN lines = 1..n /\ \A k \in 1..n : lines[k] \in S
  BY <1>1
<1>3. /\ counts \in Seq(Nat) /\ Len(counts) = n
      /\ \A k \in 1..n : counts[k] = doc.lines[lines[k]].words /\ counts[k] > 0
  BY <1>1, WordCountsAre
<1>4. PICK seqs : seqs = [k \in 1..n |-> TextLine(lines[k])]
  OBVIOUS
<1>5. ASSUME NEW k \in 1..n
      PROVE  seqs[k] \in Seq(S) /\ Len(seqs[k]) = counts[k] /\ \A q \in 1..counts[k] : seqs[k][q] = lines[k]
  <2>1. counts[k] \in Nat /\ lines[k] \in S
    BY <1>2, <1>3
  <2>2. seqs[k] = [w \in 1..counts[k] |-> lines[k]]
    BY <1>3, <1>4 DEF TextLine
  <2> QED
    BY <2>1, <2>2
<1>6. seqs \in Seq(Seq(S)) /\ Len(seqs) = n
  <2>1. seqs = [k \in 1..n |-> seqs[k]]
    BY <1>4
  <2> QED
    BY <1>2, <1>5, <2>1, MadeList
<1>7. PICK text : text = TextLines(lines)
  OBVIOUS
<1>8. text = FlattenSeq(seqs)
  BY <1>2, <1>4, <1>7 DEF TextLines
<1>9. text \in Seq(S) /\ Placed(text, seqs, counts, n)
  BY <1>3, <1>5, <1>6, <1>8, Flattened
<1>10. Len(text) = LineWords(lines, n)
  BY <1>1, <1>9 DEF Placed, LineWords, WordCounts
<1>11. ToSet(text) = {text[p] : p \in 1..Len(text)} /\ ToSet(lines) = {lines[k] : k \in 1..n}
  BY <1>1, <1>9, ToSetIs
<1>12. ASSUME NEW p \in 1..Len(text) PROVE text[p] \in ToSet(lines)
  <2>1. PICK j \in 1..n : \E q \in 1..counts[j] : p = Total(counts, j - 1) + q
    BY <1>9 DEF Placed
  <2>2. PICK q \in 1..counts[j] : p = Total(counts, j - 1) + q
    BY <2>1
  <2>3. text[p] = seqs[j][q]
    BY <1>9, <2>2 DEF Placed
  <2> QED
    BY <1>5, <1>11, <2>3
<1>13. ASSUME NEW k \in 1..n PROVE lines[k] \in ToSet(text)
  <2>1. 1 \in 1..counts[k]
    BY <1>3
  <2>2. PICK p : p = Total(counts, k - 1) + 1
    OBVIOUS
  <2>3. p \in 1..Len(text) /\ text[p] = seqs[k][1]
    BY <1>9, <2>1, <2>2 DEF Placed
  <2> QED
    BY <1>5, <1>11, <2>1, <2>3
<1> QED
  BY <1>1, <1>7, <1>9, <1>10, <1>11, <1>12, <1>13

WordsBetween(r, units, laid) ==
  \A k \in 1..Len(units) :
    /\ laid[k].upto <= Len(WordLines(r))
    /\ {WordLines(r)[p] : p \in (laid[k].from + 1)..laid[k].upto} = ToSet(units[k].lines)

\* The words of a region: those between a unit's ends are in its lines, and each
\* of its lines has one.
LEMMA WordLinesAre ==
  ASSUME IsDocument(doc), NEW S \in SUBSET Indices(doc), NEW units \in Seq(UnitOf(doc, S)),
         NEW r, regions[r] = Laid(units)
  PROVE  WordLines(r) \in Seq(S) /\ WordsBetween(r, units, Laid(units))
<1>1. PICK n, counts, laid : n = Len(units) /\ counts = UnitCounts(units) /\ laid = Laid(units)
  OBVIOUS
<1>2. n \in Nat /\ \A k \in 1..n : units[k] \in UnitOf(doc, S)
  BY <1>1
<1>3. counts \in Seq(Nat) /\ Len(counts) = n
      /\ \A k \in 1..n : counts[k] = LineWords(units[k].lines, Len(units[k].lines))
  BY <1>1, UnitCountsAre
<1>4. /\ laid \in Seq(ChunkUnit) /\ Len(laid) = n
      /\ \A k \in 1..n : LaidAs(laid[k], units[k], Total(counts, k - 1), Total(counts, k))
  BY <1>1, LaidIs
<1>5. DOMAIN laid = 1..n /\ \A k \in 1..n : laid[k].lines = units[k].lines
  BY <1>4 DEF LaidAs
<1>6. PICK seqs : seqs = [k \in 1..n |-> TextLines(units[k].lines)]
  OBVIOUS
<1>7. ASSUME NEW k \in 1..n
      PROVE  seqs[k] \in Seq(S) /\ Len(seqs[k]) = counts[k] /\ ToSet(seqs[k]) = ToSet(units[k].lines)
  <2>1. units[k] \in UnitOf(doc, S)
    BY <1>2
  <2>2. PICK lines : lines = units[k].lines
    OBVIOUS
  <2>3. lines \in Seq(S)
    BY <2>1, <2>2, UnitHas
  <2>4. /\ TextLines(lines) \in Seq(S) /\ ToSet(TextLines(lines)) = ToSet(lines)
        /\ Len(TextLines(lines)) = LineWords(lines, Len(lines))
    BY <2>3, TextLinesAre
  <2> QED
    BY <1>3, <1>6, <2>2, <2>4
<1>8. seqs \in Seq(Seq(S)) /\ Len(seqs) = n
  <2>1. seqs = [k \in 1..n |-> seqs[k]]
    BY <1>6
  <2> QED
    BY <1>2, <1>7, <2>1, MadeList
<1>9. PICK words : words = WordLines(r)
  OBVIOUS
<1>10. words = FlattenSeq(seqs)
  <2>1. WordLines(r) = FlattenSeq([k \in DOMAIN regions[r] |-> TextLines(regions[r][k].lines)])
    BY DEF WordLines, TextLines, TextLine
  <2>2. regions[r] = laid
    BY <1>1
  <2>3. [k \in DOMAIN laid |-> TextLines(laid[k].lines)] = [k \in 1..n |-> TextLines(units[k].lines)]
    BY <1>5
  <2> QED
    BY <1>6, <1>9, <2>1, <2>2, <2>3
<1>11. words \in Seq(S) /\ Placed(words, seqs, counts, n)
  BY <1>3, <1>7, <1>8, <1>10, Flattened
<1>12. /\ \A k \in 0..n : Total(counts, k) \in Nat
       /\ \A k \in 1..n : Total(counts, k) = Total(counts, k - 1) + counts[k]
  BY <1>3, TotalIs
<1>13. Len(words) = Total(counts, n)
  BY <1>11 DEF Placed
<1>14. ASSUME NEW k \in 1..n
       PROVE  /\ laid[k].upto <= Len(words)
              /\ {words[p] : p \in (laid[k].from + 1)..laid[k].upto} = ToSet(units[k].lines)
  <2>1. PICK a, b : a = Total(counts, k - 1) /\ b = Total(counts, k)
    OBVIOUS
  <2>2. laid[k].from = a /\ laid[k].upto = b
    BY <1>4, <2>1 DEF LaidAs
  <2>3. k - 1 \in 0..n /\ k \in 0..n /\ n \in k..n
    BY <1>2
  <2>4. a \in Nat /\ b \in Nat /\ b = a + counts[k] /\ counts[k] \in Nat
    BY <1>3, <1>12, <2>1, <2>3
  <2>5. b <= Len(words)
    BY <1>3, <1>13, <2>1, <2>3, TotalGrows
  <2>6. \A q \in 1..counts[k] : a + q \in 1..Len(words) /\ words[a + q] = seqs[k][q]
    BY <1>11, <2>1 DEF Placed
  <2>7. ToSet(seqs[k]) = {seqs[k][q] : q \in 1..counts[k]}
    BY <1>7, ToSetIs
  <2>8. {words[p] : p \in (a + 1)..b} = {seqs[k][q] : q \in 1..counts[k]}
    <3>1. ASSUME NEW p \in (a + 1)..b PROVE words[p] \in {seqs[k][q] : q \in 1..counts[k]}
      <4>1. p - a \in 1..counts[k] /\ a + (p - a) = p
        BY <2>4
      <4>2. words[a + (p - a)] = seqs[k][p - a]
        BY <2>6, <4>1
      <4> QED
        BY <4>1, <4>2
    <3>2. ASSUME NEW q \in 1..counts[k] PROVE seqs[k][q] \in {words[p] : p \in (a + 1)..b}
      <4>1. a + q \in (a + 1)..b
        BY <2>4
      <4>2. words[a + q] = seqs[k][q]
        BY <2>6
      <4> QED
        BY <4>1, <4>2
    <3> QED
      BY <3>1, <3>2
  <2> QED
    BY <1>7, <2>2, <2>5, <2>7, <2>8
<1> QED
  BY <1>1, <1>9, <1>11, <1>14 DEF WordsBetween

\* The words of what is placed are in its region's lines.
WordsFrom(r, u) ==
  /\ r \in 1..Len(spans)
  /\ ToSet(WordsOf(r, u)) # {} /\ ToSet(WordsOf(r, u)) \subseteq ToSet(u.lines)
  /\ u.atomic /\ ~u.partial => ToSet(WordsOf(r, u)) = ToSet(u.lines)
  /\ ToSet(u.lines) \subseteq TakenAt(r)
  /\ ~u.atomic => OnOnePage(doc, u.lines)

LEMMA PlacedWords ==
  ASSUME SourceInv, stage \in {"packing", "loaded"}, NEW r, NEW u \in ChunkUnit, FromRegion(r, u)
  PROVE  WordsFrom(r, u)
<1>1. /\ IsDocument(doc) /\ UnderTheirSection(doc, anchors, spans)
      /\ regions = [s \in DOMAIN spans |-> Laid(RegionAt(s))]
  BY DEF SourceInv, StageOK
<1>2. DOMAIN spans = 1..Len(spans) /\ Len(regions) = Len(spans)
  <2>1. spans \in Seq(ToSet(spans))
    BY <1>1 DEF UnderTheirSection, IsSeq
  <2>2. Len(regions) = Len(spans)
    BY <1>1, LaidRegions
  <2> QED
    BY <2>1, <2>2
<1>3. r \in 1..Len(spans)
  BY <1>2 DEF FromRegion
<1>4. PICK S, units : S = TakenAt(r) /\ units = RegionAt(r)
  OBVIOUS
<1>5. S \in SUBSET Indices(doc)
  BY <1>4 DEF TakenAt, Taken
<1>6. units \in Seq(UnitOf(doc, S))
  BY <1>1, <1>4, RegionUnitsType DEF RegionAt, TakenAt
<1>7. regions[r] = Laid(units)
  BY <1>1, <1>2, <1>3, <1>4
<1>8. PICK words, laid : words = WordLines(r) /\ laid = Laid(units)
  OBVIOUS
<1>9. /\ words \in Seq(S)
      /\ \A k \in 1..Len(units) :
           /\ laid[k].upto <= Len(words)
           /\ {words[p] : p \in (laid[k].from + 1)..laid[k].upto} = ToSet(units[k].lines)
  <2>1. WordLines(r) \in Seq(S) /\ WordsBetween(r, units, Laid(units))
    BY <1>1, <1>5, <1>6, <1>7, WordLinesAre
  <2> QED
    BY <1>8, <2>1 DEF WordsBetween
<1>10. /\ laid \in Seq(ChunkUnit) /\ Len(laid) = Len(units)
       /\ \A k \in 1..Len(units) :
            LaidAs(laid[k], units[k], Total(UnitCounts(units), k - 1), Total(UnitCounts(units), k))
  BY <1>1, <1>5, <1>6, <1>8, LaidIs
<1>11. PICK k \in 1..Len(units) : PieceOf(u, laid[k])
  BY <1>7, <1>8, <1>10 DEF FromRegion
<1>12. units[k] \in UnitOf(doc, S) /\ laid[k] \in ChunkUnit
  BY <1>6, <1>10, <1>11
<1>13. u.lines = units[k].lines /\ u.atomic = units[k].atomic
  BY <1>10, <1>11 DEF LaidAs, PieceOf
<1>14. u.lines \in Seq(S) /\ (~u.atomic => OnOnePage(doc, u.lines))
  BY <1>12, <1>13, UnitHas
<1>15. ToSet(u.lines) \subseteq S
  BY <1>14, ToSetIs
<1>16. PICK a, b, c, e : a = u.from /\ b = u.upto /\ c = laid[k].from /\ e = laid[k].upto
  OBVIOUS
<1>17. a \in Nat /\ b \in Nat /\ a < b /\ c \in Nat /\ e \in Nat
  BY <1>12, <1>16 DEF ChunkUnit
<1>18. c <= a /\ b <= e /\ e <= Len(words) /\ Len(words) \in Nat
  BY <1>9, <1>11, <1>16 DEF PieceOf
<1>19. ToSet(SubSeq(words, a + 1, b)) = {words[p] : p \in (a + 1)..b}
  <2>1. a + 1 \in 1..(Len(words) + 1) /\ b \in ((a + 1) - 1)..Len(words)
    BY <1>17, <1>18
  <2> QED
    BY <1>9, <2>1, PieceElements
<1>20. PICK Q : Q = ToSet(WordsOf(r, u))
  OBVIOUS
<1>21. Q = {words[p] : p \in (a + 1)..b}
  BY <1>8, <1>16, <1>19, <1>20 DEF WordsOf
<1>22. {words[p] : p \in (c + 1)..e} = ToSet(u.lines)
  BY <1>9, <1>11, <1>13, <1>16
<1>23. Q # {} /\ Q \subseteq ToSet(u.lines)
  <2>1. a + 1 \in (a + 1)..b /\ (a + 1)..b \subseteq (c + 1)..e
    BY <1>17, <1>18
  <2> QED
    BY <1>21, <1>22, <2>1
<1>24. u.atomic /\ ~u.partial => Q = ToSet(u.lines)
  BY <1>11, <1>16, <1>21, <1>22 DEF PieceOf
<1> QED
  BY <1>3, <1>4, <1>14, <1>15, <1>20, <1>23, <1>24 DEF WordsFrom

LEMMA PartsHaveWords ==
  ASSUME SourceInv, FromRegions, stage = "loaded", NEW k \in DOMAIN parts
  PROVE  /\ parts[k] \in ChunkPart /\ parts[k].own \in Seq(ChunkUnit) /\ parts[k].own # <<>>
         /\ ToSet(parts[k].own) # {}
         /\ \A u \in ToSet(parts[k].own) : u \in ChunkUnit /\ WordsFrom(parts[k].region, u)
<1>1. parts \in Seq(ChunkPart) /\ WithinCap /\ PackType
  BY DEF SourceInv, PackOK, PackType
<1>2. k \in 1..Len(parts) /\ parts[k] \in ChunkPart
  BY <1>1
<1>3. PICK units, n : units = parts[k].own /\ n = Len(units)
  OBVIOUS
<1>4. units \in Seq(ChunkUnit) /\ n \in Nat
  BY <1>2, <1>3 DEF ChunkPart
<1>5. units # <<>>
  <2>1. AllWords(units) > 0
    BY <1>1, <1>3 DEF WithinCap
  <2>2. AllWords(<<>>) = 0
    BY <1>4, AllWordsIs
  <2> QED
    BY <2>1, <2>2
<1>6. n > 0 /\ 1 \in 1..n
  BY <1>3, <1>4, <1>5
<1>7. ToSet(units) = {units[m] : m \in 1..n}
  BY <1>3, <1>4, ToSetIs
<1>8. AllFrom(parts[k].region, units)
  BY <1>2, <1>3 DEF FromRegions
<1>9. ASSUME NEW m \in 1..n PROVE units[m] \in ChunkUnit /\ WordsFrom(parts[k].region, units[m])
  <2>1. units[m] \in ChunkUnit
    BY <1>3, <1>4
  <2>2. FromRegion(parts[k].region, units[m])
    BY <1>3, <1>8 DEF AllFrom
  <2> QED
    BY <2>1, <2>2, PlacedWords
<1>10. ToSet(units) # {} /\ \A u \in ToSet(units) : u \in ChunkUnit /\ WordsFrom(parts[k].region, u)
  BY <1>6, <1>7, <1>9
<1> QED
  BY <1>2, <1>3, <1>4, <1>5, <1>10

LEMMA PassageIs ==
  ASSUME NEW k \in DOMAIN parts
  PROVE  /\ Passages[k].section = spans[parts[k].region].entry
         /\ Passages[k].page_start = Min(Pages(parts[k])) /\ Passages[k].page_end = Max(Pages(parts[k]))
         /\ Passages[k].partial = \E u \in ToSet(parts[k].own) : u.partial
BY DEF Passages

LEMMA LoadedUnderSection ==
  ASSUME SourceInv, FromRegions
  PROVE  CitedUnderItsSection
<1> SUFFICES ASSUME stage = "loaded", NEW k \in DOMAIN parts, NEW i \in LinesOf(parts[k])
             PROVE  Passages[k].section.title = TitleAt(anchors, spans, i)
  BY DEF CitedUnderItsSection, Loaded, TitleAt
<1>1. PICK r : r = parts[k].region
  OBVIOUS
<1>2. PICK u \in ToSet(parts[k].own) : i \in ToSet(WordsOf(r, u))
  BY <1>1 DEF LinesOf
<1>3. WordsFrom(r, u)
  BY <1>1, PartsHaveWords
<1>4. r \in 1..Len(spans) /\ i \in TakenAt(r)
  BY <1>2, <1>3 DEF WordsFrom
<1>5. i \in Indices(doc) /\ Holds(spans[r], i)
  BY <1>4 DEF TakenAt, Taken
<1>6. spans[r].entry.title = TitleAt(anchors, spans, i)
  BY <1>4, <1>5 DEF SourceInv, StageOK, UnderTheirSection
<1> QED
  BY <1>1, <1>6, PassageIs

\* The pages of some lines of the document.
LEMMA PagesAre ==
  ASSUME IsDocument(doc), NEW S \in SUBSET Indices(doc), S # {}
  PROVE  \A p \in PagesOf(doc, S) : Min(PagesOf(doc, S)) <= p /\ p <= Max(PagesOf(doc, S)) /\ p \in Nat
<1>1. PICK Q : Q = PagesOf(doc, S)
  OBVIOUS
<1>2. \A i \in S : doc.lines[i].page \in 1..doc.pages
  BY DEF IsDocument
<1>3. doc.pages \in Nat
  BY DEF IsDocument
<1>4. Q \in SUBSET (1..doc.pages) /\ Q # {}
  BY <1>1, <1>2 DEF PagesOf
<1>5. Q \in SUBSET Nat /\ Q \in SUBSET (0..doc.pages)
  BY <1>3, <1>4
<1> QED
  BY <1>1, <1>3, <1>4, <1>5, LeastIn, GreatestIn

LEMMA LoadedOnPages ==
  ASSUME SourceInv, FromRegions
  PROVE  CitedOnItsPages
<1> SUFFICES ASSUME stage = "loaded", NEW k \in DOMAIN parts
             PROVE  LET pages == PagesOf(doc, LinesOf(parts[k])) IN
                      IF Passages[k].partial THEN pages \subseteq Passages[k].page_start..Passages[k].page_end
                      ELSE Passages[k].page_start = Min(pages) /\ Passages[k].page_end = Max(pages)
  BY DEF CitedOnItsPages, Loaded
<1>1. PICK r, units : r = parts[k].region /\ units = ToSet(parts[k].own)
  OBVIOUS
<1>2. IsDocument(doc)
  BY DEF SourceInv, StageOK
<1>3. units # {} /\ \A u \in units : WordsFrom(r, u)
  BY <1>1, PartsHaveWords
<1>4. PICK L, W : L = UNION {ToSet(u.lines) : u \in units} /\ W = LinesOf(parts[k])
  OBVIOUS
<1>5. W = UNION {ToSet(WordsOf(r, u)) : u \in units}
  BY <1>1, <1>4 DEF LinesOf
<1>6. W \subseteq L /\ W # {} /\ L \subseteq Indices(doc)
  <2>1. \A u \in units : /\ ToSet(WordsOf(r, u)) # {} /\ ToSet(WordsOf(r, u)) \subseteq ToSet(u.lines)
                         /\ ToSet(u.lines) \subseteq Indices(doc)
    BY <1>3 DEF WordsFrom, TakenAt, Taken
  <2> QED
    BY <1>3, <1>4, <1>5, <2>1
<1>7. Pages(parts[k]) = PagesOf(doc, L)
  BY <1>1, <1>4 DEF Pages, PagesOf
<1>8. PagesOf(doc, W) \subseteq PagesOf(doc, L)
  BY <1>6 DEF PagesOf
<1>9. /\ Passages[k].page_start = Min(PagesOf(doc, L)) /\ Passages[k].page_end = Max(PagesOf(doc, L))
      /\ Passages[k].partial = \E u \in units : u.partial
  BY <1>1, <1>7, PassageIs
<1>10. CASE \E u \in units : u.partial
  <2>1. PICK Q, low, high : Q = PagesOf(doc, L) /\ low = Min(Q) /\ high = Max(Q)
    OBVIOUS
  <2>2. L \in SUBSET Indices(doc) /\ L # {}
    BY <1>6
  <2>3. \A p \in Q : low <= p /\ p <= high /\ p \in Nat
    BY <1>2, <2>1, <2>2, PagesAre
  <2>4. low \in Nat /\ high \in Nat
    <3>1. Q \in SUBSET (1..doc.pages) /\ Q # {} /\ doc.pages \in Nat
      BY <1>2, <2>1, <2>2 DEF PagesOf, IsDocument
    <3>2. Q \in SUBSET Nat /\ Q \in SUBSET (0..doc.pages)
      BY <3>1
    <3> QED
      BY <2>1, <3>1, <3>2, LeastIn, GreatestIn
  <2>5. Q \subseteq low..high
    BY <2>3, <2>4
  <2> QED
    BY <1>4, <1>8, <1>9, <1>10, <2>1, <2>5
<1>11. CASE ~\E u \in units : u.partial
  <2>1. PagesOf(doc, L) \subseteq PagesOf(doc, W)
    <3> SUFFICES ASSUME NEW i \in L PROVE doc.lines[i].page \in PagesOf(doc, W)
      BY DEF PagesOf
    <3>1. PICK u \in units : i \in ToSet(u.lines)
      BY <1>4
    <3>2. WordsFrom(r, u) /\ ~u.partial
      BY <1>3, <1>11
    <3>3. CASE u.atomic
      <4>1. i \in W
        BY <1>5, <3>1, <3>2, <3>3 DEF WordsFrom
      <4> QED
        BY <4>1 DEF PagesOf
    <3>4. CASE ~u.atomic
      <4>1. PICK j : j \in ToSet(WordsOf(r, u))
        BY <3>2 DEF WordsFrom
      <4>2. j \in ToSet(u.lines) /\ OnOnePage(doc, u.lines)
        BY <3>2, <3>4, <4>1 DEF WordsFrom
      <4>3. doc.lines[i].page = doc.lines[j].page
        BY <3>1, <4>2 DEF OnOnePage
      <4>4. j \in W
        BY <1>5, <4>1
      <4> QED
        BY <4>3, <4>4 DEF PagesOf
    <3> QED
      BY <3>3, <3>4
  <2>2. PagesOf(doc, L) = PagesOf(doc, W)
    BY <1>8, <2>1
  <2> QED
    BY <1>4, <1>9, <1>11, <2>2
<1> QED
  BY <1>10, <1>11

\* Whatever the manual, every own word of a passage lies in the section the
\* passage is cited under: that of the last heading found at or before its line
\* (corpus/pdf/sections.py, corpus/chunk.py).
THEOREM PassagesAreUnderTheirSection == Spec => []CitedUnderItsSection
BY SourceIsKept, PlacedFromRegions, LoadedUnderSection, PTL

\* Whatever the manual, the pages a passage is cited with are those its own words
\* are on, and the parts of a split procedure or row lie within the pages of the
\* whole (corpus/chunk.py _chunk).
THEOREM PassagesAreOnTheirPages == Spec => []CitedOnItsPages
BY SourceIsKept, PlacedFromRegions, LoadedOnPages, PTL

-----------------------------------------------------------------------------
(* The lines of a page's units.                                            *)

\* The lines of units in several lists.
LEMMA LinesThrough ==
  ASSUME NEW d, NEW S, NEW seqs \in Seq(Seq(UnitOf(d, S)))
  PROVE  LinesIn(FlattenSeq(seqs)) = FlattenSeq([k \in DOMAIN seqs |-> LinesIn(seqs[k])])
<1>1. PICK U : U = UnitOf(d, S)
  OBVIOUS
<1>2. PICK f : f = [units \in Seq(U) |-> LinesIn(units)]
  OBVIOUS
<1>3. ASSUME NEW units \in Seq(U) PROVE LinesIn(units) \in Seq(S)
  <2>1. units \in Seq(UnitOf(d, S))
    BY <1>1
  <2> QED
    BY <2>1, LinesInIs
<1>4. f \in [Seq(U) -> Seq(S)]
  BY <1>2, <1>3
<1>5. f[<<>>] = <<>>
  <2>1. <<>> \in Seq(U) /\ <<>> \in Seq(UnitOf(d, S))
    OBVIOUS
  <2>2. LinesIn(<<>>) = <<>>
    BY <2>1, LinesInIs
  <2> QED
    BY <1>2, <2>1, <2>2
<1>6. ASSUME NEW one \in Seq(U), NEW two \in Seq(U) PROVE f[one \o two] = f[one] \o f[two]
  <2>1. one \in Seq(UnitOf(d, S))
    BY <1>1
  <2>2. two \in Seq(UnitOf(d, S))
    BY <1>1
  <2>3. one \o two \in Seq(UnitOf(d, S)) /\ LinesIn(one \o two) = LinesIn(one) \o LinesIn(two)
    BY <2>1, <2>2, LinesInConcat
  <2>4. one \o two \in Seq(U)
    BY <1>1, <2>3
  <2> QED
    BY <1>2, <2>3, <2>4
<1>7. seqs \in Seq(Seq(U))
  BY <1>1
<1>8. f[FlattenSeq(seqs)] = FlattenSeq([k \in DOMAIN seqs |-> f[seqs[k]]])
  <2>1. GoesThrough(f, U, S)
    BY <1>4, <1>5, <1>6 DEF GoesThrough
  <2> QED
    BY <1>7, <2>1, FlattenThrough
<1>9. FlattenSeq(seqs) \in Seq(U)
  BY <1>7, FlattenIs
<1>10. \A k \in DOMAIN seqs : seqs[k] \in Seq(U)
  BY <1>7
<1> QED
  BY <1>2, <1>8, <1>9, <1>10

LEMMA AscendingPiece ==
  ASSUME NEW list \in Seq(Nat), Ascending(list), NEW a \in 1..(Len(list) + 1), NEW b \in (a - 1)..Len(list)
  PROVE  Ascending(SubSeq(list, a, b))
<1>1. PICK part : part = SubSeq(list, a, b)
  OBVIOUS
<1>2. /\ part \in Seq(Nat) /\ Len(part) = b - a + 1
      /\ \A i \in 1..(b - a + 1) : part[i] = list[a + i - 1]
  BY <1>1, Piece
<1>3. ASSUME NEW i \in DOMAIN part, NEW j \in DOMAIN part, i < j PROVE part[i] < part[j]
  <2>1. i \in 1..(b - a + 1) /\ j \in 1..(b - a + 1)
    <3>1. DOMAIN part = 1..Len(part)
      BY <1>2
    <3> QED
      BY <1>2, <1>3, <3>1
  <2>2. a + i - 1 \in DOMAIN list /\ a + j - 1 \in DOMAIN list /\ a + i - 1 < a + j - 1
    <3>1. PICK l : l = Len(list)
      OBVIOUS
    <3>2. l \in Nat /\ DOMAIN list = 1..l /\ a \in 1..(l + 1) /\ b \in (a - 1)..l
      BY <3>1
    <3>3. a + i - 1 \in 1..l /\ a + j - 1 \in 1..l /\ a + i - 1 < a + j - 1
      BY <1>3, <2>1, <3>2, SMTT(20)
    <3> QED
      BY <3>2, <3>3
  <2> QED
    BY <1>2, <2>1, <2>2 DEF Ascending
<1> QED
  BY <1>1, <1>3 DEF Ascending

\* Two tables of a page have no row in common.
LEMMA RunsApart ==
  ASSUME NEW d, NEW T, NEW rows \in Seq(T), NEW a, NEW b, NEW x, NEW y,
         TableRun(d, rows, a, b), TableRun(d, rows, x, y), a < x
  PROVE  b < x
<1>1. PICK n : n = Len(rows)
  OBVIOUS
<1>2. n \in Nat /\ a \in 1..n /\ b \in 1..n /\ x \in 1..n
  BY <1>1 DEF TableRun
<1> SUFFICES ASSUME x <= b PROVE FALSE
  BY <1>2
<1>3. x - 1 \in a..b
  BY <1>2
<1>4. Joins(d, rows[x - 1])
  BY <1>3 DEF TableRun, AllJoin
<1>5. x # 1
  BY <1>2
<1> QED
  BY <1>4, <1>5 DEF TableRun

\* Where a segment ends.
SegmentEnd(d, rows, k) == IF InTableOf(d, rows, k) THEN RunAt(d, rows, k)[2] ELSE ProseEndOf(d, rows, k)

LEMMA SegmentEndIs ==
  ASSUME NEW d, IsDocument(d), NEW rows \in Seq(Indices(d)), rows \in Seq(Nat), NEW k \in StartsOf(d, rows)
  PROVE  /\ SegmentEnd(d, rows, k) \in k..Len(rows)
         /\ \A j \in k..SegmentEnd(d, rows, k) : InTableOf(d, rows, j) <=> InTableOf(d, rows, k)
         /\ \A m \in StartsOf(d, rows) : k < m => SegmentEnd(d, rows, k) < m
<1>1. PICK n, e : n = Len(rows) /\ e = SegmentEnd(d, rows, k)
  OBVIOUS
<1>2. n \in Nat /\ DOMAIN rows = 1..n /\ k \in 1..n /\ \A m \in StartsOf(d, rows) : m \in 1..n
  BY <1>1 DEF StartsOf
<1>3. CASE InTableOf(d, rows, k)
  <2>1. PICK run : run = RunAt(d, rows, k)
    OBVIOUS
  <2>2. run \in TableRuns(d, rows) /\ run[1] = k /\ e = run[2] /\ e \in k..n /\ TableRun(d, rows, k, e)
    BY <1>1, <1>3, <2>1, RunAtIs DEF SegmentEnd
  <2>3. \A j \in k..e : InTableOf(d, rows, j)
    BY <2>2 DEF InTableOf
  <2>4. ASSUME NEW m \in StartsOf(d, rows), k < m PROVE e < m
    <3>1. CASE InTableOf(d, rows, m)
      <4>1. \E y : TableRun(d, rows, m, y)
        BY <3>1, RunAtIs
      <4> QED
        BY <2>2, <2>4, <4>1, RunsApart
    <3>2. CASE ~InTableOf(d, rows, m)
      <4>1. m \notin k..e
        BY <2>3, <3>2
      <4> QED
        BY <1>2, <2>2, <2>4, <4>1
    <3> QED
      BY <3>1, <3>2
  <2> QED
    BY <1>1, <1>3, <2>2, <2>3, <2>4
<1>4. CASE ~InTableOf(d, rows, k)
  <2>1. e \in k..n /\ \A j \in k..e : ~InTableOf(d, rows, j)
    BY <1>1, <1>2, <1>4, ProseEndIs DEF SegmentEnd
  <2>2. ASSUME NEW m \in StartsOf(d, rows), k < m PROVE e < m
    <3> SUFFICES ASSUME m <= e PROVE FALSE
      BY <1>2, <2>1
    <3>1. m \in k..e /\ m - 1 \in k..e /\ m # 1
      BY <1>2, <2>1, <2>2
    <3>2. ~InTableOf(d, rows, m) /\ ~InTableOf(d, rows, m - 1)
      BY <2>1, <3>1
    <3>3. PICK r \in TableRuns(d, rows) : r[1] = m
      BY <3>1, <3>2 DEF StartsOf
    <3>4. TableRun(d, rows, r[1], r[2])
      BY RunsAreTables
    <3>5. m \in r[1]..r[2]
      BY <1>2, <3>3, <3>4 DEF TableRun
    <3> QED
      BY <3>2, <3>5 DEF InTableOf
  <2> QED
    BY <1>1, <1>4, <2>1, <2>2
<1> QED
  BY <1>3, <1>4

\* Every row is in a segment.
LEMMA SegmentsCover ==
  ASSUME NEW d, IsDocument(d), NEW rows \in Seq(Indices(d)), rows \in Seq(Nat), NEW j \in DOMAIN rows
  PROVE  \E k \in StartsOf(d, rows) : j \in k..SegmentEnd(d, rows, k)
<1>1. PICK n : n = Len(rows)
  OBVIOUS
<1>2. n \in Nat /\ DOMAIN rows = 1..n /\ j \in 1..n
  BY <1>1
<1>3. CASE InTableOf(d, rows, j)
  <2>1. PICK r \in TableRuns(d, rows) : j \in r[1]..r[2]
    BY <1>3 DEF InTableOf
  <2>2. TableRun(d, rows, r[1], r[2])
    BY RunsAreTables
  <2>3. PICK k : k = r[1]
    OBVIOUS
  <2>4. r[1] \in 1..n /\ r[2] \in 1..n /\ r[1] <= r[2]
    BY <1>1, <2>2 DEF TableRun
  <2>5. k \in StartsOf(d, rows)
    BY <1>2, <2>3, <2>4 DEF StartsOf
  <2>6. InTableOf(d, rows, k)
    <3>1. k \in r[1]..r[2]
      BY <2>3, <2>4
    <3> QED
      BY <3>1 DEF InTableOf
  <2>7. PICK e : e = RunAt(d, rows, k)[2]
    OBVIOUS
  <2>8. TableRun(d, rows, k, e) /\ e \in k..n
    BY <1>1, <2>5, <2>6, <2>7, RunAtIs
  <2>9. r[2] <= e
    <3> SUFFICES ASSUME e < r[2] PROVE FALSE
      BY <2>4, <2>8
    <3>1. e + 1 \in r[1]..r[2]
      BY <2>3, <2>4, <2>8
    <3>2. Joins(d, rows[e + 1])
      BY <2>2, <3>1 DEF TableRun, AllJoin
    <3>3. e # Len(rows)
      BY <1>1, <2>4
    <3> QED
      BY <2>8, <3>2, <3>3 DEF TableRun
  <2>10. j \in k..e
    BY <2>1, <2>3, <2>4, <2>8, <2>9
  <2>11. SegmentEnd(d, rows, k) = e
    BY <2>6, <2>7 DEF SegmentEnd
  <2> QED
    BY <2>5, <2>10, <2>11
<1>4. CASE ~InTableOf(d, rows, j)
  <2>1. PICK B : B = {m \in 1..j : \A i \in m..j : ~InTableOf(d, rows, i)}
    OBVIOUS
  <2>2. B \in SUBSET Nat /\ j \in B
    <3>1. \A i \in j..j : i = j
      BY <1>2
    <3> QED
      BY <1>2, <1>4, <2>1, <3>1
  <2>3. PICK k \in B : \A m \in B : k <= m
    BY <2>2, LeastNumber
  <2>4. k \in 1..j /\ \A i \in k..j : ~InTableOf(d, rows, i)
    BY <2>1, <2>3
  <2>5. k # 1 => InTableOf(d, rows, k - 1)
    <3> SUFFICES ASSUME k # 1, ~InTableOf(d, rows, k - 1) PROVE FALSE
      OBVIOUS
    <3>1. k - 1 \in 1..j /\ \A i \in (k - 1)..j : i = k - 1 \/ i \in k..j
      BY <1>2, <2>4
    <3>2. k - 1 \in B
      BY <2>1, <2>4, <3>1
    <3> QED
      BY <2>3, <2>4, <3>2
  <2>6. k \in k..j /\ k \in 1..n
    BY <1>2, <2>4
  <2>7. ~InTableOf(d, rows, k)
    BY <2>4, <2>6
  <2>8. k \in StartsOf(d, rows)
    BY <1>2, <2>5, <2>6, <2>7 DEF StartsOf
  <2>9. PICK e : e = ProseEndOf(d, rows, k)
    OBVIOUS
  <2>10. e \in k..n /\ (e = n \/ InTableOf(d, rows, e + 1))
    BY <1>1, <2>6, <2>7, <2>9, ProseEndIs
  <2>11. j <= e
    <3> SUFFICES ASSUME e < j PROVE FALSE
      BY <1>2, <2>10
    <3>1. e + 1 \in k..j /\ e # n
      BY <1>2, <2>4, <2>10
    <3> QED
      BY <2>4, <2>10, <3>1
  <2>12. j \in k..e
    BY <1>2, <2>4, <2>10, <2>11
  <2>13. SegmentEnd(d, rows, k) = e
    BY <2>7, <2>9 DEF SegmentEnd
  <2> QED
    BY <2>8, <2>12, <2>13
<1> QED
  BY <1>3, <1>4

\* The rows of a page that stay: its tables' rows, and the others that are not marked.
Staying(d, marks, rows, a, b) == {m \in a..b : InTableOf(d, rows, m) \/ rows[m] \notin marks}

StayOf(d, marks, rows) == {rows[j] : j \in Staying(d, marks, rows, 1, Len(rows))}

\* Some lines, in order.
OrderedLines(lines, set) == lines \in Seq(Nat) /\ Ascending(lines) /\ ToSet(lines) = set

LEMMA SegmentLines ==
  ASSUME NEW d, IsDocument(d), NEW marks, NEW S \in SUBSET Indices(d), NEW rows \in Seq(S),
         Ascending(rows), OnOnePage(d, rows), InTables(d, S, rows), NEW k \in StartsOf(d, rows)
  PROVE  LET lines == LinesIn(SegmentOf(d, marks, rows, k)) IN
         /\ lines \in Seq(Nat) /\ Ascending(lines)
         /\ ToSet(lines) = {rows[j] : j \in Staying(d, marks, rows, k, SegmentEnd(d, rows, k))}
<1>1. rows \in Seq(Indices(d)) /\ rows \in Seq(Nat) /\ Len(rows) \in Nat
  BY RowsAre
<1>2. PICK n, e : n = Len(rows) /\ e = SegmentEnd(d, rows, k)
  OBVIOUS
<1>3. n \in Nat /\ k \in 1..n /\ DOMAIN rows = 1..n
  BY <1>1, <1>2 DEF StartsOf
<1>4. e \in k..n /\ \A j \in k..e : InTableOf(d, rows, j) <=> InTableOf(d, rows, k)
  BY <1>1, <1>2, SegmentEndIs
<1>5. PICK part : part = SubSeq(rows, k, e)
  OBVIOUS
<1>6. part \in Seq(Nat) /\ Ascending(part) /\ ToSet(part) = {rows[i] : i \in k..e}
  <2>1. k \in 1..(n + 1) /\ e \in (k - 1)..n
    BY <1>3, <1>4
  <2>2. SubSeq(rows, k, e) \in Seq(Nat)
    BY <1>1, <1>2, <2>1, Piece
  <2>3. Ascending(SubSeq(rows, k, e))
    BY <1>1, <1>2, <2>1, AscendingPiece
  <2>4. ToSet(SubSeq(rows, k, e)) = {rows[i] : i \in k..e}
    BY <1>1, <1>2, <2>1, PieceElements
  <2> QED
    BY <1>5, <2>2, <2>3, <2>4
<1>7. PICK lines : lines = LinesIn(SegmentOf(d, marks, rows, k))
  OBVIOUS
<1>8. lines = IF InTableOf(d, rows, k) THEN TableAt(d, rows, k) ELSE ProseAt(d, marks, rows, k)
  BY <1>7, SegmentIs
<1>9. CASE InTableOf(d, rows, k)
  <2>1. RunAt(d, rows, k)[1] = k /\ RunAt(d, rows, k)[2] = e
    BY <1>1, <1>2, <1>9, RunAtIs DEF SegmentEnd
  <2>2. lines = part
    BY <1>5, <1>8, <1>9, <2>1 DEF TableAt
  <2>3. Staying(d, marks, rows, k, e) = k..e
    BY <1>4, <1>9 DEF Staying
  <2> QED
    BY <1>2, <1>6, <1>7, <2>2, <2>3
<1>10. CASE ~InTableOf(d, rows, k)
  <2>1. lines = Among(part, Indices(d) \ marks)
    BY <1>2, <1>5, <1>8, <1>10 DEF ProseAt, SegmentEnd
  <2>2. lines \in Seq(Nat) /\ ToSet(lines) = ToSet(part) \cap (Indices(d) \ marks) /\ Ascending(lines)
    BY <1>6, <2>1, AmongElements, AscendingAmong
  <2>3. Staying(d, marks, rows, k, e) = {m \in k..e : rows[m] \notin marks}
    BY <1>4, <1>10 DEF Staying
  <2>4. \A i \in k..e : rows[i] \in Indices(d)
    BY <1>1, <1>2, <1>3, <1>4
  <2>5. ToSet(lines) = {rows[j] : j \in Staying(d, marks, rows, k, e)}
    BY <1>6, <2>2, <2>3, <2>4
  <2> QED
    BY <1>2, <1>7, <2>2, <2>5
<1> QED
  BY <1>9, <1>10

\* The lines of a page's units: the rows that stay, in order.
LEMMA PageLines ==
  ASSUME NEW d, IsDocument(d), NEW marks, NEW S \in SUBSET Indices(d), NEW rows \in Seq(S),
         Ascending(rows), OnOnePage(d, rows), InTables(d, S, rows)
  PROVE  OrderedLines(LinesIn(PageUnits(d, marks, rows)), StayOf(d, marks, rows))
<1>1. rows \in Seq(Indices(d)) /\ rows \in Seq(Nat) /\ Len(rows) \in Nat
  BY RowsAre
<1>2. PICK l : l = Len(rows)
  OBVIOUS
<1>3. l \in Nat /\ DOMAIN rows = 1..l
  BY <1>1, <1>2
<1>4. PICK Q, starts : Q = StartsOf(d, rows) /\ starts = InReadingOrder(Q)
  OBVIOUS
<1>5. Q \in SUBSET (1..l)
  BY <1>3, <1>4 DEF StartsOf
<1>6. starts \in Seq(Q) /\ starts \in Seq(Nat) /\ Ascending(starts) /\ ToSet(starts) = Q
  BY <1>3, <1>4, <1>5, ReadingOrder
<1>7. PICK n : n = Len(starts)
  OBVIOUS
<1>8. n \in Nat /\ DOMAIN starts = 1..n /\ \A m \in 1..n : starts[m] \in Q
  BY <1>6, <1>7
<1>9. PICK seqs : seqs = [m \in 1..n |-> SegmentOf(d, marks, rows, starts[m])]
  OBVIOUS
<1>10. seqs \in Seq(Seq(UnitOf(d, S))) /\ DOMAIN seqs = 1..n
  <2>1. \A m \in 1..n : seqs[m] \in Seq(UnitOf(d, S))
    BY <1>4, <1>8, <1>9, SegmentIs
  <2>2. seqs = [m \in 1..n |-> seqs[m]]
    BY <1>9
  <2> QED
    BY <1>8, <2>1, <2>2, MadeList
<1>11. PageUnits(d, marks, rows) = FlattenSeq(seqs)
  BY <1>4, <1>8, <1>9, PageUnitsIs
<1>12. PICK lists : lists = [m \in 1..n |-> LinesIn(seqs[m])]
  OBVIOUS
<1>13. LinesIn(PageUnits(d, marks, rows)) = FlattenSeq(lists)
  <2>1. LinesIn(FlattenSeq(seqs)) = FlattenSeq([m \in DOMAIN seqs |-> LinesIn(seqs[m])])
    <3>1. seqs \in Seq(Seq(UnitOf(d, S)))
      BY <1>10
    <3> QED
      BY <3>1, LinesThrough, ZenonT(30)
  <2> QED
    BY <1>10, <1>11, <1>12, <2>1
<1>14. ASSUME NEW m \in 1..n
       PROVE  /\ lists[m] \in Seq(Nat) /\ Ascending(lists[m])
              /\ ToSet(lists[m]) = {rows[j] : j \in Staying(d, marks, rows, starts[m], SegmentEnd(d, rows, starts[m]))}
  <2>1. starts[m] \in StartsOf(d, rows)
    BY <1>4, <1>8
  <2>2. lists[m] = LinesIn(SegmentOf(d, marks, rows, starts[m]))
    BY <1>9, <1>12
  <2> QED
    BY <2>1, <2>2, SegmentLines
<1>15. lists \in Seq(Seq(Nat)) /\ Len(lists) = n
  <2>1. lists = [m \in 1..n |-> lists[m]]
    BY <1>12
  <2> QED
    BY <1>8, <1>14, <2>1, MadeList
<1>16. \A k \in Q : SegmentEnd(d, rows, k) \in k..l /\ \A m \in Q : k < m => SegmentEnd(d, rows, k) < m
  BY <1>1, <1>2, <1>4, SegmentEndIs
<1>17. ASSUME NEW j \in 1..n, NEW k \in 1..n, j < k, NEW x \in ToSet(lists[j]), NEW y \in ToSet(lists[k])
       PROVE  x < y
  <2>1. PICK a, b : a = starts[j] /\ b = starts[k]
    OBVIOUS
  <2>2. a \in Q /\ b \in Q /\ a < b
    <3>1. a \in Q /\ b \in Q
      BY <1>8, <2>1
    <3>2. \A i \in 1..n, m \in 1..n : i < m => starts[i] < starts[m]
      BY <1>6, <1>8 DEF Ascending
    <3> QED
      BY <1>17, <2>1, <3>1, <3>2
  <2>3. PICK u, v : u = SegmentEnd(d, rows, a) /\ v = SegmentEnd(d, rows, b)
    OBVIOUS
  <2>4. u \in a..l /\ v \in b..l /\ u < b
    BY <1>16, <2>2, <2>3
  <2>5. PICK p \in Staying(d, marks, rows, a, u) : x = rows[p]
    BY <1>14, <1>17, <2>1, <2>3
  <2>6. PICK q \in Staying(d, marks, rows, b, v) : y = rows[q]
    BY <1>14, <1>17, <2>1, <2>3
  <2>7. p \in 1..l /\ q \in 1..l /\ p < q
    BY <1>3, <1>5, <2>2, <2>4, <2>5, <2>6 DEF Staying
  <2> QED
    BY <1>3, <2>5, <2>6, <2>7 DEF Ascending
<1>18. FlattenSeq(lists) \in Seq(Nat) /\ Ascending(FlattenSeq(lists))
  BY <1>14, <1>15, <1>17, FlattenIs, FlattenAscending
<1>19. PICK all : all = ToSet(FlattenSeq(lists))
  OBVIOUS
<1>20. all = UNION {ToSet(lists[m]) : m \in 1..n}
  BY <1>15, <1>19, FlattenElements
<1>21. ASSUME NEW x \in all PROVE x \in {rows[j] : j \in Staying(d, marks, rows, 1, l)}
  <2>1. PICK m \in 1..n : x \in ToSet(lists[m])
    BY <1>20
  <2>2. PICK j \in Staying(d, marks, rows, starts[m], SegmentEnd(d, rows, starts[m])) : x = rows[j]
    BY <1>14, <2>1
  <2>3. starts[m] \in 1..l /\ SegmentEnd(d, rows, starts[m]) \in starts[m]..l
    BY <1>5, <1>8, <1>16
  <2>4. j \in Staying(d, marks, rows, 1, l)
    BY <1>3, <2>2, <2>3 DEF Staying
  <2> QED
    BY <2>2, <2>4
<1>22. ASSUME NEW j \in Staying(d, marks, rows, 1, l) PROVE rows[j] \in all
  <2>1. j \in 1..l
    BY DEF Staying
  <2>2. PICK k \in StartsOf(d, rows) : j \in k..SegmentEnd(d, rows, k)
    BY <1>1, <1>3, <2>1, SegmentsCover
  <2>3. PICK m \in 1..n : starts[m] = k
    <3>1. ToSet(starts) = {starts[m] : m \in 1..n}
      BY <1>6, <1>7, ToSetIs
    <3> QED
      BY <1>4, <1>6, <3>1
  <2>4. j \in Staying(d, marks, rows, k, SegmentEnd(d, rows, k))
    BY <2>2 DEF Staying
  <2>5. rows[j] \in ToSet(lists[m])
    BY <1>14, <2>3, <2>4
  <2> QED
    BY <1>20, <2>5
<1>23. all = StayOf(d, marks, rows)
  BY <1>2, <1>21, <1>22 DEF StayOf
<1> QED
  BY <1>13, <1>18, <1>19, <1>23 DEF OrderedLines

\* The lines of a region that stay in it.
KeptIn(d, marks, blocks, contents, span) ==
  LET S == Taken(d, blocks, contents, span) IN {i \in S : i \in Tabular(d, S) \/ i \notin marks}

LEMMA PageOfLines ==
  ASSUME NEW d, IsDocument(d), NEW marks, NEW blocks, NEW contents, NEW span, NEW p
  PROVE  OrderedLines(LinesIn(PageOf(d, marks, blocks, contents, span, p)),
                      KeptIn(d, marks, blocks, contents, span) \cap OnPage(d, p))
<1>1. PICK S, K : S = Taken(d, blocks, contents, span) /\ K = KeptIn(d, marks, blocks, contents, span)
  OBVIOUS
<1>2. K = {i \in S : i \in Tabular(d, S) \/ i \notin marks}
  BY <1>1 DEF KeptIn
<1>3. CASE p \in contents
  <2>1. LinesIn(<<>>) = <<>>
    <3>1. <<>> \in Seq(UnitOf(d, S))
      OBVIOUS
    <3> QED
      BY <3>1, LinesInIs
  <2>2. PageOf(d, marks, blocks, contents, span, p) = <<>>
    BY <1>3 DEF PageOf
  <2>3. <<>> \in Seq(Nat) /\ Ascending(<<>>) /\ ToSet(<<>>) = {}
    BY DEF Ascending, ToSet
  <2>4. K \cap OnPage(d, p) = {}
    BY <1>1, <1>2, <1>3 DEF Taken, OnPage
  <2> QED
    BY <1>1, <2>1, <2>2, <2>3, <2>4 DEF OrderedLines
<1>4. CASE p \notin contents
  <2>1. PICK rows : rows = InReadingOrder(TakenOn(d, blocks, span, p))
    OBVIOUS
  <2>2. /\ rows \in Seq(S) /\ Ascending(rows) /\ OnOnePage(d, rows)
        /\ ToSet(rows) = TakenOn(d, blocks, span, p)
    BY <1>1, <1>4, <2>1, TakenOnIs
  <2>3. RowsIn(d, S, p) = rows /\ InTables(d, S, rows)
    BY <1>1, <1>4, <2>1, PageRows
  <2>4. S \in SUBSET Indices(d)
    BY <1>1 DEF Taken
  <2>5. PICK lines : lines = LinesIn(PageUnits(d, marks, rows))
    OBVIOUS
  <2>6. OrderedLines(lines, StayOf(d, marks, rows))
    <3>1. rows \in Seq(S)
      BY <2>2
    <3>2. Ascending(rows) /\ OnOnePage(d, rows) /\ InTables(d, S, rows)
      BY <2>2, <2>3
    <3> QED
      BY <2>4, <2>5, <3>1, <3>2, PageLines
  <2>7. LinesIn(PageOf(d, marks, blocks, contents, span, p)) = lines
    BY <1>4, <2>1, <2>5 DEF PageOf
  <2>8. DOMAIN rows = 1..Len(rows) /\ ToSet(rows) = {rows[j] : j \in 1..Len(rows)}
    BY <2>2, ToSetIs
  <2>9. ASSUME NEW j \in Staying(d, marks, rows, 1, Len(rows)) PROVE rows[j] \in K \cap OnPage(d, p)
    <3>1. j \in DOMAIN rows /\ (InTableOf(d, rows, j) \/ rows[j] \notin marks)
      BY <2>8 DEF Staying
    <3>2. rows[j] \in S /\ rows[j] \in TakenOn(d, blocks, span, p)
      BY <2>2, <2>8, <3>1
    <3>3. rows[j] \in Tabular(d, S) \/ rows[j] \notin marks
      BY <2>3, <3>1 DEF InTables
    <3> QED
      BY <1>2, <3>2, <3>3 DEF TakenOn
  <2>10. ASSUME NEW i \in K \cap OnPage(d, p)
         PROVE  i \in {rows[j] : j \in Staying(d, marks, rows, 1, Len(rows))}
    <3>1. i \in S /\ d.lines[i].page = p
      BY <1>2 DEF OnPage
    <3>2. CASE i \in Tabular(d, S)
      <4>1. PICK k \in DOMAIN rows : InTableOf(d, rows, k) /\ rows[k] = i
        BY <2>3, <3>1, <3>2 DEF Tabular
      <4> QED
        BY <2>8, <4>1 DEF Staying
    <3>3. CASE i \notin Tabular(d, S)
      <4>1. i \notin marks
        BY <1>2, <3>3
      <4>2. i \in TakenOn(d, blocks, span, p)
        BY <1>1, <3>1 DEF Taken, TakenOn, OnPage
      <4>3. PICK k \in 1..Len(rows) : rows[k] = i
        BY <2>2, <2>8, <4>2
      <4> QED
        BY <4>1, <4>3 DEF Staying
    <3> QED
      BY <3>2, <3>3
  <2>11. StayOf(d, marks, rows) = K \cap OnPage(d, p)
    BY <2>9, <2>10 DEF StayOf
  <2> QED
    BY <1>1, <2>6, <2>7, <2>11
<1> QED
  BY <1>3, <1>4

\* The lines of a region's units: those that stay, in order.
LEMMA RegionLines ==
  ASSUME NEW d, IsDocument(d), NEW marks, NEW blocks, NEW contents, NEW span
  PROVE  OrderedLines(LinesIn(RegionUnits(d, marks, blocks, contents, span)),
                      KeptIn(d, marks, blocks, contents, span))
<1>1. PICK S, K : S = Taken(d, blocks, contents, span) /\ K = KeptIn(d, marks, blocks, contents, span)
  OBVIOUS
<1>2. PICK n : n = d.pages
  OBVIOUS
<1>3. n \in Nat
  BY <1>2 DEF IsDocument
<1>4. PICK seqs : seqs = PagesIn(d, marks, blocks, contents, span)
  OBVIOUS
<1>5. seqs = [p \in 1..n |-> PageOf(d, marks, blocks, contents, span, p)]
  BY <1>2, <1>4 DEF PagesIn
<1>6. seqs \in Seq(Seq(UnitOf(d, S))) /\ DOMAIN seqs = 1..n
  <2>1. \A p \in 1..n : seqs[p] \in Seq(UnitOf(d, S))
    BY <1>1, <1>5, PageOfType
  <2>2. seqs = [p \in 1..n |-> seqs[p]]
    BY <1>5
  <2> QED
    BY <1>3, <2>1, <2>2, MadeList
<1>7. PICK lists : lists = [p \in 1..n |-> LinesIn(seqs[p])]
  OBVIOUS
<1>8. LinesIn(RegionUnits(d, marks, blocks, contents, span)) = FlattenSeq(lists)
  <2>1. seqs \in Seq(Seq(UnitOf(d, S)))
    BY <1>6
  <2>2. LinesIn(FlattenSeq(seqs)) = FlattenSeq([p \in DOMAIN seqs |-> LinesIn(seqs[p])])
    BY <2>1, LinesThrough, ZenonT(30)
  <2>3. LinesIn(RegionUnits(d, marks, blocks, contents, span)) = LinesIn(FlattenSeq(seqs))
    BY <1>4, RegionUnitsType
  <2> QED
    BY <1>6, <1>7, <2>2, <2>3
<1>9. ASSUME NEW p \in 1..n
      PROVE  /\ lists[p] \in Seq(Nat) /\ Ascending(lists[p])
             /\ ToSet(lists[p]) = K \cap OnPage(d, p)
  <2>1. lists[p] = LinesIn(PageOf(d, marks, blocks, contents, span, p))
    BY <1>5, <1>7
  <2> QED
    BY <1>1, <2>1, PageOfLines DEF OrderedLines
<1>10. lists \in Seq(Seq(Nat)) /\ Len(lists) = n
  <2>1. lists = [m \in 1..n |-> lists[m]]
    BY <1>7
  <2> QED
    BY <1>3, <1>9, <2>1, MadeList
<1>11. ASSUME NEW p \in 1..n, NEW q \in 1..n, p < q, NEW x \in ToSet(lists[p]), NEW y \in ToSet(lists[q])
       PROVE  x < y
  <2>1. x \in OnPage(d, p) /\ y \in OnPage(d, q)
    BY <1>9, <1>11
  <2>2. x \in Indices(d) /\ y \in Indices(d) /\ d.lines[x].page = p /\ d.lines[y].page = q
    BY <2>1 DEF OnPage
  <2>3. x \in Nat /\ y \in Nat
    BY <2>2, IndicesAre
  <2> SUFFICES ASSUME ~(x < y) PROVE FALSE
    OBVIOUS
  <2>4. y = x \/ y < x
    BY <2>3
  <2>5. q <= p
    BY <1>3, <2>2, <2>4 DEF IsDocument
  <2> QED
    BY <1>3, <1>11, <2>5
<1>12. FlattenSeq(lists) \in Seq(Nat) /\ Ascending(FlattenSeq(lists))
  BY <1>9, <1>10, <1>11, FlattenIs, FlattenAscending
<1>13. ToSet(FlattenSeq(lists)) = UNION {ToSet(lists[p]) : p \in 1..n}
  BY <1>10, FlattenElements
<1>14. \A i \in K : \E p \in 1..n : i \in OnPage(d, p)
  <2>1. K \subseteq Indices(d)
    BY <1>1 DEF KeptIn, Taken
  <2> QED
    BY <1>2, <2>1 DEF IsDocument, OnPage
<1>15. ToSet(FlattenSeq(lists)) = K
  BY <1>9, <1>13, <1>14
<1> QED
  BY <1>1, <1>8, <1>12, <1>15 DEF OrderedLines

\* The regions cover the document, one after the other.
SpansTile(d, sps) ==
  /\ IsSeq(sps)
  /\ \A i \in Indices(d) : \E r \in 1..Len(sps) : Holds(sps[r], i)
  /\ \A q \in 1..Len(sps), r \in 1..Len(sps) : q < r =>
       \A i \in Indices(d), j \in Indices(d) : Holds(sps[q], i) /\ Holds(sps[r], j) => i < j

\* Where one region ends the next begins.
EndOf(d) == At(Len(d.lines) + 1)
FirstOf(d, anchs) == IF anchs = <<>> THEN EndOf(d) ELSE anchs[1].position
FromAnchor(d, anchs, k, span) ==
  /\ span.from = anchs[k].position
  /\ span.to = IF k < Len(anchs) THEN anchs[k + 1].position ELSE EndOf(d)

\* The regions of anchors, behind one for what precedes them if anything does.
SpansOf(d, anchs, sps, c) ==
  /\ c \in {0, 1} /\ IsSeq(sps) /\ Len(sps) = Len(anchs) + c
  /\ c = 1 <=> At(1) < FirstOf(d, anchs)
  /\ c = 1 => sps[1].from = At(1) /\ sps[1].to = FirstOf(d, anchs)
  /\ \A k \in 1..Len(anchs) : FromAnchor(d, anchs, k, sps[k + c])

LEMMA SpansMade ==
  ASSUME NEW d, IsDocument(d), d.lines # <<>>, NEW marks, NEW anchs, InPlace(anchs), NEW inferred
  PROVE  \E c : SpansOf(d, anchs, DeriveRegions(d, marks, anchs, inferred), c)
<1>1. PICK n : n = Len(anchs)
  OBVIOUS
<1>2. n \in Nat /\ DOMAIN anchs = 1..n
  <2>1. anchs \in Seq(ToSet(anchs))
    BY DEF InPlace, IsSeq
  <2> QED
    BY <1>1, <2>1
<1>3. PICK end, first : end = EndOf(d) /\ first = FirstOf(d, anchs)
  OBVIOUS
<1> DEFINE titles == {i \in Indices(d) : At(i) < first /\ ReadsAsTitle(d, marks, i)}
<1>4. PICK front : front = Entry(1, None, IF titles = {} THEN FrontMatter ELSE d.lines[Min(titles)].title, 1)
  OBVIOUS
<1> HIDE DEF titles
<1> DEFINE One(k) == Span(anchs[k].entry, anchs[k].position,
                          IF k < Len(anchs) THEN anchs[k + 1].position ELSE end, inferred)
<1>5. PICK f : f = Span(front, At(1), first, FALSE)
  OBVIOUS
<1>6. PICK before : before = IF At(1) < first THEN <<f>> ELSE <<>>
  OBVIOUS
<1>7. PICK rest : rest = [k \in 1..n |-> One(k)]
  OBVIOUS
<1>8. PICK sps : sps = DeriveRegions(d, marks, anchs, inferred)
  OBVIOUS
<1>9. sps = before \o rest
  BY <1>2, <1>3, <1>4, <1>5, <1>6, <1>7, <1>8 DEF DeriveRegions, EndOf, FirstOf, titles
<1>10. \A k \in 1..n : FromAnchor(d, anchs, k, One(k))
  BY <1>3 DEF FromAnchor, Span
<1>11. f.from = At(1) /\ f.to = first
  BY <1>5 DEF Span
<1> HIDE DEF One
<1>12. PICK T : T = {One(k) : k \in 1..n} \cup {f}
  OBVIOUS
<1>13. rest \in Seq(T) /\ Len(rest) = n /\ \A k \in 1..n : rest[k] = One(k)
  <2>1. \A k \in 1..n : rest[k] = One(k) /\ rest[k] \in T
    BY <1>7, <1>12
  <2>2. rest = [k \in 1..n |-> rest[k]]
    BY <1>7
  <2> QED
    BY <1>2, <2>1, <2>2, MadeList
<1>14. CASE At(1) < first
  <2>1. before \in Seq(T) /\ Len(before) = 1 /\ before[1] = f
    BY <1>6, <1>12, <1>14
  <2>2. /\ sps \in Seq(T) /\ Len(sps) = 1 + n
        /\ \A r \in 1..(1 + n) : sps[r] = IF r <= 1 THEN before[r] ELSE rest[r - 1]
    <3>1. /\ before \o rest \in Seq(T) /\ Len(before \o rest) = Len(before) + Len(rest)
          /\ \A r \in 1..(Len(before) + Len(rest)) :
               (before \o rest)[r] = IF r <= Len(before) THEN before[r] ELSE rest[r - Len(before)]
      BY <1>13, <2>1, ConcatProperties
    <3> QED
      BY <1>9, <1>13, <2>1, <3>1
  <2>3. ASSUME NEW k \in 1..n PROVE sps[k + 1] = One(k)
    <3>1. k + 1 \in 1..(1 + n) /\ ~(k + 1 <= 1) /\ (k + 1) - 1 = k
      BY <1>2
    <3> QED
      BY <1>13, <2>2, <3>1
  <2>4. sps[1] = f
    <3>1. 1 \in 1..(1 + n)
      BY <1>2
    <3> QED
      BY <2>1, <2>2, <3>1
  <2>5. Len(sps) = n + 1
    BY <1>2, <2>2
  <2>6. IsSeq(sps)
    BY <2>2, IsSeqOf
  <2>7. SpansOf(d, anchs, sps, 1)
    BY <1>1, <1>3, <1>10, <1>11, <1>14, <2>3, <2>4, <2>5, <2>6 DEF SpansOf
  <2> QED
    BY <1>8, <2>7
<1>15. CASE ~(At(1) < first)
  <2>1. sps = rest
    BY <1>6, <1>9, <1>13, <1>15
  <2>2. IsSeq(sps) /\ Len(sps) = n + 0 /\ \A k \in 1..n : sps[k + 0] = One(k)
    <3>1. IsSeq(sps)
      BY <1>13, <2>1, IsSeqOf
    <3>2. n + 0 = n /\ \A k \in 1..n : k + 0 = k
      BY <1>2
    <3> QED
      BY <1>13, <2>1, <3>1, <3>2
  <2>3. 0 \in {0, 1} /\ 0 # 1
    OBVIOUS
  <2>4. SpansOf(d, anchs, sps, 0)
    BY <1>1, <1>3, <1>10, <1>15, <2>2, <2>3 DEF SpansOf
  <2> QED
    BY <1>8, <2>4
<1> QED
  BY <1>14, <1>15

LEMMA SpansAreTiles ==
  ASSUME NEW d, IsDocument(d), NEW marks, NEW anchs, InPlace(anchs), NEW inferred
  PROVE  SpansTile(d, DeriveRegions(d, marks, anchs, inferred))
<1>1. PICK sps : sps = DeriveRegions(d, marks, anchs, inferred)
  OBVIOUS
<1>2. CASE d.lines = <<>>
  <2>1. sps = <<>>
    BY <1>1, <1>2 DEF DeriveRegions
  <2>2. <<>> \in Seq(ToSet(<<>>)) /\ Len(<<>>) = 0 /\ 1..0 = {}
    OBVIOUS
  <2>3. Indices(d) = {}
    BY <1>2 DEF Indices
  <2> QED
    BY <1>1, <2>1, <2>2, <2>3 DEF SpansTile, IsSeq
<1>3. CASE d.lines # <<>>
  <2>1. PICK c : SpansOf(d, anchs, sps, c)
    BY <1>1, <1>3, SpansMade
  <2>2. PICK n : n = Len(anchs)
    OBVIOUS
  <2>3. /\ n \in Nat /\ DOMAIN anchs = 1..n /\ (anchs = <<>> <=> n = 0)
        /\ \A k \in 1..n : anchs[k].position \in Nat
        /\ \A j \in 1..n, k \in 1..n : j <= k => anchs[j].position <= anchs[k].position
    <3>1. anchs \in Seq(ToSet(anchs))
      BY DEF InPlace, IsSeq
    <3>2. n \in Nat /\ DOMAIN anchs = 1..n /\ (anchs = <<>> <=> n = 0)
      BY <2>2, <3>1
    <3> QED
      BY <2>2, <3>2 DEF InPlace
  <2>4. PICK l : l = Len(d.lines)
    OBVIOUS
  <2>5. l \in Nat /\ Indices(d) = 1..l
    BY <2>4, IndicesAre
  <2>6. PICK end, first : end = EndOf(d) /\ first = FirstOf(d, anchs)
    OBVIOUS
  <2>7. end = 2 * (l + 1)
    BY <2>4, <2>6 DEF EndOf, At
  <2>8. first = IF n = 0 THEN end ELSE anchs[1].position
    BY <2>3, <2>6 DEF FirstOf
  <2>9. /\ c \in {0, 1} /\ IsSeq(sps) /\ Len(sps) = n + c
        /\ c = 1 <=> At(1) < first
        /\ c = 1 => sps[1].from = At(1) /\ sps[1].to = first
        /\ \A k \in 1..n : /\ sps[k + c].from = anchs[k].position
                           /\ sps[k + c].to = IF k < n THEN anchs[k + 1].position ELSE end
    BY <2>1, <2>2, <2>6 DEF SpansOf, FromAnchor
  <2>10. \A i \in Indices(d) : i \in Nat /\ i >= 1 /\ At(i) = 2 * i /\ At(i) \in Nat /\ At(1) <= At(i) /\ At(i) < end
    BY <2>5, <2>7 DEF At
  <2>11. ASSUME NEW i \in Indices(d) PROVE \E r \in 1..Len(sps) : Holds(sps[r], i)
    <3>1. CASE At(i) < first
      <4>1. first \in Nat
        BY <2>3, <2>5, <2>7, <2>8
      <4>2. At(1) < first
        BY <2>10, <3>1, <4>1 DEF At
      <4>3. c = 1 /\ sps[1].from = At(1) /\ sps[1].to = first
        BY <2>9, <4>2
      <4>4. 1 \in 1..Len(sps)
        BY <2>3, <2>9, <4>3
      <4>5. Holds(sps[1], i)
        BY <2>10, <3>1, <4>3 DEF Holds
      <4> QED
        BY <4>4, <4>5
    <3>2. CASE ~(At(i) < first)
      <4>1. n # 0 /\ anchs[1].position <= At(i)
        BY <2>3, <2>8, <2>10, <3>2
      <4>2. PICK B : B = {k \in 1..n : anchs[k].position <= At(i)}
        OBVIOUS
      <4>3. 1 \in B /\ B \in SUBSET (0..n)
        BY <2>3, <4>1, <4>2
      <4>4. PICK k : k = Max(B)
        OBVIOUS
      <4>5. k \in B /\ \A m \in B : m <= k
        BY <2>3, <4>3, <4>4, GreatestIn
      <4>6. k \in 1..n /\ anchs[k].position <= At(i)
        BY <4>2, <4>5
      <4>7. k < n => At(i) < anchs[k + 1].position
        <5> SUFFICES ASSUME k < n, ~(At(i) < anchs[k + 1].position) PROVE FALSE
          OBVIOUS
        <5>1. k + 1 \in 1..n /\ ~(k + 1 <= k)
          BY <2>3, <4>6
        <5>2. k + 1 \in B
          BY <2>3, <2>10, <4>2, <5>1
        <5> QED
          BY <4>5, <5>1, <5>2
      <4>8. Holds(sps[k + c], i)
        BY <2>9, <2>10, <4>6, <4>7 DEF Holds
      <4>9. k + c \in 1..Len(sps)
        BY <2>3, <2>9, <4>6
      <4> QED
        BY <4>8, <4>9
    <3> QED
      BY <3>1, <3>2
  <2>12. ASSUME NEW q \in 1..Len(sps), NEW r \in 1..Len(sps), q < r,
                NEW i \in Indices(d), NEW j \in Indices(d), Holds(sps[q], i), Holds(sps[r], j)
         PROVE  i < j
    <3>1. q \in 1..(n + c) /\ r \in 1..(n + c)
      BY <2>9
    <3>2. PICK m : m = r - c
      OBVIOUS
    <3>3. m \in 1..n /\ sps[r].from = anchs[m].position
      <4>1. m \in 1..n /\ m + c = r
        BY <2>3, <2>9, <2>12, <3>1, <3>2
      <4> QED
        BY <2>9, <4>1
    <3>4. At(i) < anchs[m].position
      <4>1. CASE c = 1 /\ q = 1
        <5>1. At(i) < first
          BY <2>9, <2>12, <4>1 DEF Holds
        <5>2. first = anchs[1].position /\ 1 \in 1..n /\ 1 <= m
          BY <2>3, <2>8, <3>3
        <5>3. anchs[1].position <= anchs[m].position /\ anchs[1].position \in Nat /\ anchs[m].position \in Nat
          BY <2>3, <3>3, <5>2
        <5> QED
          BY <2>10, <5>1, <5>2, <5>3, SMTT(20)
      <4>2. CASE ~(c = 1 /\ q = 1)
        <5>1. PICK k : k = q - c
          OBVIOUS
        <5>2. k \in 1..n /\ k + c = q /\ k < m /\ k + 1 \in 1..n /\ k + 1 <= m /\ k < n
          BY <2>3, <2>9, <2>12, <3>1, <3>2, <3>3, <4>2, <5>1
        <5>3. At(i) < anchs[k + 1].position
          BY <2>9, <2>12, <5>2 DEF Holds
        <5>4. anchs[k + 1].position <= anchs[m].position /\ anchs[k + 1].position \in Nat /\ anchs[m].position \in Nat
          BY <2>3, <3>3, <5>2
        <5> QED
          BY <2>10, <5>3, <5>4, SMTT(20)
      <4> QED
        BY <4>1, <4>2
    <3>5. anchs[m].position <= At(j) /\ anchs[m].position \in Nat
      BY <2>3, <2>12, <3>3 DEF Holds
    <3> QED
      BY <2>10, <3>4, <3>5
  <2> QED
    BY <1>1, <2>9, <2>11, <2>12 DEF SpansTile
<1> QED
  BY <1>2, <1>3

-----------------------------------------------------------------------------
(* The words of the regions.                                               *)

\* The words of lines, one after the other.
TextOfLine == [i \in Indices(doc) |-> TextLine(i)]

LEMMA TextMapped ==
  ASSUME IsDocument(doc), NEW lines \in Seq(Indices(doc))
  PROVE  /\ Maps(TextOfLine, Indices(doc), Seq(Indices(doc)))
         /\ TextLines(lines) = Mapped(TextOfLine, lines)
<1>1. ASSUME NEW i \in Indices(doc) PROVE TextOfLine[i] \in Seq(Indices(doc)) /\ TextOfLine[i] = TextLine(i)
  <2>1. doc.lines[i].words \in Nat
    BY DEF IsDocument
  <2>2. TextLine(i) \in Seq(Indices(doc))
    BY <2>1 DEF TextLine
  <2> QED
    BY <2>2 DEF TextOfLine
<1>2. \A n \in DOMAIN lines : lines[n] \in Indices(doc)
  OBVIOUS
<1>3. [n \in DOMAIN lines |-> TextLine(lines[n])] = ImageOf(TextOfLine, lines)
  BY <1>1, <1>2 DEF ImageOf
<1> QED
  BY <1>1, <1>3 DEF Maps, Mapped, TextLines

LEMMA TextThrough ==
  ASSUME IsDocument(doc), NEW seqs \in Seq(Seq(Indices(doc)))
  PROVE  TextLines(FlattenSeq(seqs)) = FlattenSeq([k \in DOMAIN seqs |-> TextLines(seqs[k])])
<1>1. Maps(TextOfLine, Indices(doc), Seq(Indices(doc)))
  <2>1. <<>> \in Seq(Indices(doc))
    OBVIOUS
  <2> QED
    BY <2>1, TextMapped
<1>2. Mapped(TextOfLine, FlattenSeq(seqs)) = FlattenSeq([k \in DOMAIN seqs |-> Mapped(TextOfLine, seqs[k])])
  BY <1>1, MappedThrough
<1>3. FlattenSeq(seqs) \in Seq(Indices(doc))
  BY FlattenIs
<1>4. TextLines(FlattenSeq(seqs)) = Mapped(TextOfLine, FlattenSeq(seqs))
  BY <1>3, TextMapped
<1>5. \A k \in DOMAIN seqs : TextLines(seqs[k]) = Mapped(TextOfLine, seqs[k])
  <2>1. \A k \in DOMAIN seqs : seqs[k] \in Seq(Indices(doc))
    OBVIOUS
  <2> QED
    BY <2>1, TextMapped
<1>6. [k \in DOMAIN seqs |-> TextLines(seqs[k])] = [k \in DOMAIN seqs |-> Mapped(TextOfLine, seqs[k])]
  BY <1>5
<1> QED
  BY <1>2, <1>4, <1>6

\* A region's units and their words.
LaidRegion(r) ==
  /\ regions[r] = Laid(RegionAt(r)) /\ Len(regions) = Len(spans)
  /\ TakenAt(r) \in SUBSET Indices(doc)
  /\ RegionAt(r) \in Seq(UnitOf(doc, TakenAt(r))) /\ Len(regions[r]) = Len(RegionAt(r))
  /\ WordLines(r) \in Seq(Indices(doc)) /\ WordsBetween(r, RegionAt(r), regions[r])

LEMMA RegionIsLaid ==
  ASSUME SourceInv, stage \in {"packing", "loaded"}, NEW r, r \in 1..Len(spans) \/ r \in 1..Len(regions)
  PROVE  LaidRegion(r) /\ r \in 1..Len(spans)
<1>1. /\ IsDocument(doc) /\ UnderTheirSection(doc, anchors, spans)
      /\ regions = [s \in DOMAIN spans |-> Laid(RegionAt(s))]
  BY DEF SourceInv, StageOK
<1>2. DOMAIN spans = 1..Len(spans) /\ Len(regions) = Len(spans)
  <2>1. spans \in Seq(ToSet(spans))
    BY <1>1 DEF UnderTheirSection, IsSeq
  <2>2. Len(regions) = Len(spans)
    BY <1>1, LaidRegions
  <2> QED
    BY <2>1, <2>2
<1>3. r \in 1..Len(spans)
  BY <1>2
<1>4. PICK S, units : S = TakenAt(r) /\ units = RegionAt(r)
  OBVIOUS
<1>5. S \in SUBSET Indices(doc)
  BY <1>4 DEF TakenAt, Taken
<1>6. units \in Seq(UnitOf(doc, S))
  BY <1>1, <1>4, RegionUnitsType DEF RegionAt, TakenAt
<1>7. regions[r] = Laid(units)
  BY <1>1, <1>2, <1>3, <1>4
<1>8. WordLines(r) \in Seq(S) /\ WordsBetween(r, units, Laid(units))
  BY <1>1, <1>5, <1>6, <1>7, WordLinesAre
<1>9. WordLines(r) \in Seq(Indices(doc))
  BY <1>5, <1>8
<1>10. Len(Laid(units)) = Len(units)
  BY <1>1, <1>5, <1>6, LaidIs
<1> QED
  BY <1>2, <1>3, <1>4, <1>5, <1>6, <1>7, <1>8, <1>9, <1>10 DEF LaidRegion

\* What is placed is of words of its region.
LEMMA PlacedWithin ==
  ASSUME SourceInv, stage \in {"packing", "loaded"}, NEW r, NEW u \in ChunkUnit, FromRegion(r, u)
  PROVE  /\ WordLines(r) \in Seq(Indices(doc))
         /\ u.from \in Nat /\ u.upto \in Nat /\ u.from < u.upto /\ u.upto <= Len(WordLines(r))
         /\ WordsOf(r, u) \in Seq(Indices(doc))
<1>1. PICK k \in 1..Len(regions[r]) : PieceOf(u, regions[r][k])
  BY DEF FromRegion
<1>2. LaidRegion(r)
  BY RegionIsLaid DEF FromRegion
<1>3. PICK words, laid : words = WordLines(r) /\ laid = regions[r]
  OBVIOUS
<1>4. words \in Seq(Indices(doc)) /\ laid[k].upto <= Len(words)
  BY <1>2, <1>3 DEF LaidRegion, WordsBetween
<1>5. laid[k].upto \in Nat /\ laid[k].from \in Nat
  <2>1. regions \in Seq(Seq(ChunkUnit)) /\ r \in 1..Len(regions)
    BY DEF SourceInv, PackOK, PackType, FromRegion
  <2>2. regions[r] \in Seq(ChunkUnit)
    BY <2>1
  <2>3. laid[k] \in ChunkUnit
    BY <1>3, <2>2
  <2> QED
    BY <2>3 DEF ChunkUnit
<1>6. PICK a, b : a = u.from /\ b = u.upto
  OBVIOUS
<1>7. a \in Nat /\ b \in Nat /\ a < b
  BY <1>6 DEF ChunkUnit
<1>8. b <= laid[k].upto
  BY <1>1, <1>3, <1>6 DEF PieceOf
<1>9. Len(words) \in Nat /\ b <= Len(words)
  BY <1>4, <1>5, <1>7, <1>8
<1>10. SubSeq(words, a + 1, b) \in Seq(Indices(doc))
  <2>1. a + 1 \in 1..(Len(words) + 1) /\ b \in ((a + 1) - 1)..Len(words)
    BY <1>7, <1>9
  <2> QED
    BY <1>4, <2>1, Piece
<1> QED
  BY <1>3, <1>4, <1>6, <1>7, <1>9, <1>10 DEF WordsOf

\* The words of a region are those of its units' lines.
LEMMA RegionText ==
  ASSUME SourceInv, stage \in {"packing", "loaded"}, NEW r \in 1..Len(spans)
  PROVE  /\ LinesIn(RegionAt(r)) \in Seq(Indices(doc))
         /\ WordLines(r) = TextLines(LinesIn(RegionAt(r)))
<1>1. LaidRegion(r) /\ IsDocument(doc)
  BY RegionIsLaid DEF SourceInv, StageOK
<1>2. PICK S, units, n : S = TakenAt(r) /\ units = RegionAt(r) /\ n = Len(units)
  OBVIOUS
<1>3. S \in SUBSET Indices(doc) /\ units \in Seq(UnitOf(doc, S)) /\ regions[r] = Laid(units)
  BY <1>1, <1>2 DEF LaidRegion
<1>4. n \in Nat /\ DOMAIN units = 1..n /\ \A k \in 1..n : units[k] \in UnitOf(doc, S)
  BY <1>2, <1>3
<1>5. PICK laid : laid = Laid(units)
  OBVIOUS
<1>6. DOMAIN laid = 1..n /\ \A k \in 1..n : laid[k].lines = units[k].lines
  <2>1. /\ laid \in Seq(ChunkUnit) /\ Len(laid) = n
        /\ \A k \in 1..n :
             LaidAs(laid[k], units[k], Total(UnitCounts(units), k - 1), Total(UnitCounts(units), k))
    BY <1>1, <1>2, <1>3, <1>5, LaidIs
  <2> QED
    BY <2>1 DEF LaidAs
<1>7. PICK seqs : seqs = [k \in 1..n |-> units[k].lines]
  OBVIOUS
<1>8. seqs \in Seq(Seq(Indices(doc))) /\ DOMAIN seqs = 1..n
  <2>1. ASSUME NEW k \in 1..n PROVE seqs[k] \in Seq(Indices(doc))
    <3>1. seqs[k] \in Seq(S)
      BY <1>4, <1>7, UnitHas
    <3> QED
      BY <1>3, <3>1
  <2>2. seqs = [k \in 1..n |-> seqs[k]]
    BY <1>7
  <2> QED
    BY <1>4, <2>1, <2>2, MadeList
<1>9. LinesIn(units) = FlattenSeq(seqs)
  BY <1>4, <1>7 DEF LinesIn
<1>10. FlattenSeq(seqs) \in Seq(Indices(doc))
  BY <1>8, FlattenIs
<1>11. WordLines(r) = FlattenSeq([k \in DOMAIN seqs |-> TextLines(seqs[k])])
  <2>1. WordLines(r) = FlattenSeq([k \in DOMAIN regions[r] |-> TextLines(regions[r][k].lines)])
    BY DEF WordLines, TextLines, TextLine
  <2>2. regions[r] = laid
    BY <1>3, <1>5
  <2>3. [k \in DOMAIN laid |-> TextLines(laid[k].lines)] = [k \in DOMAIN seqs |-> TextLines(seqs[k])]
    BY <1>6, <1>7, <1>8
  <2> QED
    BY <2>1, <2>2, <2>3
<1>12. TextLines(FlattenSeq(seqs)) = FlattenSeq([k \in DOMAIN seqs |-> TextLines(seqs[k])])
  <2>1. seqs \in Seq(Seq(Indices(doc)))
    BY <1>8
  <2> QED
    BY <1>1, <2>1, TextThrough
<1> QED
  BY <1>2, <1>9, <1>10, <1>11, <1>12

-----------------------------------------------------------------------------
(* Nothing that is packed is lost.                                         *)

Said(r, units) == FlattenSeq([n \in DOMAIN units |-> WordsOf(r, units[n])])
SaidBy(made) == FlattenSeq([k \in DOMAIN made |-> Said(made[k].region, made[k].own)])

\* What is from a region, and what it says.
Of(r) == {u \in ChunkUnit : FromRegion(r, u)}
WordsAt(r) == [u \in Of(r) |-> WordsOf(r, u)]

LEMMA SaidIs ==
  ASSUME SourceInv, stage \in {"packing", "loaded"}, NEW r, NEW units \in Seq(ChunkUnit), AllFrom(r, units)
  PROVE  /\ Maps(WordsAt(r), Of(r), Seq(Indices(doc))) /\ units \in Seq(Of(r))
         /\ Said(r, units) = Mapped(WordsAt(r), units) /\ Said(r, units) \in Seq(Indices(doc))
<1>1. Maps(WordsAt(r), Of(r), Seq(Indices(doc)))
  <2>1. ASSUME NEW u \in Of(r) PROVE WordsAt(r)[u] \in Seq(Indices(doc))
    <3>1. u \in ChunkUnit /\ FromRegion(r, u)
      BY DEF Of
    <3>2. WordsOf(r, u) \in Seq(Indices(doc))
      BY <3>1, PlacedWithin
    <3> QED
      BY <3>2 DEF WordsAt
  <2> QED
    BY <2>1 DEF Maps
<1>2. units \in Seq(Of(r))
  <2>1. \A n \in 1..Len(units) : units[n] \in Of(r)
    BY DEF AllFrom, Of
  <2> QED
    BY <2>1
<1>3. \A n \in DOMAIN units : WordsAt(r)[units[n]] = WordsOf(r, units[n])
  BY <1>2 DEF WordsAt
<1>4. Said(r, units) = Mapped(WordsAt(r), units)
  <2>1. [n \in DOMAIN units |-> WordsOf(r, units[n])] = ImageOf(WordsAt(r), units)
    BY <1>3 DEF ImageOf
  <2> QED
    BY <2>1 DEF Said, Mapped
<1>5. Mapped(WordsAt(r), units) \in Seq(Indices(doc))
  BY <1>1, <1>2, MappedIs
<1> QED
  BY <1>1, <1>2, <1>4, <1>5

LEMMA SaidJoins ==
  ASSUME SourceInv, stage \in {"packing", "loaded"}, NEW r,
         NEW one \in Seq(ChunkUnit), NEW two \in Seq(ChunkUnit), AllFrom(r, one), AllFrom(r, two)
  PROVE  Said(r, one \o two) = Said(r, one) \o Said(r, two) /\ AllFrom(r, one \o two)
<1>1. Maps(WordsAt(r), Of(r), Seq(Indices(doc)))
  BY SaidIs
<1>2. one \in Seq(Of(r)) /\ Said(r, one) = Mapped(WordsAt(r), one)
  BY SaidIs
<1>3. two \in Seq(Of(r)) /\ Said(r, two) = Mapped(WordsAt(r), two)
  BY SaidIs
<1>4. Mapped(WordsAt(r), one \o two) = Mapped(WordsAt(r), one) \o Mapped(WordsAt(r), two)
  <2>1. one \in Seq(Of(r)) /\ two \in Seq(Of(r))
    BY <1>2, <1>3
  <2> QED
    BY <1>1, <2>1, MappedConcat
<1>5. PICK both : both = one \o two
  OBVIOUS
<1>6. both \in Seq(Of(r))
  BY <1>2, <1>3, <1>5
<1>7. both \in Seq(ChunkUnit) /\ AllFrom(r, both)
  <2>1. \A n \in 1..Len(both) : both[n] \in Of(r)
    BY <1>6
  <2> QED
    BY <1>5, <2>1 DEF AllFrom, Of
<1>8. Said(r, both) = Mapped(WordsAt(r), both)
  BY <1>7, SaidIs
<1> QED
  BY <1>2, <1>3, <1>4, <1>5, <1>7, <1>8

LEMMA SaidOne ==
  ASSUME SourceInv, stage \in {"packing", "loaded"}, NEW r, NEW u \in ChunkUnit, FromRegion(r, u)
  PROVE  /\ Said(r, <<u>>) = WordsOf(r, u) /\ Said(r, <<>>) = <<>>
         /\ AllFrom(r, <<u>>) /\ AllFrom(r, <<>>)
<1>1. PICK one : one = <<u>>
  OBVIOUS
<1>2. one \in Seq(ChunkUnit) /\ <<>> \in Seq(ChunkUnit)
  BY <1>1
<1>3. AllFrom(r, one) /\ AllFrom(r, <<>>)
  BY <1>1 DEF AllFrom
<1>4. Said(r, one) = Mapped(WordsAt(r), one) /\ Maps(WordsAt(r), Of(r), Seq(Indices(doc)))
  BY <1>2, <1>3, SaidIs
<1>5. Said(r, <<>>) = Mapped(WordsAt(r), <<>>)
  BY <1>2, <1>3, SaidIs
<1>6. u \in Of(r)
  BY DEF Of
<1>7. Mapped(WordsAt(r), <<u>>) = WordsAt(r)[u]
  BY <1>4, <1>6, MappedOne
<1>8. Mapped(WordsAt(r), <<>>) = <<>>
  <2>1. <<>> \in Seq(Of(r))
    OBVIOUS
  <2> QED
    BY <1>4, <2>1, MappedIs
<1> QED
  BY <1>1, <1>3, <1>4, <1>5, <1>6, <1>7, <1>8 DEF WordsAt

\* Each of the lists is where the counts say.
LEMMA FlattenedPiece ==
  ASSUME NEW T, NEW seqs \in Seq(Seq(T)), NEW counts \in Seq(Nat),
         Len(counts) = Len(seqs), \A i \in 1..Len(seqs) : counts[i] = Len(seqs[i]), NEW k \in 1..Len(seqs)
  PROVE  SubSeq(FlattenSeq(seqs), Total(counts, k - 1) + 1, Total(counts, k)) = seqs[k]
<1>1. PICK n, all : n = Len(seqs) /\ all = FlattenSeq(seqs)
  OBVIOUS
<1>2. n \in Nat /\ k \in 1..n /\ seqs[k] \in Seq(T) /\ counts[k] = Len(seqs[k])
  BY <1>1
<1>3. all \in Seq(T) /\ Placed(all, seqs, counts, n)
  BY <1>1, Flattened
<1>4. PICK a, b : a = Total(counts, k - 1) /\ b = Total(counts, k)
  OBVIOUS
<1>5. a \in Nat /\ b \in Nat /\ b = a + counts[k] /\ counts[k] \in Nat
  <2>1. k - 1 \in 0..Len(counts) /\ k \in 0..Len(counts) /\ k \in 1..Len(counts)
    BY <1>1, <1>2
  <2>2. counts[k] \in Nat
    BY <1>2
  <2> QED
    BY <1>4, <2>1, <2>2, TotalIs
<1>6. b <= Len(all)
  <2>1. Len(all) = Total(counts, n)
    BY <1>3 DEF Placed
  <2>2. n \in k..Len(counts) /\ k \in 0..Len(counts)
    BY <1>1, <1>2
  <2> QED
    BY <1>4, <2>1, <2>2, TotalGrows
<1>7. PICK lo : lo = a + 1
  OBVIOUS
<1>8. PICK part : part = SubSeq(all, lo, b)
  OBVIOUS
<1>9. part \in Seq(T) /\ Len(part) = counts[k] /\ \A q \in 1..counts[k] : part[q] = all[a + q]
  <2>1. all \in Seq(T) /\ Len(all) \in Nat
    BY <1>3
  <2>2. lo \in 1..(Len(all) + 1) /\ b \in (lo - 1)..Len(all)
    BY <1>5, <1>6, <1>7, <2>1
  <2>3. /\ part \in Seq(T) /\ Len(part) = b - lo + 1
        /\ \A q \in 1..(b - lo + 1) : part[q] = all[lo + q - 1]
    BY <1>8, <2>1, <2>2, Piece
  <2>4. b - lo + 1 = counts[k] /\ \A q \in 1..counts[k] : lo + q - 1 = a + q
    BY <1>5, <1>7, SMTT(20)
  <2> QED
    BY <2>3, <2>4
<1>10. \A q \in 1..counts[k] : all[a + q] = seqs[k][q]
  BY <1>2, <1>3, <1>4 DEF Placed
<1>11. PICK s : s = seqs[k]
  OBVIOUS
<1>12. s \in Seq(T) /\ Len(s) = counts[k] /\ \A q \in 1..counts[k] : s[q] = part[q]
  BY <1>2, <1>9, <1>10, <1>11
<1>13. s = [q \in 1..counts[k] |-> s[q]] /\ part = [q \in 1..counts[k] |-> part[q]]
  <2>1. DOMAIN s = 1..counts[k] /\ DOMAIN part = 1..counts[k]
    BY <1>9, <1>12
  <2> QED
    BY <1>9, <1>12, <2>1
<1>14. s = part
  BY <1>12, <1>13
<1> QED
  BY <1>1, <1>4, <1>7, <1>8, <1>11, <1>14

\* A region's units say all its words.
LEMMA RegionIsSaid ==
  ASSUME SourceInv, stage \in {"packing", "loaded"}, NEW r \in 1..Len(spans)
  PROVE  Said(r, regions[r]) = WordLines(r)
<1>1. LaidRegion(r) /\ IsDocument(doc)
  BY RegionIsLaid DEF SourceInv, StageOK
<1>2. PICK S, units, n : S = TakenAt(r) /\ units = RegionAt(r) /\ n = Len(units)
  OBVIOUS
<1>3. S \in SUBSET Indices(doc) /\ units \in Seq(UnitOf(doc, S)) /\ regions[r] = Laid(units)
  BY <1>1, <1>2 DEF LaidRegion
<1>4. n \in Nat /\ DOMAIN units = 1..n /\ \A k \in 1..n : units[k] \in UnitOf(doc, S)
  BY <1>2, <1>3
<1>5. PICK laid, counts : laid = Laid(units) /\ counts = UnitCounts(units)
  OBVIOUS
<1>6. /\ laid \in Seq(ChunkUnit) /\ Len(laid) = n /\ DOMAIN laid = 1..n
      /\ \A k \in 1..n : /\ laid[k].lines = units[k].lines
                         /\ laid[k].from = Total(counts, k - 1) /\ laid[k].upto = Total(counts, k)
  <2>1. /\ laid \in Seq(ChunkUnit) /\ Len(laid) = n
        /\ \A k \in 1..n : LaidAs(laid[k], units[k], Total(counts, k - 1), Total(counts, k))
    BY <1>1, <1>2, <1>3, <1>5, LaidIs
  <2> QED
    BY <2>1 DEF LaidAs
<1>7. counts \in Seq(Nat) /\ Len(counts) = n
      /\ \A k \in 1..n : counts[k] = LineWords(units[k].lines, Len(units[k].lines))
  BY <1>1, <1>2, <1>3, <1>5, UnitCountsAre
<1>8. PICK seqs : seqs = [k \in 1..n |-> TextLines(units[k].lines)]
  OBVIOUS
<1>9. ASSUME NEW k \in 1..n PROVE seqs[k] \in Seq(S) /\ Len(seqs[k]) = counts[k]
  <2>1. units[k] \in UnitOf(doc, S)
    BY <1>4
  <2>2. PICK lines : lines = units[k].lines
    OBVIOUS
  <2>3. lines \in Seq(S)
    BY <2>1, <2>2, UnitHas
  <2>4. TextLines(lines) \in Seq(S) /\ Len(TextLines(lines)) = LineWords(lines, Len(lines))
    BY <1>1, <1>3, <2>3, TextLinesAre
  <2> QED
    BY <1>7, <1>8, <2>2, <2>4
<1>10. seqs \in Seq(Seq(S)) /\ Len(seqs) = n
  <2>1. seqs = [k \in 1..n |-> seqs[k]]
    BY <1>8
  <2> QED
    BY <1>4, <1>9, <2>1, MadeList
<1>11. PICK words : words = WordLines(r)
  OBVIOUS
<1>12. words = FlattenSeq(seqs)
  <2>1. WordLines(r) = FlattenSeq([k \in DOMAIN regions[r] |-> TextLines(regions[r][k].lines)])
    BY DEF WordLines, TextLines, TextLine
  <2>2. regions[r] = laid
    BY <1>3, <1>5
  <2>3. [k \in DOMAIN laid |-> TextLines(laid[k].lines)] = [k \in 1..n |-> TextLines(units[k].lines)]
    BY <1>6
  <2> QED
    BY <1>8, <1>11, <2>1, <2>2, <2>3
<1>13. ASSUME NEW k \in 1..n PROVE WordsOf(r, laid[k]) = seqs[k]
  <2>1. SubSeq(FlattenSeq(seqs), Total(counts, k - 1) + 1, Total(counts, k)) = seqs[k]
    <3>1. seqs \in Seq(Seq(S)) /\ counts \in Seq(Nat)
      BY <1>7, <1>10
    <3>2. Len(counts) = Len(seqs) /\ k \in 1..Len(seqs) /\ \A i \in 1..Len(seqs) : counts[i] = Len(seqs[i])
      BY <1>7, <1>9, <1>10
    <3> QED
      BY <3>1, <3>2, FlattenedPiece
  <2>2. laid[k].from = Total(counts, k - 1) /\ laid[k].upto = Total(counts, k)
    BY <1>6
  <2> QED
    BY <1>11, <1>12, <2>1, <2>2 DEF WordsOf
<1>14. [k \in DOMAIN laid |-> WordsOf(r, laid[k])] = seqs
  BY <1>6, <1>8, <1>13
<1>15. regions[r] = laid
  BY <1>3, <1>5
<1> QED
  BY <1>11, <1>12, <1>14, <1>15 DEF Said

\* A unit that is split says what its pieces say.
LEMMA PiecesSay ==
  ASSUME SourceInv, stage \in {"packing", "loaded"}, NEW r, NEW u \in ChunkUnit, FromRegion(r, u),
         NEW first, NEW rest, NEW at \in Nat, u.from < at, at < u.upto,
         first.from = u.from, first.upto = at, rest.from = at, rest.upto = u.upto
  PROVE  WordsOf(r, first) \o WordsOf(r, rest) = WordsOf(r, u)
<1>1. PICK words, a, b : words = WordLines(r) /\ a = u.from /\ b = u.upto
  OBVIOUS
<1>2. words \in Seq(Indices(doc)) /\ a \in Nat /\ b \in Nat /\ a < b /\ b <= Len(words)
  BY <1>1, PlacedWithin
<1>3. Len(words) \in Nat
  BY <1>2
<1>4. a + 1 \in 1..(Len(words) + 1) /\ at \in ((a + 1) - 1)..Len(words) /\ b \in at..Len(words)
  BY <1>1, <1>2, <1>3
<1>5. SubSeq(words, a + 1, at) \o SubSeq(words, at + 1, b) = SubSeq(words, a + 1, b)
  BY <1>2, <1>4, Pieces
<1> QED
  BY <1>1, <1>5 DEF WordsOf

\* The words of the first m regions.
RegionsText(m) == FlattenSeq([r \in 1..m |-> WordLines(r)])

\* What is packed, placed and waiting is what the regions up to here say.
Balanced(made, r, placed, waiting) ==
  SaidBy(made) \o (Said(r, placed) \o Said(r, waiting)) = RegionsText(r)

NothingLost ==
  /\ stage = "packing" => Balanced(parts, region, own, queue)
  /\ stage = "loaded" => SaidBy(parts) = RegionsText(Len(regions))

\* The parts whose units are their region's, and what each says.
PackedPart == {p \in ChunkPart : AllFrom(p.region, p.own)}
SaidAt == [p \in PackedPart |-> Said(p.region, p.own)]

LEMMA SaidByIs ==
  ASSUME SourceInv, stage \in {"packing", "loaded"}, NEW made \in Seq(PackedPart)
  PROVE  /\ Maps(SaidAt, PackedPart, Seq(Indices(doc)))
         /\ SaidBy(made) = Mapped(SaidAt, made) /\ SaidBy(made) \in Seq(Indices(doc))
<1>1. ASSUME NEW p \in PackedPart PROVE SaidAt[p] \in Seq(Indices(doc)) /\ SaidAt[p] = Said(p.region, p.own)
  <2>1. p.own \in Seq(ChunkUnit) /\ AllFrom(p.region, p.own)
    BY DEF PackedPart, ChunkPart
  <2>2. Said(p.region, p.own) \in Seq(Indices(doc))
    BY <2>1, SaidIs
  <2> QED
    BY <2>2 DEF SaidAt
<1>2. Maps(SaidAt, PackedPart, Seq(Indices(doc)))
  BY <1>1 DEF Maps
<1>3. \A k \in DOMAIN made : made[k] \in PackedPart
  OBVIOUS
<1>4. [k \in DOMAIN made |-> Said(made[k].region, made[k].own)] = ImageOf(SaidAt, made)
  BY <1>1, <1>3 DEF ImageOf
<1>5. SaidBy(made) = Mapped(SaidAt, made)
  BY <1>4 DEF SaidBy, Mapped
<1>6. Mapped(SaidAt, made) \in Seq(Indices(doc))
  BY <1>2, MappedIs
<1> QED
  BY <1>2, <1>5, <1>6

LEMMA PartsAre ==
  ASSUME PackType, FromRegions
  PROVE  parts \in Seq(PackedPart)
<1>1. PICK n : n = Len(parts)
  OBVIOUS
<1>2. parts \in Seq(ChunkPart) /\ n \in Nat /\ \A p \in 1..n : parts[p] \in ChunkPart
  BY <1>1 DEF PackType
<1>3. \A p \in 1..n : parts[p] \in PackedPart
  BY <1>1, <1>2 DEF FromRegions, PackedPart
<1> QED
  BY <1>1, <1>2, <1>3

\* A part that is closed adds what its units say.
LEMMA PartSays ==
  ASSUME SourceInv, stage \in {"packing", "loaded"}, FromRegions,
         NEW units \in Seq(ChunkUnit), AllFrom(region, units)
  PROVE  /\ SaidBy(Append(parts, Part(units))) = SaidBy(parts) \o Said(region, units)
         /\ SaidBy(parts) \in Seq(Indices(doc))
<1>1. PackType
  BY DEF SourceInv, PackOK
<1>2. PICK p : p = Part(units)
  OBVIOUS
<1>3. p.region = region /\ p.own = units /\ p \in ChunkPart
  BY <1>1, <1>2 DEF Part, ChunkPart, PackType
<1>4. p \in PackedPart
  BY <1>3 DEF PackedPart
<1>5. parts \in Seq(PackedPart)
  BY <1>1, PartsAre
<1>6. PICK more : more = Append(parts, p)
  OBVIOUS
<1>7. more \in Seq(PackedPart)
  BY <1>4, <1>5, <1>6
<1>8. Maps(SaidAt, PackedPart, Seq(Indices(doc))) /\ SaidBy(parts) = Mapped(SaidAt, parts)
      /\ SaidBy(parts) \in Seq(Indices(doc))
  BY <1>5, SaidByIs
<1>9. SaidBy(more) = Mapped(SaidAt, more)
  BY <1>7, SaidByIs
<1>10. Mapped(SaidAt, Append(parts, p)) = Mapped(SaidAt, parts) \o SaidAt[p]
  BY <1>4, <1>5, <1>8, MappedAppend
<1>11. SaidAt[p] = Said(region, units)
  BY <1>3, <1>4 DEF SaidAt
<1> QED
  BY <1>2, <1>6, <1>8, <1>9, <1>10, <1>11

LEMMA AllPartsSay ==
  ASSUME SourceInv, stage \in {"packing", "loaded"}, FromRegions
  PROVE  SaidBy(AllParts) = SaidBy(parts) \o Said(region, own)
<1>1. own \in Seq(ChunkUnit) /\ AllFrom(region, own)
  BY DEF SourceInv, PackOK, PackType, FromRegions
<1>2. CASE own = <<>>
  <2>1. Said(region, own) = <<>>
    <3>1. <<>> \in Seq(ChunkUnit) /\ AllFrom(region, <<>>)
      BY <1>1, <1>2
    <3>2. Said(region, <<>>) = Mapped(WordsAt(region), <<>>) /\ Maps(WordsAt(region), Of(region), Seq(Indices(doc)))
      BY <3>1, SaidIs
    <3>3. <<>> \in Seq(Of(region))
      OBVIOUS
    <3>4. Mapped(WordsAt(region), <<>>) = <<>>
      BY <3>2, <3>3, MappedIs
    <3> QED
      BY <1>2, <3>2, <3>4
  <2>2. SaidBy(parts) \in Seq(Indices(doc))
    BY <1>1, PartSays
  <2>3. SaidBy(parts) \o <<>> = SaidBy(parts)
    BY <2>2, ConcatEmptySeq
  <2> QED
    BY <1>2, <2>1, <2>3 DEF AllParts
<1>3. CASE own # <<>>
  BY <1>1, <1>3, PartSays DEF AllParts
<1> QED
  BY <1>2, <1>3

LEMMA NothingSaid ==
  ASSUME NEW r
  PROVE  Said(r, <<>>) = <<>> /\ SaidBy(<<>>) = <<>> /\ RegionsText(0) = <<>>
<1>1. FlattenSeq(<<>>) = <<>>
  <2>1. <<>> \in Seq(Seq(Nat)) /\ <<>> \in Seq(Nat)
    OBVIOUS
  <2> QED
    BY <2>1, FlattenAppend
<1>2. [n \in DOMAIN <<>> |-> WordsOf(r, <<>>[n])] = <<>>
  OBVIOUS
<1>3. [k \in DOMAIN <<>> |-> Said(<<>>[k].region, <<>>[k].own)] = <<>>
  OBVIOUS
<1>4. [q \in 1..0 |-> WordLines(q)] = <<>>
  OBVIOUS
<1> QED
  BY <1>1, <1>2, <1>3, <1>4 DEF Said, SaidBy, RegionsText

\* One more region.
LEMMA RegionsTextOn ==
  ASSUME SourceInv, stage \in {"packing", "loaded"}, NEW m \in Nat, m < Len(regions)
  PROVE  RegionsText(m + 1) = RegionsText(m) \o Said(m + 1, regions[m + 1])
<1>1. PICK n : n = Len(regions)
  OBVIOUS
<1>2. n \in Nat /\ m < n
  BY <1>1 DEF SourceInv, PackOK, PackType
<1>3. \A r \in 1..n : LaidRegion(r) /\ r \in 1..Len(spans)
  BY <1>1, RegionIsLaid
<1>4. PICK f : f = [r \in 1..n |-> WordLines(r)]
  OBVIOUS
<1>5. Maps(f, 1..n, Seq(Indices(doc)))
  BY <1>3, <1>4 DEF Maps, LaidRegion
<1>6. ASSUME NEW k \in 0..n PROVE ImageOf(f, [r \in 1..k |-> r]) = [r \in 1..k |-> WordLines(r)]
  <2>1. \A r \in 1..k : r \in 1..n
    BY <1>2
  <2> QED
    BY <1>4, <2>1 DEF ImageOf
<1>7. ASSUME NEW k \in 0..n PROVE RegionsText(k) = Mapped(f, [r \in 1..k |-> r])
  BY <1>6 DEF RegionsText, Mapped
<1>8. PICK e : e = m + 1
  OBVIOUS
<1>9. PICK list, more : list = [r \in 1..m |-> r] /\ more = [r \in 1..e |-> r]
  OBVIOUS
<1>10. e \in 1..n /\ m \in 0..n /\ e \in 0..n
  BY <1>2, <1>8
<1>11. list \in Seq(1..n) /\ Len(list) = m /\ \A r \in 1..m : list[r] = r
  BY <1>2, <1>9
<1>12. more = Append(list, e)
  <2>1. PICK l : l = Append(list, e)
    OBVIOUS
  <2>2. list \in Seq(Nat) /\ e \in Nat
    BY <1>10, <1>11
  <2>3. l \in Seq(Nat) /\ Len(l) = e /\ l[e] = e /\ \A r \in 1..m : l[r] = list[r]
    BY <1>8, <1>11, <2>1, <2>2, AppendProperties
  <2>4. \A r \in 1..e : l[r] = r
    BY <1>8, <1>11, <2>3
  <2>5. l = [r \in 1..e |-> l[r]]
    <3>1. l = [r \in DOMAIN l |-> l[r]] /\ DOMAIN l = 1..Len(l)
      BY <2>3, ListMade
    <3> QED
      BY <2>3, <3>1
  <2>6. [r \in 1..e |-> l[r]] = [r \in 1..e |-> r]
    BY <2>4
  <2>7. more = [r \in 1..e |-> r]
    BY <1>9
  <2> QED
    BY <2>1, <2>5, <2>6, <2>7, Zenon
<1>13. Mapped(f, Append(list, e)) = Mapped(f, list) \o f[e]
  <2>1. PICK A, T : A = 1..n /\ T = Indices(doc)
    OBVIOUS
  <2>2. Maps(f, A, Seq(T))
    BY <1>5, <2>1
  <2>3. list \in Seq(A) /\ e \in A
    BY <1>10, <1>11, <2>1
  <2> QED
    BY <2>2, <2>3, MappedAppend
<1>14. f[e] = WordLines(e)
  BY <1>4, <1>10
<1>15. Said(e, regions[e]) = WordLines(e)
  <2>1. e \in 1..Len(spans)
    BY <1>3, <1>10
  <2> QED
    BY <2>1, RegionIsSaid
<1>16. RegionsText(m) = Mapped(f, list) /\ RegionsText(e) = Mapped(f, more)
  BY <1>7, <1>9, <1>10
<1>17. RegionsText(e) = RegionsText(m) \o Said(e, regions[e])
  BY <1>12, <1>13, <1>14, <1>15, <1>16, Zenon
<1> QED
  BY <1>8, <1>17, Zenon

LEMMA PlaceBalanced ==
  ASSUME SourceInv, stage = "packing", FromRegions, Balanced(parts, region, own, queue), Place
  PROVE  Balanced(parts', region', own', queue')
<1>1. PICK u, rest : u = Head(queue) /\ rest = Tail(queue)
  OBVIOUS
<1>2. queue \in Seq(ChunkUnit) /\ own \in Seq(ChunkUnit) /\ queue # <<>>
  BY DEF SourceInv, PackOK, PackType, Place
<1>3. AllFrom(region, queue) /\ AllFrom(region, own)
  BY DEF FromRegions
<1>4. u \in ChunkUnit /\ FromRegion(region, u) /\ rest \in Seq(ChunkUnit) /\ AllFrom(region, rest)
  BY <1>1, <1>2, <1>3, AllFromTail
<1>5. PICK one : one = <<u>>
  OBVIOUS
<1>6. one \in Seq(ChunkUnit) /\ AllFrom(region, one)
  BY <1>4, <1>5, SaidOne
<1>7. queue = one \o rest /\ Append(own, u) = own \o one
  BY <1>1, <1>2, <1>4, <1>5
<1>8. Said(region, queue) = Said(region, one) \o Said(region, rest)
  BY <1>4, <1>6, <1>7, SaidJoins
<1>9. Said(region, Append(own, u)) = Said(region, own) \o Said(region, one)
  BY <1>2, <1>3, <1>6, <1>7, SaidJoins
<1>10. PICK a, b, c : a = Said(region, own) /\ b = Said(region, one) /\ c = Said(region, rest)
  OBVIOUS
<1>11. a \in Seq(Indices(doc)) /\ b \in Seq(Indices(doc)) /\ c \in Seq(Indices(doc))
  BY <1>2, <1>3, <1>4, <1>6, <1>10, SaidIs
<1>12. a \o (b \o c) = (a \o b) \o c
  BY <1>11, ConcatAssociative, SMTT(20)
<1>13. parts' = parts /\ region' = region /\ own' = Append(own, u) /\ queue' = rest
  BY <1>1 DEF Place
<1>14. Said(region, own) \o Said(region, queue) = Said(region, Append(own, u)) \o Said(region, rest)
  BY <1>8, <1>9, <1>10, <1>12
<1> QED
  BY <1>13, <1>14 DEF Balanced

LEMMA CloseBalanced ==
  ASSUME SourceInv, stage = "packing", FromRegions, Balanced(parts, region, own, queue), Close
  PROVE  Balanced(parts', region', own', queue')
<1>1. /\ parts' = Append(parts, Part(own)) /\ own' = <<>> /\ queue' = queue /\ region' = region
  BY DEF Close, StartChunk
<1>2. queue \in Seq(ChunkUnit) /\ own \in Seq(ChunkUnit) /\ AllFrom(region, queue) /\ AllFrom(region, own)
  BY DEF SourceInv, PackOK, PackType, FromRegions
<1>3. PICK s, a, c : s = SaidBy(parts) /\ a = Said(region, own) /\ c = Said(region, queue)
  OBVIOUS
<1>4. a \in Seq(Indices(doc)) /\ c \in Seq(Indices(doc))
  BY <1>2, <1>3, SaidIs
<1>5. SaidBy(Append(parts, Part(own))) = s \o a /\ s \in Seq(Indices(doc))
  BY <1>2, <1>3, PartSays
<1>6. s \o (a \o c) = (s \o a) \o c
  BY <1>4, <1>5, ConcatAssociative
<1>7. Said(region, <<>>) = <<>>
  BY NothingSaid
<1>8. <<>> \o c = c
  BY <1>4, ConcatEmptySeq
<1>9. s \o (a \o c) = RegionsText(region)
  BY <1>3 DEF Balanced
<1>10. SaidBy(Append(parts, Part(own))) \o (Said(region, <<>>) \o Said(region, queue)) = RegionsText(region)
  BY <1>3, <1>5, <1>6, <1>7, <1>8, <1>9
<1> QED
  BY <1>1, <1>10 DEF Balanced

LEMMA RegionBalanced ==
  ASSUME SourceInv, stage = "packing", FromRegions, Balanced(parts, region, own, queue), NextRegion
  PROVE  Balanced(parts', region', own', queue')
<1>1. /\ parts' = AllParts /\ own' = <<>> /\ queue' = regions[region + 1] /\ region' = region + 1
      /\ queue = <<>> /\ region < Len(regions)
  BY DEF NextRegion, AllParts
<1>2. region \in Nat
  BY DEF SourceInv, PackOK, PackType
<1>3. own \in Seq(ChunkUnit) /\ AllFrom(region, own)
  BY DEF SourceInv, PackOK, PackType, FromRegions
<1>4. PICK a, c : a = Said(region, own) /\ c = Said(region + 1, regions[region + 1])
  OBVIOUS
<1>5. a \in Seq(Indices(doc))
  BY <1>3, <1>4, SaidIs
<1>6. Said(region, <<>>) = <<>> /\ Said(region + 1, <<>>) = <<>>
  BY NothingSaid
<1>7. a \o <<>> = a
  BY <1>5, ConcatEmptySeq
<1>8. SaidBy(parts) \o a = RegionsText(region)
  BY <1>1, <1>4, <1>6, <1>7 DEF Balanced
<1>9. SaidBy(AllParts) = RegionsText(region)
  BY <1>4, <1>8, AllPartsSay
<1>10. RegionsText(region + 1) = RegionsText(region) \o c
  BY <1>1, <1>2, <1>4, RegionsTextOn
<1>11. <<>> \o c = c
  <2>1. region + 1 \in 1..Len(regions)
    <3>1. region \in Nat /\ Len(regions) \in Nat
      BY DEF SourceInv, PackOK, PackType
    <3> QED
      BY <1>1, <3>1
  <2>2. LaidRegion(region + 1) /\ region + 1 \in 1..Len(spans)
    BY <2>1, RegionIsLaid
  <2>3. c = WordLines(region + 1)
    BY <1>4, <2>2, RegionIsSaid
  <2>4. c \in Seq(Indices(doc))
    BY <2>2, <2>3 DEF LaidRegion
  <2> QED
    BY <2>4, ConcatEmptySeq
<1>12. SaidBy(AllParts) \o (Said(region + 1, <<>>) \o Said(region + 1, regions[region + 1])) = RegionsText(region + 1)
  BY <1>4, <1>6, <1>9, <1>10, <1>11
<1> QED
  BY <1>1, <1>12 DEF Balanced

LEMMA SplitBalanced ==
  ASSUME SourceInv, stage = "packing", FromRegions, Balanced(parts, region, own, queue), Split
  PROVE  Balanced(parts', region', own', queue')
<1>1. PackType /\ Room
  BY DEF SourceInv, PackOK
<1>2. PICK unit, at, first, rest : SplitInto(unit, at, first, rest)
  BY <1>1, SplitPieces
<1>3. /\ unit \in ChunkUnit /\ first \in ChunkUnit /\ rest \in ChunkUnit /\ at \in Nat
      /\ PiecesOf(unit, at, first, rest)
      /\ queue \in Seq(ChunkUnit) /\ queue # <<>> /\ unit = Head(queue) /\ own = <<>>
      /\ parts' = Append(parts, Part(<<first>>)) /\ queue' = <<rest>> \o Tail(queue)
      /\ own' = <<>> /\ region' = region
  BY <1>2 DEF SplitInto
<1>4. PICK after : after = Tail(queue)
  OBVIOUS
<1>5. FromRegion(region, unit) /\ AllFrom(region, after) /\ after \in Seq(ChunkUnit)
  BY <1>3, <1>4, AllFromTail DEF FromRegions
<1>6. FromRegion(region, first) /\ FromRegion(region, rest)
  BY <1>1, <1>3, <1>5, PiecesFrom
<1>7. WordsOf(region, first) \o WordsOf(region, rest) = WordsOf(region, unit)
  BY <1>3, <1>5, PiecesSay DEF PiecesOf
<1>8. PICK u, f, l : u = <<unit>> /\ f = <<first>> /\ l = <<rest>>
  OBVIOUS
<1>9. u \in Seq(ChunkUnit) /\ f \in Seq(ChunkUnit) /\ l \in Seq(ChunkUnit)
  BY <1>3, <1>8
<1>10. /\ Said(region, u) = WordsOf(region, unit) /\ AllFrom(region, u)
       /\ Said(region, f) = WordsOf(region, first) /\ AllFrom(region, f)
       /\ Said(region, l) = WordsOf(region, rest) /\ AllFrom(region, l)
  BY <1>3, <1>5, <1>6, <1>8, SaidOne
<1>11. queue = u \o after
  BY <1>3, <1>4, <1>8
<1>12. Said(region, queue) = Said(region, u) \o Said(region, after)
  BY <1>5, <1>9, <1>10, <1>11, SaidJoins
<1>13. Said(region, l \o after) = Said(region, l) \o Said(region, after)
  BY <1>5, <1>9, <1>10, SaidJoins
<1>14. SaidBy(Append(parts, Part(f))) = SaidBy(parts) \o Said(region, f)
       /\ SaidBy(parts) \in Seq(Indices(doc))
  BY <1>9, <1>10, PartSays
<1>15. PICK s, a, b, c : /\ s = SaidBy(parts) /\ a = Said(region, f) /\ b = Said(region, l)
                         /\ c = Said(region, after)
  OBVIOUS
<1>16. /\ s \in Seq(Indices(doc)) /\ a \in Seq(Indices(doc)) /\ b \in Seq(Indices(doc))
       /\ c \in Seq(Indices(doc))
  BY <1>5, <1>9, <1>10, <1>14, <1>15, SaidIs
<1>17. s \o ((a \o b) \o c) = (s \o a) \o (b \o c)
  <2>1. PICK d : d = b \o c
    OBVIOUS
  <2>2. d \in Seq(Indices(doc))
    BY <1>16, <2>1
  <2>3. (a \o b) \o c = a \o d
    <3>1. (a \o b) \o c = a \o (b \o c)
      BY <1>16, ConcatAssociative
    <3> QED
      BY <2>1, <3>1, Zenon
  <2>4. s \o (a \o d) = (s \o a) \o d
    BY <1>16, <2>2, ConcatAssociative, SMTT(20)
  <2> QED
    BY <2>1, <2>3, <2>4, Zenon
<1>18. Said(region, <<>>) = <<>>
  BY NothingSaid
<1>19. Said(region, queue) = (a \o b) \o c
  BY <1>7, <1>10, <1>12, <1>15
<1>20. <<>> \o Said(region, queue) = Said(region, queue) /\ <<>> \o (b \o c) = b \o c
  <2>1. (a \o b) \o c \in Seq(Indices(doc)) /\ b \o c \in Seq(Indices(doc))
    BY <1>16
  <2> QED
    BY <1>19, <2>1, ConcatEmptySeq
<1>21. s \o ((a \o b) \o c) = RegionsText(region)
  BY <1>3, <1>15, <1>18, <1>19, <1>20 DEF Balanced
<1>22. SaidBy(Append(parts, Part(f))) \o (Said(region, <<>>) \o Said(region, l \o after)) = RegionsText(region)
  BY <1>13, <1>14, <1>15, <1>17, <1>18, <1>20, <1>21
<1> QED
  BY <1>3, <1>4, <1>8, <1>22 DEF Balanced

LEMMA NothingYet == Said(0, <<>>) = <<>> /\ SaidBy(<<>>) = <<>> /\ RegionsText(0) = <<>>
BY NothingSaid

\* What is packed so far, what the open chunk has and what waits say together
\* what the regions up to this one say.
LEMMA NothingIsLost == Spec => []NothingLost
<1>1. Init => NothingLost
  BY DEF Init, NothingLost
<1>2. SourceInv /\ FromRegions /\ NothingLost /\ [Next]_vars => NothingLost'
  <2> SUFFICES ASSUME SourceInv, FromRegions, NothingLost, [Next]_vars PROVE NothingLost'
    OBVIOUS
  <2>1. ASSUME stage' \notin {"packing", "loaded"} PROVE NothingLost'
    BY <2>1 DEF NothingLost
  <2>2. CASE FindFurniture
    <3>1. stage' \notin {"packing", "loaded"}
      BY <2>2 DEF FindFurniture, Reject
    <3> QED
      BY <2>1, <3>1
  <2>3. CASE RepairGlyphs
    <3>1. stage' \notin {"packing", "loaded"}
      BY <2>3 DEF RepairGlyphs, Reject
    <3> QED
      BY <2>1, <3>1
  <2>4. CASE FindSections
    <3>1. stage' \notin {"packing", "loaded"}
      BY <2>4 DEF FindSections
    <3> QED
      BY <2>1, <3>1
  <2>5. CASE SelectEnglish
    <3>1. stage' \notin {"packing", "loaded"}
      BY <2>5 DEF SelectEnglish, Reject
    <3> QED
      BY <2>1, <3>1
  <2>6. CASE AssembleUnits
    <3>1. stage' = "packing"
      BY <2>6 DEF AssembleUnits
    <3>2. region' = 0 /\ own' = <<>> /\ queue' = <<>> /\ parts' = <<>>
      BY <2>6 DEF AssembleUnits, SourceInv, StageOK, StartPacking, packing
    <3>3. (Balanced(<<>>, 0, <<>>, <<>>))'
      <4>1. (Said(0, <<>>) = <<>> /\ SaidBy(<<>>) = <<>> /\ RegionsText(0) = <<>>)'
        BY NothingYet, PTL
      <4>2. <<>> \o (<<>> \o <<>>) = <<>>
        OBVIOUS
      <4> QED
        BY <4>1, <4>2 DEF Balanced
    <3> QED
      BY <3>1, <3>2, <3>3 DEF NothingLost
  <2>7. ASSUME doc' = doc, regions' = regions PROVE
          /\ (Balanced(parts, region, own, queue))' <=> Balanced(parts', region', own', queue')
          /\ (SaidBy(parts) = RegionsText(Len(regions)))' <=> SaidBy(parts') = RegionsText(Len(regions))
    BY <2>7 DEF Balanced, SaidBy, Said, WordsOf, WordLines, RegionsText
  <2>8. CASE Pack
    <3>1. /\ stage = "packing" /\ stage' = "packing" /\ doc' = doc
          /\ PackStep /\ Balanced(parts, region, own, queue)
      BY <2>8 DEF Pack, NothingLost
    <3>2. regions' = regions
      BY <3>1 DEF PackStep, Place, Close, Split, NextRegion
    <3>3. Balanced(parts', region', own', queue')
      BY <3>1, PlaceBalanced, CloseBalanced, SplitBalanced, RegionBalanced DEF PackStep
    <3> QED
      BY <2>7, <3>1, <3>2, <3>3 DEF NothingLost
  <2>9. CASE Finish
    <3>1. /\ stage = "packing" /\ stage' = "loaded" /\ doc' = doc /\ regions' = regions
          /\ parts' = AllParts /\ queue = <<>> /\ region = Len(regions)
          /\ Balanced(parts, region, own, queue)
      BY <2>9 DEF Finish, Packed, NothingLost
    <3>2. own \in Seq(ChunkUnit) /\ AllFrom(region, own)
      BY DEF SourceInv, PackOK, PackType, FromRegions
    <3>3. PICK a : a = Said(region, own)
      OBVIOUS
    <3>4. a \in Seq(Indices(doc))
      BY <3>1, <3>2, <3>3, SaidIs
    <3>5. a \o <<>> = a /\ Said(region, <<>>) = <<>>
      BY <3>4, ConcatEmptySeq, NothingSaid
    <3>6. SaidBy(parts) \o a = RegionsText(Len(regions))
      BY <3>1, <3>3, <3>5 DEF Balanced
    <3>7. SaidBy(AllParts) = RegionsText(Len(regions))
      BY <3>1, <3>3, <3>6, AllPartsSay
    <3> QED
      BY <2>7, <3>1, <3>7 DEF NothingLost
  <2>10. CASE UNCHANGED vars
    <3>1. /\ stage' = stage /\ doc' = doc /\ regions' = regions /\ parts' = parts
          /\ region' = region /\ own' = own /\ queue' = queue
      BY <2>10 DEF vars, packing
    <3> QED
      BY <2>7, <3>1 DEF NothingLost
  <2> QED
    BY <2>2, <2>3, <2>4, <2>5, <2>6, <2>8, <2>9, <2>10 DEF Next
<1> QED
  BY <1>1, <1>2, SourceIsKept, PlacedFromRegions, PTL DEF Spec

\* A place in some lot of places is in a stretch of them that ends where they do.
LEMMA Stretch ==
  ASSUME NEW n \in Nat, NEW W \in SUBSET (1..n), NEW k \in W
  PROVE  \E a \in 1..k, b \in k..n :
           /\ \A j \in a..b : j \in W
           /\ a = 1 \/ a - 1 \notin W
           /\ b = n \/ b + 1 \notin W
<1>1. k \in 1..n /\ k \in Nat
  OBVIOUS
<1>2. PICK A : A = {m \in 1..k : \A j \in m..k : j \in W}
  OBVIOUS
<1>3. PICK B : B = {m \in k..n : \A j \in k..m : j \in W}
  OBVIOUS
<1>4. k \in A /\ A \in SUBSET Nat /\ k \in B /\ B \in SUBSET (0..n)
  <2>1. \A j \in k..k : j = k
    BY <1>1
  <2> QED
    BY <1>1, <1>2, <1>3, <2>1
<1>5. PICK a : a = Min(A)
  OBVIOUS
<1>6. PICK b : b = Max(B)
  OBVIOUS
<1>7. a \in A /\ \A m \in A : a <= m
  BY <1>4, <1>5, LeastIn
<1>8. b \in B /\ \A m \in B : m <= b
  BY <1>4, <1>6, GreatestIn
<1>9. a \in 1..k /\ b \in k..n /\ (\A j \in a..k : j \in W) /\ (\A j \in k..b : j \in W)
  BY <1>2, <1>3, <1>7, <1>8
<1>10. \A j \in a..b : j \in W
  <2>1. \A j \in a..b : j \in a..k \/ j \in k..b
    BY <1>1, <1>9
  <2> QED
    BY <1>9, <2>1
<1>11. a # 1 => a - 1 \notin W
  <2> SUFFICES ASSUME a # 1, a - 1 \in W PROVE FALSE
    OBVIOUS
  <2>1. a - 1 \in 1..k /\ \A j \in (a - 1)..k : j = a - 1 \/ j \in a..k
    BY <1>1, <1>9
  <2>2. a - 1 \in A
    BY <1>2, <1>9, <2>1
  <2> QED
    BY <1>1, <1>7, <1>9, <2>2
<1>12. b # n => b + 1 \notin W
  <2> SUFFICES ASSUME b # n, b + 1 \in W PROVE FALSE
    OBVIOUS
  <2>1. b + 1 \in k..n /\ \A j \in k..(b + 1) : j = b + 1 \/ j \in k..b
    BY <1>1, <1>9
  <2>2. b + 1 \in B
    BY <1>3, <1>9, <2>1
  <2> QED
    BY <1>1, <1>8, <1>9, <2>2
<1> QED
  BY <1>9, <1>10, <1>11, <1>12

\* Numbers that follow each other stand next to each other in an ascending list.
LEMMA NextPlaces ==
  ASSUME NEW list \in Seq(Nat), Ascending(list), NEW a \in Nat, NEW b \in Nat, a <= b,
         \A j \in a..b : j \in ToSet(list)
  PROVE  \E k \in 1..Len(list) : \A m \in 0..(b - a) : k + m \in 1..Len(list) /\ list[k + m] = a + m
<1>1. PICK n : n = Len(list)
  OBVIOUS
<1>2. /\ n \in Nat /\ DOMAIN list = 1..n /\ \A k \in 1..n : list[k] \in Nat
      /\ \A j \in a..b : \E k \in 1..n : list[k] = j
  BY <1>1, ToSetIs
<1>3. \A j \in 1..n, k \in 1..n : j < k => list[j] < list[k]
  BY <1>2 DEF Ascending
<1>4. PICK k \in 1..n : list[k] = a
  <2>1. a \in a..b
    OBVIOUS
  <2> QED
    BY <1>2, <2>1
<1>5. PICK c \in Nat : c = b - a
  OBVIOUS
<1>6. PICK W : W = {m \in 0..c : k + m \in 1..n /\ list[k + m] = a + m}
  OBVIOUS
<1>7. 0 \in W
  BY <1>2, <1>4, <1>5, <1>6
<1>8. ASSUME NEW m \in 1..c, m - 1 \in W PROVE m \in W
  <2>1. PICK at : at = k + (m - 1)
    OBVIOUS
  <2>2. at \in 1..n /\ list[at] = a + (m - 1) /\ k + m = at + 1
    BY <1>2, <1>6, <1>8, <2>1
  <2>3. a + m \in a..b
    BY <1>5
  <2>4. PICK q \in 1..n : list[q] = a + m
    BY <1>2, <2>3
  <2>5. at < q
    <3> SUFFICES ASSUME ~(at < q) PROVE FALSE
      OBVIOUS
    <3>1. q = at \/ q < at
      BY <1>2, <2>2
    <3>2. list[q] <= list[at]
      BY <1>2, <1>3, <2>2, <3>1
    <3> QED
      BY <2>2, <2>4, <3>2
  <2>6. PICK next : next = at + 1
    OBVIOUS
  <2>7. next \in 1..n /\ list[at] < list[next] /\ list[next] \in Nat
    BY <1>2, <1>3, <2>2, <2>5, <2>6
  <2>8. ~(next < q)
    <3> SUFFICES ASSUME next < q PROVE FALSE
      OBVIOUS
    <3>1. list[next] < list[q]
      BY <1>3, <2>7
    <3> QED
      BY <2>2, <2>4, <2>7, <3>1
  <2>9. next = q
    BY <1>2, <2>2, <2>5, <2>6, <2>8
  <2> QED
    BY <1>6, <2>2, <2>4, <2>6, <2>9
<1>9. \A m \in 0..c : m \in W
  <2>1. \A m \in 1..c : m - 1 \in W => m \in W
    BY <1>8
  <2> QED
    BY <1>7, <2>1, EveryPlace
<1> QED
  BY <1>1, <1>4, <1>5, <1>6, <1>9

\* Enough wide rows together are in a table.
LEMMA WideRowsAreTabular ==
  ASSUME NEW d, IsDocument(d), NEW rows \in Seq(Indices(d)), rows \in Seq(Nat),
         NEW f \in 1..Len(rows), NEW l \in f..Len(rows), l - f + 1 >= TableMinRows, AllWide(d, rows, f, l),
         NEW k \in f..l
  PROVE  InTableOf(d, rows, k)
<1>1. PICK n : n = Len(rows)
  OBVIOUS
<1>2. n \in Nat /\ DOMAIN rows = 1..n /\ f \in 1..n /\ l \in f..n /\ l \in 1..n /\ k \in 1..n
  BY <1>1
<1>3. PICK W : W = {j \in 1..n : Wide(d, rows[j])}
  OBVIOUS
<1>4. f \in W /\ W \in SUBSET (1..n) /\ \A j \in f..l : j \in W
  <2>1. \A j \in f..l : j \in 1..n /\ Wide(d, rows[j])
    BY <1>2 DEF AllWide
  <2>2. f \in f..l
    BY <1>2
  <2> QED
    BY <1>3, <2>1, <2>2
<1>5. PICK a \in 1..f, b \in f..n :
        /\ \A j \in a..b : j \in W
        /\ a = 1 \/ a - 1 \notin W
        /\ b = n \/ b + 1 \notin W
  BY <1>2, <1>4, Stretch
<1>6. l <= b
  <2> SUFFICES ASSUME ~(l <= b) PROVE FALSE
    OBVIOUS
  <2>1. b + 1 \in f..l /\ b # n
    BY <1>2, <1>5
  <2> QED
    BY <1>4, <1>5, <2>1
<1>7. PICK seed : seed = <<a, b>>
  OBVIOUS
<1>8. seed[1] = a /\ seed[2] = b /\ a \in 1..n /\ b \in 1..n
  BY <1>2, <1>5, <1>7
<1>9. \A j \in 1..n : j \in W <=> Wide(d, rows[j])
  BY <1>3
<1>10. /\ b - a + 1 >= TableMinRows /\ (\A j \in a..b : Wide(d, rows[j]))
       /\ a = 1 \/ ~Wide(d, rows[a - 1])
       /\ b = n \/ ~Wide(d, rows[b + 1])
  <2>1. TableMinRows \in Nat
    BY TableAssumption
  <2>2. b - a + 1 >= TableMinRows
    BY <1>2, <1>5, <1>6, <2>1
  <2>3. \A j \in a..b : j \in 1..n
    BY <1>2, <1>5
  <2>4. a # 1 => a - 1 \in 1..n
    BY <1>2, <1>5
  <2>5. b # n => b + 1 \in 1..n
    BY <1>2, <1>5
  <2> QED
    BY <1>5, <1>9, <2>2, <2>3, <2>4, <2>5
<1>11. PICK run : run = <<Min({m \in 1..a : AllJoin(d, rows, m, a)}),
                          Max({m \in b..Len(rows) : AllJoin(d, rows, b, m)})>>
  OBVIOUS
<1>12. run \in TableRuns(d, rows)
  BY <1>1, <1>2, <1>7, <1>8, <1>10, <1>11 DEF TableRuns, AllJoin
<1>13. Joins(d, rows[a]) /\ Joins(d, rows[b])
  <2>1. a \in a..b /\ b \in a..b
    BY <1>2, <1>5
  <2>2. Wide(d, rows[a]) /\ Wide(d, rows[b]) /\ rows[a] \in Indices(d) /\ rows[b] \in Indices(d)
    BY <1>1, <1>8, <1>10, <2>1, SMTT(20)
  <2> QED
    BY <2>2, WideJoins
<1>14. PICK from, to : run[1] = from /\ run[2] = to
  OBVIOUS
<1>15. from \in 1..a
  <2>1. a \in 1..Len(rows)
    BY <1>1, <1>8
  <2>2. Min({m \in 1..a : AllJoin(d, rows, m, a)}) \in 1..a
    BY <1>13, <2>1, GrownBack
  <2> QED
    BY <1>11, <1>14, <2>2
<1>16. to \in b..n
  <2>1. b \in 1..Len(rows)
    BY <1>1, <1>8
  <2>2. Max({m \in b..Len(rows) : AllJoin(d, rows, b, m)}) \in b..Len(rows)
    BY <1>13, <2>1, GrownOn
  <2> QED
    BY <1>1, <1>11, <1>14, <2>2
<1>17. k \in from..to
  BY <1>2, <1>5, <1>6, <1>15, <1>16
<1> QED
  BY <1>12, <1>14, <1>17 DEF InTableOf

\* What the property calls a table's row is one of a table of its region.
LEMMA RowsAreKept ==
  ASSUME IsDocument(doc), IsSeq(spans), NEW i, TabularRow(i)
  PROVE  \E r \in 1..Len(spans) : i \in Tabular(doc, TakenAt(r))
<1>1. DOMAIN spans = 1..Len(spans)
  BY DEF IsSeq
<1>2. PICK a \in Indices(doc), b \in Indices(doc) :
        /\ i \in a..b /\ b - a + 1 >= TableMinRows
        /\ \E r \in DOMAIN spans : \A j \in a..b : Holds(spans[r], j)
        /\ \A j \in a..b : Wide(doc, j) /\ j \in Selected /\ doc.lines[j].page = doc.lines[i].page
  BY DEF TabularRow
<1>3. PICK r \in 1..Len(spans) : \A j \in a..b : Holds(spans[r], j)
  BY <1>1, <1>2
<1>4. PICK S, p : S = TakenAt(r) /\ p = doc.lines[i].page
  OBVIOUS
<1>5. a \in Nat /\ b \in Nat /\ a <= b /\ i \in Nat
  <2>1. a \in Nat /\ b \in Nat
    BY IndicesAre
  <2> QED
    BY <1>2, <2>1
<1>6. \A j \in a..b : j \in OnPage(doc, p) \cap S
  BY <1>2, <1>3, <1>4 DEF Selected, OnPage, TakenAt, Taken
<1>7. PICK rows : rows = RowsIn(doc, S, p)
  OBVIOUS
<1>8. /\ rows \in Seq(OnPage(doc, p) \cap S) /\ rows \in Seq(Nat) /\ Ascending(rows)
      /\ ToSet(rows) = OnPage(doc, p) \cap S
  <2>1. Len(doc.lines) \in Nat /\ Indices(doc) = 1..Len(doc.lines)
    BY IndicesAre
  <2>2. OnPage(doc, p) \cap S \in SUBSET (1..Len(doc.lines))
    BY <2>1 DEF OnPage
  <2> QED
    BY <1>7, <2>1, <2>2, ReadingOrder DEF RowsIn
<1>9. PICK k \in 1..Len(rows) : \A m \in 0..(b - a) : k + m \in 1..Len(rows) /\ rows[k + m] = a + m
  <2>1. \A j \in a..b : j \in ToSet(rows)
    BY <1>6, <1>8
  <2> QED
    BY <1>5, <1>8, <2>1, NextPlaces
<1>10. PICK n, l : n = Len(rows) /\ l = k + (b - a)
  OBVIOUS
<1>11. n \in Nat /\ k \in 1..n /\ l \in k..n /\ l - k + 1 >= TableMinRows
  <2>1. n \in Nat /\ k \in 1..n
    BY <1>8, <1>10
  <2>2. b - a \in 0..(b - a)
    BY <1>5
  <2>3. l \in 1..n /\ l >= k
    <3>1. k + (b - a) \in 1..Len(rows)
      BY <1>9, <2>2
    <3> QED
      BY <1>5, <1>10, <2>1, <3>1
  <2>4. l - k + 1 = b - a + 1
    BY <1>5, <1>10, <2>1
  <2> QED
    BY <1>2, <2>1, <2>3, <2>4
<1>12. ASSUME NEW j \in k..l PROVE rows[j] = a + (j - k) /\ a + (j - k) \in a..b
  <2>1. PICK m : m = j - k
    OBVIOUS
  <2>2. m \in 0..(b - a) /\ k + m = j
    BY <1>5, <1>10, <1>11, <2>1
  <2> QED
    BY <1>5, <1>9, <2>1, <2>2
<1>13. AllWide(doc, rows, k, l)
  BY <1>2, <1>12 DEF AllWide
<1>14. PICK q : q = k + (i - a)
  OBVIOUS
<1>15. q \in k..l /\ rows[q] = i
  <2>1. i - a \in 0..(b - a)
    BY <1>2, <1>5
  <2>2. rows[q] = a + (i - a)
    BY <1>9, <1>14, <2>1
  <2> QED
    BY <1>5, <1>10, <1>11, <1>14, <2>1, <2>2
<1>16. InTableOf(doc, rows, q)
  <2>1. rows \in Seq(Indices(doc))
    BY <1>8 DEF OnPage
  <2>2. k \in 1..Len(rows) /\ l \in k..Len(rows)
    BY <1>10, <1>11
  <2> QED
    BY <1>8, <1>11, <1>13, <1>15, <2>1, <2>2, WideRowsAreTabular
<1>17. i \in S /\ q \in DOMAIN rows
  BY <1>2, <1>6, <1>8, <1>10, <1>11, <1>15
<1>18. i \in Tabular(doc, S)
  BY <1>4, <1>7, <1>15, <1>16, <1>17 DEF Tabular
<1> QED
  BY <1>3, <1>4, <1>18

\* What the stages leave: the regions cover the document, and the marks are the
\* furniture's but for the headings.
Prepared ==
  /\ stage \in {"marked", "repaired"} => marked = MarkFurniture(doc)
  /\ stage \in {"sectioned", "selected", "packing", "loaded"} =>
       marked = MarkFurniture(doc) \ AnchoredLines(anchors) /\ SpansTile(doc, spans)

LEMMA StagesPrepare == Spec => []Prepared
<1>1. Init => Prepared
  BY DEF Init, Prepared
<1>2. SourceInv /\ Prepared /\ [Next]_vars => Prepared'
  <2> SUFFICES ASSUME SourceInv, Prepared, [Next]_vars PROVE Prepared'
    OBVIOUS
  <2>1. CASE FindFurniture
    BY <2>1 DEF FindFurniture, Reject, Prepared
  <2>2. CASE RepairGlyphs
    BY <2>2 DEF RepairGlyphs, Reject, Prepared
  <2>3. CASE FindSections
    <3>1. /\ stage = "repaired" /\ stage' = "sectioned" /\ doc' = doc /\ IsDocument(doc)
          /\ marked = MarkFurniture(doc) /\ marked' = marked \ AnchoredLines(anchors')
      BY <2>3 DEF FindSections, SourceInv, StageOK, Prepared
    <3>2. anchors' = AnchorEntries(doc, SectionMap(doc, marked).entries)
      BY <2>3 DEF FindSections
    <3>3. InPlace(anchors')
      BY <3>1, <3>2, AnchorsAre
    <3>4. spans' = DeriveRegions(doc, marked, anchors', mapping'.inferred)
      BY <2>3 DEF FindSections
    <3>5. SpansTile(doc, spans')
      BY <3>1, <3>3, <3>4, SpansAreTiles
    <3> QED
      BY <3>1, <3>5 DEF Prepared
  <2>4. CASE SelectEnglish
    <3>1. /\ stage = "sectioned" /\ UNCHANGED <<doc, marked, anchors, spans>>
          /\ stage' \in {"no-english-content", "selected"}
      BY <2>4 DEF SelectEnglish, Reject
    <3> QED
      BY <3>1 DEF Prepared
  <2>5. CASE AssembleUnits
    BY <2>5 DEF AssembleUnits, Prepared
  <2>6. CASE Pack
    BY <2>6 DEF Pack, Prepared
  <2>7. CASE Finish
    BY <2>7 DEF Finish, Prepared
  <2>8. CASE UNCHANGED vars
    BY <2>8 DEF vars, Prepared
  <2> QED
    BY <2>1, <2>2, <2>3, <2>4, <2>5, <2>6, <2>7, <2>8 DEF Next
<1> QED
  BY <1>1, <1>2, SourceIsKept, PTL DEF Spec

\* The lines of the regions, one region after the other.
RegionsLines == FlattenSeq([r \in 1..Len(spans) |-> LinesIn(RegionAt(r))])
KeptAt(r) == KeptIn(doc, marked, english, mapping.contents, spans[r])

\* They are in reading order, and what stays in some region.
LEMMA RegionsLinesAre ==
  ASSUME IsDocument(doc), SpansTile(doc, spans)
  PROVE  /\ RegionsLines \in Seq(Nat) /\ Ascending(RegionsLines)
         /\ ToSet(RegionsLines) = UNION {KeptAt(r) : r \in 1..Len(spans)}
<1>1. PICK n : n = Len(spans)
  OBVIOUS
<1>2. n \in Nat
  <2>1. spans \in Seq(ToSet(spans))
    BY DEF SpansTile, IsSeq
  <2> QED
    BY <1>1, <2>1
<1>3. PICK lists : lists = [r \in 1..n |-> LinesIn(RegionAt(r))]
  OBVIOUS
<1>4. ASSUME NEW r \in 1..n
      PROVE  lists[r] \in Seq(Nat) /\ Ascending(lists[r]) /\ ToSet(lists[r]) = KeptAt(r)
  <2>1. OrderedLines(LinesIn(RegionAt(r)), KeptAt(r))
    BY RegionLines DEF RegionAt, KeptAt
  <2> QED
    BY <1>3, <2>1 DEF OrderedLines
<1>5. lists \in Seq(Seq(Nat)) /\ Len(lists) = n
  <2>1. lists = [r \in 1..n |-> lists[r]]
    BY <1>3
  <2> QED
    BY <1>2, <1>4, <2>1, MadeList
<1>6. ASSUME NEW q \in 1..n, NEW r \in 1..n, q < r, NEW x \in ToSet(lists[q]), NEW y \in ToSet(lists[r])
      PROVE  x < y
  <2>1. x \in KeptAt(q) /\ y \in KeptAt(r)
    BY <1>4, <1>6
  <2>2. x \in Indices(doc) /\ y \in Indices(doc) /\ Holds(spans[q], x) /\ Holds(spans[r], y)
    BY <2>1 DEF KeptAt, KeptIn, Taken
  <2> QED
    BY <1>1, <1>6, <2>2 DEF SpansTile
<1>7. FlattenSeq(lists) \in Seq(Nat) /\ Ascending(FlattenSeq(lists))
  BY <1>4, <1>5, <1>6, FlattenIs, FlattenAscending
<1>8. ToSet(FlattenSeq(lists)) = UNION {ToSet(lists[r]) : r \in 1..n}
  BY <1>5, FlattenElements
<1>9. {ToSet(lists[r]) : r \in 1..n} = {KeptAt(r) : r \in 1..n}
  BY <1>4
<1> QED
  BY <1>1, <1>3, <1>7, <1>8, <1>9 DEF RegionsLines

\* What a loaded source says: the words of those lines.
LEMMA LoadedText ==
  ASSUME SourceInv, NothingLost, Prepared, stage = "loaded"
  PROVE  /\ RegionsLines \in Seq(Indices(doc)) /\ OwnWords = TextLines(RegionsLines)
         /\ ToSet(OwnWords) = ToSet(RegionsLines)
<1>1. IsDocument(doc) /\ SpansTile(doc, spans)
  BY DEF SourceInv, StageOK, Prepared
<1>2. PICK n : n = Len(spans)
  OBVIOUS
<1>3. n \in Nat
  <2>1. spans \in Seq(ToSet(spans))
    BY <1>1 DEF SpansTile, IsSeq
  <2> QED
    BY <1>2, <2>1
<1>4. Len(regions) = n
  <2>1. regions = [r \in DOMAIN spans |-> Laid(RegionAt(r))] /\ UnderTheirSection(doc, anchors, spans)
    BY DEF SourceInv, StageOK
  <2> QED
    BY <1>1, <1>2, <2>1, LaidRegions
<1>5. PICK lists : lists = [r \in 1..n |-> LinesIn(RegionAt(r))]
  OBVIOUS
<1>6. ASSUME NEW r \in 1..n PROVE lists[r] \in Seq(Indices(doc)) /\ WordLines(r) = TextLines(lists[r])
  <2>1. r \in 1..Len(spans)
    BY <1>2
  <2> QED
    BY <1>5, <2>1, RegionText
<1>7. lists \in Seq(Seq(Indices(doc))) /\ DOMAIN lists = 1..n
  <2>1. lists = [r \in 1..n |-> lists[r]]
    BY <1>5
  <2> QED
    BY <1>3, <1>6, <2>1, MadeList
<1>8. PICK all : all = FlattenSeq(lists)
  OBVIOUS
<1>9. all \in Seq(Indices(doc)) /\ all = RegionsLines
  BY <1>2, <1>5, <1>7, <1>8, FlattenIs DEF RegionsLines
<1>10. TextLines(all) = FlattenSeq([k \in DOMAIN lists |-> TextLines(lists[k])])
  BY <1>1, <1>7, <1>8, TextThrough
<1>11. OwnWords = TextLines(all)
  <2>1. OwnWords = SaidBy(parts)
    BY DEF OwnWords, SaidBy, Said
  <2>2. SaidBy(parts) = FlattenSeq([r \in 1..n |-> WordLines(r)])
    BY <1>4 DEF NothingLost, RegionsText
  <2>3. [k \in DOMAIN lists |-> TextLines(lists[k])] = [r \in 1..n |-> WordLines(r)]
    BY <1>6, <1>7
  <2> QED
    BY <1>10, <2>1, <2>2, <2>3
<1>12. ToSet(TextLines(all)) = ToSet(all)
  BY <1>1, <1>9, TextLinesAre
<1> QED
  BY <1>9, <1>11, <1>12

\* What the bands' keys mark recurs on another page.
LEMMA FurnitureRecurs ==
  ASSUME IsDocument(doc), NEW i \in MarkFurniture(doc)
  PROVE  Recurs(i)
<1>1. PICK k \in {doc.lines[j].key : j \in Indices(doc)} \ {None} :
        /\ IsFurniture(doc, k, {j \in Indices(doc) : doc.lines[j].key = k})
        /\ i \in {j \in Indices(doc) : doc.lines[j].key = k}
  BY DEF MarkFurniture
<1>2. PICK S : S = {j \in Indices(doc) : doc.lines[j].key = k}
  OBVIOUS
<1>3. i \in S /\ i \in Indices(doc) /\ doc.lines[i].key = k /\ k # None
  BY <1>1, <1>2
<1>4. PICK P : P = PagesOf(doc, S)
  OBVIOUS
<1>5. Cardinality(P) >= 2
  BY <1>1, <1>2, <1>4 DEF IsFurniture
<1>6. PICK p : p = doc.lines[i].page
  OBVIOUS
<1>7. P # {p}
  <2>1. Cardinality({p}) = 1
    BY FS_Singleton
  <2> QED
    BY <1>5, <2>1
<1>8. p \in P
  BY <1>3, <1>4, <1>6 DEF PagesOf
<1>9. PICK q \in P : q # p
  BY <1>7, <1>8
<1>10. PICK j \in S : doc.lines[j].page = q
  BY <1>4, <1>9 DEF PagesOf
<1> QED
  BY <1>2, <1>3, <1>6, <1>9, <1>10 DEF Recurs

\* The text is the kept lines', in order; what is not kept may be dropped.
LEMMA LoadedBody ==
  ASSUME SourceInv, NothingLost, Prepared, stage = "loaded"
  PROVE  LET lines == InReadingOrder(ToSet(OwnWords)) IN
         /\ OwnWords = FlattenSeq([n \in DOMAIN lines |-> [w \in 1..doc.lines[lines[n]].words |-> lines[n]]])
         /\ \A i \in Selected : i \in ToSet(OwnWords) \/ MayBeDropped(i)
         /\ ToSet(OwnWords) \subseteq Selected
<1>1. IsDocument(doc) /\ SpansTile(doc, spans) /\ IsSeq(spans)
      /\ marked = MarkFurniture(doc) \ AnchoredLines(anchors)
  BY DEF SourceInv, StageOK, Prepared, SpansTile
<1>2. PICK all : all = RegionsLines
  OBVIOUS
<1>3. /\ all \in Seq(Nat) /\ Ascending(all)
      /\ ToSet(all) = UNION {KeptAt(r) : r \in 1..Len(spans)}
  BY <1>1, <1>2, RegionsLinesAre
<1>4. OwnWords = TextLines(all) /\ ToSet(OwnWords) = ToSet(all)
  BY <1>2, LoadedText
<1>5. PICK lines : lines = InReadingOrder(ToSet(OwnWords))
  OBVIOUS
<1>6. lines = all
  <2>1. Len(doc.lines) \in Nat /\ Indices(doc) = 1..Len(doc.lines)
    BY <1>1, IndicesAre
  <2>2. ToSet(all) \in SUBSET (1..Len(doc.lines))
    BY <1>3, <2>1 DEF KeptAt, KeptIn, Taken
  <2>3. lines \in Seq(Nat) /\ Ascending(lines) /\ ToSet(lines) = ToSet(all)
    BY <1>4, <1>5, <2>1, <2>2, ReadingOrder
  <2> QED
    BY <1>3, <2>3, OneAscending
<1>7. OwnWords = FlattenSeq([n \in DOMAIN lines |-> [w \in 1..doc.lines[lines[n]].words |-> lines[n]]])
  BY <1>4, <1>6 DEF TextLines, TextLine
<1>8. ASSUME NEW i \in Selected PROVE i \in ToSet(OwnWords) \/ MayBeDropped(i)
  <2> SUFFICES ASSUME i \notin ToSet(OwnWords) PROVE MayBeDropped(i)
    OBVIOUS
  <2>1. \A r \in 1..Len(spans) : i \notin KeptAt(r)
    BY <1>3, <1>4
  <2>2. i \in Indices(doc)
    BY DEF Selected
  <2>3. PICK r \in 1..Len(spans) : Holds(spans[r], i)
    BY <1>1, <2>2 DEF SpansTile
  <2>4. i \in TakenAt(r)
    BY <2>2, <2>3 DEF TakenAt, Taken, Selected
  <2>5. i \in marked
    BY <2>1, <2>4 DEF KeptAt, KeptIn, TakenAt
  <2>6. i \in MarkFurniture(doc) /\ i \notin AnchoredLines(anchors)
    BY <1>1, <2>5
  <2>7. Recurs(i)
    BY <1>1, <2>6, FurnitureRecurs
  <2>8. ~TabularRow(i)
    <3> SUFFICES ASSUME TabularRow(i) PROVE FALSE
      OBVIOUS
    <3>1. PICK q \in 1..Len(spans) : i \in Tabular(doc, TakenAt(q))
      BY <1>1, RowsAreKept
    <3>2. i \in KeptAt(q)
      BY <3>1 DEF KeptAt, KeptIn, TakenAt, Tabular
    <3> QED
      BY <2>1, <3>2
  <2> QED
    BY <2>6, <2>7, <2>8 DEF MayBeDropped
<1>9. ToSet(OwnWords) \subseteq Selected
  <2>1. ASSUME NEW r \in 1..Len(spans), NEW i \in KeptAt(r) PROVE i \in Selected
    BY <2>1 DEF KeptAt, KeptIn, Taken, Selected
  <2> QED
    BY <1>3, <1>4, <2>1
<1> QED
  BY <1>5, <1>7, <1>8, <1>9

\* No two passages have one identifier: of two with the same text the later
\* one's copies include the other.
LEMMA IdsDiffer ==
  ASSUME NEW texts, NEW n \in Nat, DOMAIN texts = 1..n
  PROVE  IsInjective(AssignIds(texts))
<1>1. PICK ids : ids = AssignIds(texts)
  OBVIOUS
<1>2. PICK C : C = [k \in 1..n |-> {j \in 1..k : texts[j] = texts[k]}]
  OBVIOUS
<1>3. DOMAIN ids = 1..n /\ \A k \in 1..n : ids[k] = <<texts[k], Cardinality(C[k])>>
  BY <1>1, <1>2 DEF AssignIds
<1>4. ASSUME NEW k \in 1..n, NEW l \in 1..n, k < l PROVE ids[k] # ids[l]
  <2> SUFFICES ASSUME texts[k] = texts[l], Cardinality(C[k]) = Cardinality(C[l]) PROVE FALSE
    BY <1>3
  <2>1. l \in C[l] /\ l \notin C[k] /\ C[k] \subseteq C[l]
    BY <1>2, <1>4
  <2>2. IsFiniteSet(C[l])
    <3>1. IsFiniteSet(1..l) /\ C[l] \subseteq 1..l
      BY <1>2, FS_Interval
    <3> QED
      BY <3>1, FS_Subset
  <2>3. Cardinality(C[k]) = Cardinality(C[l]) => C[k] = C[l]
    BY <2>1, <2>2, FS_Subset
  <2> QED
    BY <2>1, <2>3
<1>5. ASSUME NEW k \in 1..n, NEW l \in 1..n, ids[k] = ids[l] PROVE k = l
  <2>1. k < l \/ l < k \/ k = l
    OBVIOUS
  <2> QED
    BY <1>4, <1>5, <2>1
<1> QED
  BY <1>1, <1>3, <1>5 DEF IsInjective

LEMMA LoadedIds ==
  ASSUME SourceInv
  PROVE  IsInjective([k \in DOMAIN parts |-> Passages[k].id])
<1>1. PICK n : n = Len(parts)
  OBVIOUS
<1>2. n \in Nat /\ DOMAIN parts = 1..n
  BY <1>1 DEF SourceInv, PackOK, PackType
<1>3. PICK texts : texts = [k \in DOMAIN parts |-> TextOf(parts[k])]
  OBVIOUS
<1>4. DOMAIN texts = 1..n /\ DOMAIN AssignIds(texts) = 1..n
  BY <1>2, <1>3 DEF AssignIds
<1>5. PICK ids : ids = AssignIds(texts)
  OBVIOUS
<1>6. \A k \in DOMAIN parts : Passages[k].id = ids[k]
  BY <1>3, <1>5 DEF Passages
<1>7. [k \in DOMAIN parts |-> Passages[k].id] = ids
  <2>1. ids = [k \in 1..n |-> ids[k]]
    BY <1>4, <1>5 DEF AssignIds
  <2> QED
    BY <1>2, <1>6, <2>1
<1>8. IsInjective(ids)
  BY <1>2, <1>4, <1>5, IdsDiffer
<1> QED
  BY <1>7, <1>8, Zenon

\* A loaded manual's text is in its passages whole, once and in reading order,
\* without the furniture and nothing else, each under an identifier of its own
\* (corpus/pdf/loader.py PdfLoader.load, chunk.py _pack, passage_id.py).
THEOREM EveryLineIsIndexedOnce == Spec => []BodyIsIndexedOnce
<1>1. SourceInv /\ NothingLost /\ Prepared => BodyIsIndexedOnce
  BY LoadedBody, LoadedIds DEF BodyIsIndexedOnce, Loaded
<1> QED
  BY <1>1, SourceIsKept, NothingIsLost, StagesPrepare, PTL

-----------------------------------------------------------------------------
(* Procedures.                                                             *)

\* Where lines in order stand: those of an earlier unit, or earlier in theirs, are first.
LEMMA PlacedBefore ==
  ASSUME NEW d, NEW S \in SUBSET Nat, NEW units \in Seq(UnitOf(d, S)), Ascending(LinesIn(units)),
         NEW i \in 1..Len(units), NEW j \in 1..Len(units),
         NEW p \in 1..Len(units[i].lines), NEW q \in 1..Len(units[j].lines),
         i < j \/ (i = j /\ p < q)
  PROVE  units[i].lines[p] < units[j].lines[q]
<1>1. PICK n : n = Len(units)
  OBVIOUS
<1>2. n \in Nat /\ DOMAIN units = 1..n /\ \A k \in 1..n : units[k] \in UnitOf(d, S)
  BY <1>1
<1>3. PICK seqs : seqs = [k \in DOMAIN units |-> units[k].lines]
  OBVIOUS
<1>4. PICK counts : counts = [k \in 1..n |-> Len(seqs[k])]
  OBVIOUS
<1>5. \A k \in 1..n : seqs[k] = units[k].lines /\ seqs[k] \in Seq(S) /\ Len(seqs[k]) \in Nat /\ Len(seqs[k]) > 0
  BY <1>2, <1>3, UnitHas
<1>6. seqs \in Seq(Seq(S)) /\ Len(seqs) = n
  <2>1. seqs = [k \in 1..n |-> seqs[k]]
    BY <1>2, <1>3
  <2> QED
    BY <1>2, <1>5, <2>1, MadeList
<1>7. counts \in Seq(Nat) /\ Len(counts) = n /\ \A k \in 1..n : counts[k] = Len(seqs[k]) /\ counts[k] > 0
  <2>1. counts = [k \in 1..n |-> counts[k]] /\ \A k \in 1..n : counts[k] \in Nat
    BY <1>4, <1>5
  <2>2. counts \in Seq(Nat) /\ Len(counts) = n
    BY <1>2, <2>1, MadeList
  <2> QED
    BY <1>4, <1>5, <2>2
<1>8. PICK all : all = LinesIn(units)
  OBVIOUS
<1>9. all = FlattenSeq(seqs)
  BY <1>3, <1>8 DEF LinesIn
<1>10. all \in Seq(S) /\ Placed(all, seqs, counts, n)
  BY <1>6, <1>7, <1>9, Flattened
<1>11. i \in 1..n /\ j \in 1..n /\ counts[i] \in Nat /\ p \in 1..counts[i] /\ q \in 1..counts[j]
  BY <1>1, <1>5, <1>7
<1>12. PICK a, b : a = Total(counts, i - 1) /\ b = Total(counts, j - 1)
  OBVIOUS
<1>13. /\ a + p \in 1..Len(all) /\ all[a + p] = seqs[i][p]
       /\ b + q \in 1..Len(all) /\ all[b + q] = seqs[j][q]
  BY <1>10, <1>11, <1>12 DEF Placed
<1>14. a + p < b + q /\ a \in Nat /\ b \in Nat
  <2>1. /\ \A k \in 0..n : Total(counts, k) \in Nat
        /\ \A k \in 1..n : Total(counts, k) = Total(counts, k - 1) + counts[k]
    BY <1>7, TotalIs
  <2>2. i - 1 \in 0..n /\ i \in 0..n /\ j - 1 \in 0..n
    BY <1>2, <1>11
  <2>3. a \in Nat /\ b \in Nat
    BY <1>12, <2>1, <2>2
  <2>4. CASE i < j
    <3>1. j - 1 \in i..n
      BY <1>2, <1>11, <2>4
    <3>2. PICK c : c = Total(counts, i)
      OBVIOUS
    <3>3. c = a + counts[i] /\ c \in Nat
      BY <1>11, <1>12, <2>1, <2>2, <3>2
    <3>4. c <= b
      BY <1>7, <1>12, <2>2, <3>1, <3>2, TotalGrows
    <3>5. p \in Nat /\ q \in Nat /\ p <= counts[i] /\ q > 0
      BY <1>11
    <3> QED
      BY <1>11, <2>3, <3>3, <3>4, <3>5
  <2>5. CASE i = j /\ p < q
    BY <1>12, <2>3, <2>5
  <2> QED
    BY <2>3, <2>4, <2>5
<1>15. all[a + p] < all[b + q]
  <2>1. DOMAIN all = 1..Len(all)
    BY <1>10
  <2> QED
    BY <1>8, <1>13, <1>14, <2>1 DEF Ascending
<1> QED
  BY <1>5, <1>11, <1>13, <1>15

\* A row that wraps from the procedure before it, and one of them that is on the
\* procedure's last page and in no table.
Wraps(d, i) == Step(d, i) = 0 /\ d.lines[i].wraps
WrapsFrom(d, one, two) == one.steps # <<>> /\ Wraps(d, Head(two.lines))
Loose(d, S, one, two) ==
  /\ WrapsFrom(d, one, two) /\ Head(two.lines) \notin Tabular(d, S)
  /\ d.lines[Head(two.lines)].page = d.lines[Last(one.lines)].page
NoneWraps(d, units) == \A i \in 1..(Len(units) - 1) : ~WrapsFrom(d, units[i], units[i + 1])
NoneLoose(d, S, units) == \A i \in 1..(Len(units) - 1) : ~Loose(d, S, units[i], units[i + 1])

\* A procedure ends only before a row that does not wrap.
LEMMA NothingWrapsOn ==
  ASSUME NEW d, NEW T, NEW rows \in Seq(T), NEW k \in 1..Len(rows), Step(d, rows[k]) # 0,
         PartEnd(d, rows, k) < Len(rows)
  PROVE  ~Wraps(d, rows[PartEnd(d, rows, k) + 1])
<1>1. PICK n : n = Len(rows)
  OBVIOUS
<1>2. n \in Nat /\ k \in 1..n
  BY <1>1
<1> DEFINE Continues(m) ==
      LET next == Last(Steps(d, SubSeq(rows, k, m - 1))) + 1 IN
        IF Step(d, rows[m]) = 0 THEN d.lines[rows[m]].wraps ELSE Step(d, rows[m]) = next
<1>3. PICK S : S = {m \in k..n : \A j \in (k + 1)..m : Continues(j)}
  OBVIOUS
<1>4. PICK e : e = PartEnd(d, rows, k)
  OBVIOUS
<1>5. e = Max(S)
  BY <1>1, <1>3, <1>4 DEF PartEnd, ProcedureEnd
<1>6. \A j \in 1..n : Wraps(d, rows[j]) => Continues(j)
  BY DEF Wraps
<1> HIDE DEF Continues
<1>7. k \in S /\ S \in SUBSET (0..n) /\ S # {}
  <2>1. (k + 1)..k = {} /\ k \in k..n /\ k..n \subseteq 0..n
    BY <1>2
  <2>2. k \in S
    BY <1>3, <2>1
  <2> QED
    BY <1>3, <2>1, <2>2
<1>8. e \in S /\ \A y \in S : y <= e
  BY <1>2, <1>5, <1>7, GreatestIn
<1>9. e \in k..n /\ \A j \in (k + 1)..e : Continues(j)
  BY <1>3, <1>8
<1>10. e + 1 \in k..n
  BY <1>1, <1>2, <1>4, <1>9
<1> SUFFICES ASSUME Wraps(d, rows[e + 1]) PROVE FALSE
  BY <1>4
<1>11. Continues(e + 1)
  BY <1>2, <1>6, <1>10
<1>12. \A j \in (k + 1)..(e + 1) : j = e + 1 \/ j \in (k + 1)..e
  BY <1>2, <1>9
<1>13. \A j \in (k + 1)..(e + 1) : Continues(j)
  BY <1>9, <1>11, <1>12
<1>14. e + 1 \in S
  BY <1>3, <1>10, <1>13
<1> QED
  BY <1>8, <1>9, <1>14

LEMMA NoneWrapsAppend ==
  ASSUME NEW d, NEW T, NEW units \in Seq(T), NEW u \in T, NoneWraps(d, units),
         units # <<>> => ~WrapsFrom(d, Last(units), u)
  PROVE  NoneWraps(d, Append(units, u)) /\ Append(units, u) # <<>> /\ Last(Append(units, u)) = u
<1>1. PICK n, more : n = Len(units) /\ more = Append(units, u)
  OBVIOUS
<1>2. n \in Nat /\ Len(more) = n + 1 /\ more[n + 1] = u /\ \A k \in 1..n : more[k] = units[k]
  BY <1>1, AppendProperties
<1>3. ASSUME NEW k \in 1..n PROVE ~WrapsFrom(d, more[k], more[k + 1])
  <2>1. CASE k = n
    <3>1. units # <<>> /\ Last(units) = units[n]
      BY <1>1, <1>2, <2>1 DEF Last
    <3> QED
      BY <1>2, <2>1, <3>1
  <2>2. CASE k # n
    <3>1. k \in 1..(n - 1) /\ k + 1 \in 1..n
      BY <1>2, <2>2
    <3>2. ~WrapsFrom(d, units[k], units[k + 1])
      BY <1>1, <3>1 DEF NoneWraps
    <3> QED
      BY <1>2, <3>1, <3>2
  <2> QED
    BY <2>1, <2>2
<1>4. (n + 1) - 1 = n
  BY <1>2
<1>5. NoneWraps(d, more)
  BY <1>2, <1>3, <1>4 DEF NoneWraps
<1>6. more # <<>> /\ Last(more) = u
  BY <1>2 DEF Last
<1> QED
  BY <1>1, <1>5, <1>6

\* The units made, and what comes after them.
ProseEnds(d, rows, units) ==
  units # <<>> /\ Last(units).steps # <<>> /\ LinesCount(units) < Len(rows) =>
    ~Wraps(d, rows[LinesCount(units) + 1])
ProseKept(d, S, rows, units, k) ==
  ProseMade(d, S, rows, units, k) /\ NoneWraps(d, units) /\ ProseEnds(d, rows, units)

LEMMA ProseGoesOn ==
  ASSUME NEW d, IsDocument(d), NEW S \in SUBSET Indices(d), NEW rows \in Seq(S), OnOnePage(d, rows),
         NEW k \in 1..Len(rows), NEW units, ProseKept(d, S, rows, units, k - 1), ~(LinesCount(units) >= k)
  PROVE  ProseKept(d, S, rows, Append(units, PartAt(d, rows, k)), k)
<1>1. PICK n, u, e, more : /\ n = Len(rows) /\ u = PartAt(d, rows, k) /\ e = PartEnd(d, rows, k)
                           /\ more = Append(units, u)
  OBVIOUS
<1>2. LinesCount(units) = k - 1 /\ ProseMade(d, S, rows, more, k) /\ LinesCount(more) = e
  BY <1>1, ProseAppend DEF ProseKept
<1>3. n \in Nat /\ k \in 1..n /\ e \in k..n
  BY <1>1, PartEndIs
<1>4. units \in Seq(UnitOf(d, S)) /\ u \in UnitOf(d, S) /\ u.lines = SubSeq(rows, k, e)
  BY <1>1, PartAtIs DEF ProseKept, ProseMade
<1>5. Head(u.lines) = rows[k]
  <2>1. k \in 1..(Len(rows) + 1) /\ e \in (k - 1)..Len(rows) /\ 1 \in 1..(e - k + 1) /\ k + 1 - 1 = k
    BY <1>1, <1>3
  <2>2. u.lines[1] = rows[k]
    BY <1>4, <2>1, Piece
  <2> QED
    BY <2>2
<1>6. units # <<>> => ~WrapsFrom(d, Last(units), u)
  <2>1. LinesCount(units) < Len(rows) /\ LinesCount(units) + 1 = k
    BY <1>1, <1>2, <1>3
  <2>2. units # <<>> /\ Last(units).steps # <<>> => ~Wraps(d, rows[k])
    BY <2>1 DEF ProseKept, ProseEnds
  <2> QED
    BY <1>5, <2>2 DEF WrapsFrom
<1>7. NoneWraps(d, more) /\ Last(more) = u
  <2>1. units \in Seq(UnitOf(d, S))
    BY <1>4
  <2>2. u \in UnitOf(d, S)
    BY <1>4
  <2> QED
    BY <1>1, <1>6, <2>1, <2>2, NoneWrapsAppend DEF ProseKept
<1>8. ProseEnds(d, rows, more)
  <2> SUFFICES ASSUME u.steps # <<>>, e < n PROVE ~Wraps(d, rows[e + 1])
    BY <1>1, <1>2, <1>7 DEF ProseEnds
  <2>1. Step(d, rows[k]) # 0
    BY <1>1 DEF PartAt, PartOf, Unit
  <2> QED
    BY <1>1, <2>1, NothingWrapsOn
<1> QED
  BY <1>1, <1>2, <1>7, <1>8 DEF ProseKept

\* In prose no procedure is followed by a row that wraps from it.
LEMMA ProseWrapsIn ==
  ASSUME NEW d, IsDocument(d), NEW S \in SUBSET Indices(d), NEW rows \in Seq(S), OnOnePage(d, rows)
  PROVE  NoneWraps(d, ProseUnits(d, rows))
<1>1. PICK h : ProseSteps(h, d, rows)
  BY ProseStepsExist
<1>2. PICK n : n = Len(rows)
  OBVIOUS
<1>3. n \in Nat
  BY <1>2
<1> DEFINE W == {k \in 0..n : ProseKept(d, S, rows, h[k], k)}
<1>4. 0 \in W
  <2>1. h[0] = <<>> /\ 0 \in 0..n
    BY <1>1, <1>3 DEF ProseSteps
  <2>2. ProseMade(d, S, rows, <<>>, 0)
    BY <1>2, ProseBegins
  <2>3. NoneWraps(d, <<>>) /\ ProseEnds(d, rows, <<>>)
    BY DEF NoneWraps, ProseEnds
  <2> QED
    BY <2>1, <2>2, <2>3 DEF ProseKept
<1>5. ASSUME NEW k \in 1..n, k - 1 \in W PROVE k \in W
  <2>1. PICK units : units = h[k - 1]
    OBVIOUS
  <2>2. ProseKept(d, S, rows, units, k - 1) /\ k \in 0..n /\ k \in 1..Len(rows)
    BY <1>2, <1>3, <1>5, <2>1
  <2>3. h[k] = IF LinesCount(units) >= k THEN units ELSE Append(units, PartAt(d, rows, k))
    BY <1>1, <2>1, <2>2 DEF ProseSteps
  <2>4. CASE LinesCount(units) >= k
    <3>1. ProseMade(d, S, rows, units, k - 1)
      BY <2>2 DEF ProseKept
    <3>2. ProseMade(d, S, rows, units, k)
      BY <2>2, <2>4, <3>1 DEF ProseMade
    <3> QED
      BY <2>2, <2>3, <2>4, <3>2 DEF ProseKept
  <2>5. CASE ~(LinesCount(units) >= k)
    <3>1. ProseKept(d, S, rows, Append(units, PartAt(d, rows, k)), k)
      BY <2>2, <2>5, ProseGoesOn
    <3> QED
      BY <2>2, <2>3, <2>5, <3>1
  <2> QED
    BY <2>4, <2>5
<1> HIDE DEF W
<1>6. \A k \in 1..n : k - 1 \in W => k \in W
  BY <1>5
<1>7. \A k \in 0..n : k \in W
  BY <1>3, <1>4, <1>6, EveryPlace
<1>8. ProseKept(d, S, rows, h[n], n)
  BY <1>3, <1>7 DEF W
<1> QED
  BY <1>1, <1>2, <1>8 DEF ProseSteps, ProseKept

-----------------------------------------------------------------------------
\* A list made of lists: where each begins it may only join the last that is
\* not empty.
Nearest(seqs, j, k) ==
  /\ j < k /\ seqs[j] # <<>> /\ seqs[k] # <<>>
  /\ \A m \in (j + 1)..(k - 1) : seqs[m] = <<>>
EndsAs(seqs, k, flat) ==
  flat # <<>> => \E j \in 1..k : /\ seqs[j] # <<>> /\ Last(flat) = Last(seqs[j])
                                 /\ \A m \in (j + 1)..k : seqs[m] = <<>>

LEMMA LooseConcat ==
  ASSUME NEW d, NEW S, NEW T, NEW one \in Seq(T), NEW two \in Seq(T),
         NoneLoose(d, S, one), NoneLoose(d, S, two),
         one # <<>> /\ two # <<>> => ~Loose(d, S, Last(one), Head(two))
  PROVE  /\ NoneLoose(d, S, one \o two)
         /\ two # <<>> => one \o two # <<>> /\ Last(one \o two) = Last(two)
         /\ two = <<>> => one \o two = one
<1>1. PICK a, b, all : a = Len(one) /\ b = Len(two) /\ all = one \o two
  OBVIOUS
<1>2. /\ a \in Nat /\ b \in Nat /\ Len(all) = a + b
      /\ \A i \in 1..(a + b) : all[i] = IF i <= a THEN one[i] ELSE two[i - a]
  BY <1>1, ConcatProperties
<1>3. ASSUME NEW i \in 1..(a + b - 1) PROVE ~Loose(d, S, all[i], all[i + 1])
  <2>0. i \in 1..(a + b) /\ i + 1 \in 1..(a + b)
    BY <1>2
  <2>1. CASE i < a
    <3>1. i \in 1..(a - 1) /\ all[i] = one[i] /\ all[i + 1] = one[i + 1]
      BY <1>2, <2>0, <2>1
    <3>2. ~Loose(d, S, one[i], one[i + 1])
      BY <1>1, <3>1 DEF NoneLoose
    <3> QED
      BY <3>1, <3>2
  <2>2. CASE i = a
    <3>1. all[i] = one[a] /\ all[i + 1] = two[1] /\ a > 0 /\ b > 0
      BY <1>2, <2>0, <2>2
    <3>2. one # <<>> /\ two # <<>> /\ Last(one) = one[a] /\ Head(two) = two[1]
      BY <1>1, <3>1 DEF Last
    <3> QED
      BY <3>1, <3>2
  <2>3. CASE i > a
    <3>1. PICK j : j = i - a
      OBVIOUS
    <3>2. j \in 1..(b - 1) /\ (i + 1) - a = j + 1 /\ ~(i <= a) /\ ~(i + 1 <= a)
      BY <1>2, <2>3, <3>1
    <3>3. all[i] = two[j] /\ all[i + 1] = two[j + 1]
      BY <1>2, <2>0, <3>1, <3>2
    <3>4. ~Loose(d, S, two[j], two[j + 1])
      BY <1>1, <3>2 DEF NoneLoose
    <3> QED
      BY <3>3, <3>4
  <2> QED
    BY <1>2, <2>1, <2>2, <2>3
<1>4. NoneLoose(d, S, all)
  BY <1>2, <1>3 DEF NoneLoose
<1>5. ASSUME two # <<>> PROVE all # <<>> /\ Last(all) = Last(two)
  <2>1. b > 0
    BY <1>1, <1>5
  <2>2. a + b \in 1..(a + b) /\ ~(a + b <= a) /\ (a + b) - a = b
    BY <1>2, <2>1
  <2>3. all[a + b] = two[b] /\ Len(all) = a + b /\ a + b # 0
    BY <1>2, <2>1, <2>2
  <2>4. all # <<>>
    BY <2>3
  <2> QED
    BY <1>1, <2>3, <2>4 DEF Last
<1>6. two = <<>> => all = one
  BY <1>1, ConcatEmptySeq
<1> QED
  BY <1>1, <1>4, <1>5, <1>6

LEMMA LooseFlatten ==
  ASSUME NEW d, NEW S, NEW T, NEW seqs \in Seq(Seq(T)),
         \A k \in 1..Len(seqs) : NoneLoose(d, S, seqs[k]),
         \A j, k \in 1..Len(seqs) : Nearest(seqs, j, k) => ~Loose(d, S, Last(seqs[j]), Head(seqs[k]))
  PROVE  NoneLoose(d, S, FlattenSeq(seqs))
<1>1. PICK n : n = Len(seqs)
  OBVIOUS
<1>2. n \in Nat
  BY <1>1
<1> DEFINE W == {k \in 0..n : NoneLoose(d, S, FlatUpTo(seqs, k)) /\ EndsAs(seqs, k, FlatUpTo(seqs, k))}
<1>3. 0 \in W
  <2>1. FlatUpTo(seqs, 0) = <<>>
    BY FlatSteps
  <2>2. 0 \in 0..n
    BY <1>2
  <2>3. NoneLoose(d, S, <<>>) /\ EndsAs(seqs, 0, <<>>)
    BY DEF NoneLoose, EndsAs
  <2> QED
    BY <2>1, <2>2, <2>3
<1>4. ASSUME NEW k \in 1..n, k - 1 \in W PROVE k \in W
  <2>1. PICK one, two : one = FlatUpTo(seqs, k - 1) /\ two = seqs[k]
    OBVIOUS
  <2>2. k - 1 \in 0..n /\ k \in 0..n
    BY <1>2
  <2>3. one \in Seq(T) /\ two \in Seq(T) /\ FlatUpTo(seqs, k) = one \o two
    BY <1>1, <2>1, <2>2, FlatSteps
  <2>4. NoneLoose(d, S, one) /\ EndsAs(seqs, k - 1, one) /\ NoneLoose(d, S, two)
    BY <1>1, <1>4, <2>1
  <2>5. one # <<>> /\ two # <<>> => ~Loose(d, S, Last(one), Head(two))
    <3> SUFFICES ASSUME one # <<>>, two # <<>> PROVE ~Loose(d, S, Last(one), Head(two))
      OBVIOUS
    <3>1. PICK j \in 1..(k - 1) : /\ seqs[j] # <<>> /\ Last(one) = Last(seqs[j])
                                  /\ \A m \in (j + 1)..(k - 1) : seqs[m] = <<>>
      BY <2>4 DEF EndsAs
    <3>2. j < k /\ j \in 1..n
      BY <1>2
    <3>3. Nearest(seqs, j, k)
      BY <2>1, <3>1, <3>2 DEF Nearest
    <3> QED
      BY <1>1, <2>1, <3>1, <3>2, <3>3
  <2>6. /\ NoneLoose(d, S, one \o two)
        /\ two # <<>> => one \o two # <<>> /\ Last(one \o two) = Last(two)
        /\ two = <<>> => one \o two = one
    BY <2>3, <2>4, <2>5, LooseConcat
  <2>7. EndsAs(seqs, k, one \o two)
    <3>1. CASE two # <<>>
      <4>1. k \in 1..k /\ (k + 1)..k = {}
        BY <1>2
      <4> QED
        BY <2>1, <2>6, <3>1, <4>1 DEF EndsAs
    <3>2. CASE two = <<>>
      <4> SUFFICES ASSUME one # <<>>
                   PROVE  \E j \in 1..k : /\ seqs[j] # <<>> /\ Last(one) = Last(seqs[j])
                                          /\ \A m \in (j + 1)..k : seqs[m] = <<>>
        BY <2>6, <3>2 DEF EndsAs
      <4>1. PICK j \in 1..(k - 1) : /\ seqs[j] # <<>> /\ Last(one) = Last(seqs[j])
                                    /\ \A m \in (j + 1)..(k - 1) : seqs[m] = <<>>
        BY <2>4 DEF EndsAs
      <4>2. j \in 1..k /\ \A m \in (j + 1)..k : m = k \/ m \in (j + 1)..(k - 1)
        BY <1>2
      <4>3. \A m \in (j + 1)..k : seqs[m] = <<>>
        BY <2>1, <3>2, <4>1, <4>2
      <4> QED
        BY <4>1, <4>2, <4>3
    <3> QED
      BY <3>1, <3>2
  <2> QED
    BY <2>2, <2>3, <2>6, <2>7
<1> HIDE DEF W
<1>5. \A k \in 1..n : k - 1 \in W => k \in W
  BY <1>4
<1>6. \A k \in 0..n : k \in W
  BY <1>2, <1>3, <1>5, EveryPlace
<1>7. NoneLoose(d, S, FlatUpTo(seqs, n))
  BY <1>2, <1>6 DEF W
<1> QED
  BY <1>1, <1>7, FlatSteps

\* Joining leaves no loose row behind: a merged unit ends as the one added.
JoinTight(d, S, units, k, made) ==
  /\ made \in Seq(UnitOf(d, S)) /\ NoneLoose(d, S, made)
  /\ made # <<>> => /\ k \in 1..Len(units) /\ Last(Last(made).lines) = Last(units[k].lines)
                    /\ Last(made).steps # <<>> => units[k].steps # <<>>

LEMMA MergedEnds ==
  ASSUME NEW d, NEW S, NEW one \in UnitOf(d, S), NEW two \in UnitOf(d, S), Follow(one, two)
  PROVE  /\ Head(Merged(one, two).lines) = Head(one.lines)
         /\ Last(Merged(one, two).lines) = Last(two.lines)
<1>1. PICK a, b, all : a = one.lines /\ b = two.lines /\ all = a \o b
  OBVIOUS
<1>2. a \in Seq(S) /\ b \in Seq(S) /\ Len(a) \in Nat /\ Len(a) > 0 /\ Len(b) \in Nat /\ Len(b) > 0
  BY <1>1, UnitHas
<1>3. PICK m, n : m = Len(a) /\ n = Len(b)
  OBVIOUS
<1>4. /\ Len(all) = m + n
      /\ \A i \in 1..(m + n) : all[i] = IF i <= m THEN a[i] ELSE b[i - m]
  <2>1. a \in Seq(S)
    BY <1>2
  <2>2. b \in Seq(S)
    BY <1>2
  <2>3. all = a \o b
    BY <1>1
  <2>4. /\ Len(a \o b) = Len(a) + Len(b)
        /\ \A i \in 1..(Len(a) + Len(b)) : (a \o b)[i] = IF i <= Len(a) THEN a[i] ELSE b[i - Len(a)]
    BY <2>1, <2>2, ConcatProperties
  <2> QED
    BY <1>3, <2>3, <2>4
<1>5. /\ 1 \in 1..(m + n) /\ 1 <= m
      /\ m + n \in 1..(m + n) /\ ~(m + n <= m) /\ (m + n) - m = n
  BY <1>2, <1>3
<1>6. all[1] = a[1] /\ all[m + n] = b[n]
  BY <1>4, <1>5
<1>7. Merged(one, two).lines = all
  BY <1>1 DEF Merged, Unit
<1>8. Head(all) = all[1] /\ Head(a) = a[1]
  OBVIOUS
<1>9. Last(all) = all[m + n] /\ Last(b) = b[n]
  BY <1>3, <1>4 DEF Last
<1> QED
  BY <1>1, <1>6, <1>7, <1>8, <1>9

LEMMA JoinOneTight ==
  ASSUME NEW d, NEW S, NEW units \in Seq(UnitOf(d, S)), NEW u \in UnitOf(d, S), NoneLoose(d, S, units),
         units # <<>> => ~Loose(d, S, Last(units), u)
  PROVE  /\ NoneLoose(d, S, JoinOne(units, u)) /\ JoinOne(units, u) # <<>>
         /\ Last(Last(JoinOne(units, u)).lines) = Last(u.lines)
         /\ Last(JoinOne(units, u)).steps # <<>> => u.steps # <<>>
<1>1. PICK n, made : n = Len(units) /\ made = JoinOne(units, u)
  OBVIOUS
<1>2. n \in Nat
  BY <1>1
<1>3. CASE units # <<>> /\ Follow(Last(units), u)
  <2>1. PICK front, last, m : front = Front(units) /\ last = Last(units) /\ m = Merged(last, u)
    OBVIOUS
  <2>2. /\ n > 0 /\ front \in Seq(UnitOf(d, S)) /\ last \in UnitOf(d, S) /\ Len(front) = n - 1
        /\ last = units[n] /\ \A k \in 1..(n - 1) : front[k] = units[k]
    <3>1. n > 0
      BY <1>1, <1>2, <1>3
    <3> QED
      BY <1>1, <1>3, <2>1, <3>1, FrontAndLast
  <2>3. m \in UnitOf(d, S) /\ Head(m.lines) = Head(last.lines) /\ Last(m.lines) = Last(u.lines)
    <3>1. last \in UnitOf(d, S)
      BY <2>2
    <3>2. Follow(last, u)
      BY <1>3, <2>1
    <3>3. Merged(last, u) \in UnitOf(d, S)
      BY <3>1, <3>2, MergedIs
    <3>4. /\ Head(Merged(last, u).lines) = Head(last.lines)
          /\ Last(Merged(last, u).lines) = Last(u.lines)
      BY <3>1, <3>2, MergedEnds
    <3> QED
      BY <2>1, <3>3, <3>4, Zenon
  <2>4. made = Append(front, m)
    BY <1>1, <1>3, <2>1 DEF JoinOne
  <2>5. Len(made) = n /\ made[n] = m /\ \A k \in 1..(n - 1) : made[k] = units[k]
    <3>1. /\ Len(made) = Len(front) + 1 /\ made[Len(front) + 1] = m
          /\ \A k \in 1..Len(front) : made[k] = front[k]
      BY <2>2, <2>3, <2>4, AppendProperties
    <3> QED
      BY <1>2, <2>2, <3>1, SMTT(20)
  <2>6. ASSUME NEW one PROVE Loose(d, S, one, m) => Loose(d, S, one, last)
    BY <2>3 DEF Loose, WrapsFrom
  <2>7. ASSUME NEW k \in 1..(n - 1) PROVE ~Loose(d, S, made[k], made[k + 1])
    <3>1. ~Loose(d, S, units[k], units[k + 1]) /\ made[k] = units[k]
      BY <1>1, <2>5 DEF NoneLoose
    <3>2. CASE k = n - 1
      <4>1. made[k + 1] = m /\ units[k + 1] = last
        BY <1>2, <2>2, <2>5, <3>2
      <4> QED
        BY <2>6, <3>1, <4>1
    <3>3. CASE k # n - 1
      <4>1. k + 1 \in 1..(n - 1)
        BY <1>2, <3>3
      <4> QED
        BY <2>5, <3>1, <4>1
    <3> QED
      BY <3>2, <3>3
  <2>8. NoneLoose(d, S, made)
    BY <2>5, <2>7 DEF NoneLoose
  <2>9. Last(made) = m /\ made # <<>>
    BY <1>2, <2>2, <2>5 DEF Last
  <2>10. u.steps # <<>>
    BY <1>3 DEF Follow
  <2> QED
    BY <1>1, <2>3, <2>8, <2>9, <2>10
<1>4. CASE ~(units # <<>> /\ Follow(Last(units), u))
  <2>1. made = Append(units, u)
    BY <1>1, <1>4 DEF JoinOne
  <2>2. Len(made) = n + 1 /\ made[n + 1] = u /\ \A k \in 1..n : made[k] = units[k]
    BY <1>1, <2>1, AppendProperties
  <2>3. ASSUME NEW k \in 1..n PROVE ~Loose(d, S, made[k], made[k + 1])
    <3>1. CASE k = n
      <4>1. units # <<>> /\ Last(units) = units[n]
        BY <1>1, <1>2, <3>1 DEF Last
      <4> QED
        BY <2>2, <3>1, <4>1
    <3>2. CASE k # n
      <4>1. k \in 1..(n - 1) /\ k + 1 \in 1..n
        BY <1>2, <3>2
      <4>2. ~Loose(d, S, units[k], units[k + 1])
        BY <1>1, <4>1 DEF NoneLoose
      <4> QED
        BY <2>2, <4>1, <4>2
    <3> QED
      BY <3>1, <3>2
  <2>4. NoneLoose(d, S, made)
    <3>1. (n + 1) - 1 = n
      BY <1>2
    <3> QED
      BY <2>2, <2>3, <3>1 DEF NoneLoose
  <2>5. Last(made) = u /\ made # <<>>
    BY <1>2, <2>2 DEF Last
  <2> QED
    BY <1>1, <2>4, <2>5
<1> QED
  BY <1>3, <1>4

LEMMA JoinedIsTight ==
  ASSUME NEW d, NEW S, NEW units \in Seq(UnitOf(d, S)), NoneLoose(d, S, units)
  PROVE  NoneLoose(d, S, Joined(units))
<1>1. PICK h : JoinSteps(h, units)
  BY JoinStepsExist
<1>2. PICK n : n = Len(units)
  OBVIOUS
<1>3. n \in Nat /\ \A k \in 1..n : units[k] \in UnitOf(d, S)
  BY <1>2
<1> DEFINE W == {k \in 0..n : JoinTight(d, S, units, k, h[k])}
<1>4. 0 \in W
  <2>1. h[0] = <<>> /\ 0 \in 0..n
    BY <1>1, <1>3 DEF JoinSteps
  <2>2. <<>> \in Seq(UnitOf(d, S)) /\ NoneLoose(d, S, <<>>)
    BY DEF NoneLoose
  <2>3. JoinTight(d, S, units, 0, <<>>)
    BY <2>2 DEF JoinTight
  <2> QED
    BY <2>1, <2>3
<1>5. ASSUME NEW k \in 1..n, k - 1 \in W PROVE k \in W
  <2>1. PICK made, u : made = h[k - 1] /\ u = units[k]
    OBVIOUS
  <2>2. JoinTight(d, S, units, k - 1, made)
    BY <1>5, <2>1
  <2>3. h[k] = JoinOne(made, u) /\ u \in UnitOf(d, S)
    BY <1>1, <1>2, <1>3, <2>1 DEF JoinSteps
  <2>4. made \in Seq(UnitOf(d, S)) /\ NoneLoose(d, S, made)
    BY <2>2 DEF JoinTight
  <2>5. made # <<>> => ~Loose(d, S, Last(made), u)
    <3> SUFFICES ASSUME made # <<>>, Loose(d, S, Last(made), u) PROVE FALSE
      OBVIOUS
    <3>1. /\ k - 1 \in 1..n /\ Last(Last(made).lines) = Last(units[k - 1].lines)
          /\ Last(made).steps # <<>> => units[k - 1].steps # <<>>
      BY <1>2, <2>2 DEF JoinTight
    <3>2. Loose(d, S, units[k - 1], u)
      BY <3>1 DEF Loose, WrapsFrom
    <3>3. k - 1 \in 1..(n - 1) /\ (k - 1) + 1 = k
      BY <1>3, <3>1
    <3> QED
      BY <1>2, <2>1, <3>2, <3>3 DEF NoneLoose
  <2>6. PICK next : next = JoinOne(made, u)
    OBVIOUS
  <2>7. /\ next \in Seq(UnitOf(d, S)) /\ NoneLoose(d, S, next) /\ next # <<>>
        /\ Last(Last(next).lines) = Last(u.lines) /\ (Last(next).steps # <<>> => u.steps # <<>>)
    <3>1. u \in UnitOf(d, S)
      BY <2>3
    <3>2. made \in Seq(UnitOf(d, S))
      BY <2>4
    <3>3. next \in Seq(UnitOf(d, S))
      BY <2>6, <3>1, <3>2, JoinOneType
    <3> QED
      BY <2>4, <2>5, <2>6, <3>1, <3>2, <3>3, JoinOneTight
  <2>8. JoinTight(d, S, units, k, next)
    BY <1>2, <2>1, <2>7 DEF JoinTight
  <2>9. k \in 0..n /\ h[k] = next
    BY <1>3, <2>3, <2>6
  <2> QED
    BY <2>8, <2>9
<1> HIDE DEF W
<1>6. \A k \in 1..n : k - 1 \in W => k \in W
  BY <1>5
<1>7. \A k \in 0..n : k \in W
  BY <1>3, <1>4, <1>6, EveryPlace
<1>8. JoinTight(d, S, units, n, h[n])
  BY <1>3, <1>7 DEF W
<1>9. Joined(units) = h[n]
  BY <1>1, <1>2 DEF JoinSteps
<1> QED
  BY <1>8, <1>9 DEF JoinTight

LEMMA EndsAreIn ==
  ASSUME NEW T, NEW list \in Seq(T), list # <<>>
  PROVE  /\ Head(list) \in ToSet(list) /\ Head(list) \in T /\ Head(list) = list[1]
         /\ Last(list) \in ToSet(list) /\ Last(list) \in T /\ Last(list) = list[Len(list)]
<1>1. PICK n : n = Len(list)
  OBVIOUS
<1>2. n \in Nat /\ n > 0 /\ 1 \in 1..n /\ n \in 1..n /\ DOMAIN list = 1..n
  BY <1>1
<1>3. Head(list) = list[1] /\ Last(list) = list[n]
  BY <1>1 DEF Last
<1>4. list[1] \in T /\ list[n] \in T
  BY <1>1, <1>2
<1>5. list[1] \in ToSet(list) /\ list[n] \in ToSet(list)
  BY <1>2 DEF ToSet
<1> QED
  BY <1>1, <1>3, <1>4, <1>5

\* The lines of units are those of each.
LEMMA LinesOfUnits ==
  ASSUME NEW d, NEW S, NEW units \in Seq(UnitOf(d, S))
  PROVE  ToSet(LinesIn(units)) = UNION {ToSet(u.lines) : u \in ToSet(units)}
<1>1. PICK n, seqs : n = Len(units) /\ seqs = [k \in DOMAIN units |-> units[k].lines]
  OBVIOUS
<1>2. n \in Nat /\ DOMAIN units = 1..n /\ \A k \in 1..n : units[k] \in UnitOf(d, S)
  BY <1>1
<1>3. \A k \in 1..n : seqs[k] = units[k].lines /\ seqs[k] \in Seq(S)
  BY <1>1, <1>2, UnitHas
<1>4. seqs \in Seq(Seq(S)) /\ Len(seqs) = n
  <2>1. seqs = [k \in 1..n |-> seqs[k]]
    BY <1>1, <1>2
  <2> QED
    BY <1>2, <1>3, <2>1, MadeList
<1>5. ToSet(FlattenSeq(seqs)) = UNION {ToSet(seqs[k]) : k \in 1..n}
  BY <1>4, FlattenElements
<1>6. LinesIn(units) = FlattenSeq(seqs)
  BY <1>1 DEF LinesIn
<1>7. ToSet(units) = {units[k] : k \in 1..n}
  BY <1>1, ToSetIs
<1>8. {ToSet(u.lines) : u \in ToSet(units)} = {ToSet(seqs[k]) : k \in 1..n}
  BY <1>3, <1>7
<1> QED
  BY <1>5, <1>6, <1>8

\* A table's units have no steps, and its first line is a row of it.
TableHead(units, rows) ==
  /\ units # <<>> /\ Last(units).steps = <<>>
  /\ Head(Head(units).lines) \in ToSet(rows)

LEMMA TableIsTight ==
  ASSUME NEW d, NEW S, NEW T, NEW rows \in Seq(T), rows # <<>>
  PROVE  NoneLoose(d, S, TableUnits(d, rows)) /\ TableHead(TableUnits(d, rows), rows)
<1>1. PICK n, l : n = HeadingCount(d, rows) /\ l = Len(rows)
  OBVIOUS
<1>2. l \in Nat /\ l > 0 /\ DOMAIN rows = 1..l
  BY <1>1
<1>3. n \in 0..l
  BY <1>1, <1>2, HeadingRows
<1>4. PICK heading, m : heading = SubSeq(rows, 1, n) /\ m = l - n
  OBVIOUS
<1>5. m \in Nat
  BY <1>2, <1>3, <1>4
<1>6. PICK one : one = IF n = 0 THEN <<>> ELSE <<Unit(heading, <<>>, TRUE, TRUE)>>
  OBVIOUS
<1>7. PICK two : two = [k \in 1..m |-> Unit(<<rows[n + k]>>, <<>>, TRUE, FALSE)]
  OBVIOUS
<1>8. PICK units : units = one \o two
  OBVIOUS
<1>9. TableUnits(d, rows) = units
  BY <1>1, <1>4, <1>6, <1>7, <1>8 DEF TableUnits
<1> DEFINE U == {u \in {Unit(heading, <<>>, TRUE, TRUE)} \cup {Unit(<<rows[i]>>, <<>>, TRUE, FALSE) : i \in 1..l} :
                   u.steps = <<>> /\ Head(u.lines) \in ToSet(rows)}
<1>10. \A i \in 1..l : rows[i] \in ToSet(rows)
  BY <1>2 DEF ToSet
<1>11. \A i \in 1..l : Unit(<<rows[i]>>, <<>>, TRUE, FALSE) \in U
  <2>1. ASSUME NEW i \in 1..l PROVE Unit(<<rows[i]>>, <<>>, TRUE, FALSE) \in U
    <3>1. PICK u : u = Unit(<<rows[i]>>, <<>>, TRUE, FALSE)
      OBVIOUS
    <3>2. u.steps = <<>> /\ u.lines = <<rows[i]>>
      BY <3>1 DEF Unit
    <3>3. Head(<<rows[i]>>) = rows[i]
      OBVIOUS
    <3> QED
      BY <1>10, <3>1, <3>2, <3>3
  <2> QED
    BY <2>1
<1>12. n # 0 => Unit(heading, <<>>, TRUE, TRUE) \in U
  <2> SUFFICES ASSUME n # 0 PROVE Unit(heading, <<>>, TRUE, TRUE) \in U
    OBVIOUS
  <2>1. PICK u : u = Unit(heading, <<>>, TRUE, TRUE)
    OBVIOUS
  <2>2. u.steps = <<>> /\ u.lines = heading
    BY <2>1 DEF Unit
  <2>3. 1 \in 1..(Len(rows) + 1) /\ n \in (1 - 1)..Len(rows) /\ 1 \in 1..(n - 1 + 1) /\ 1 + 1 - 1 = 1
    BY <1>1, <1>2, <1>3
  <2>4. heading[1] = rows[1] /\ 1 \in 1..l
    BY <1>2, <1>4, <2>3, Piece
  <2>5. Head(heading) = rows[1]
    BY <2>4
  <2> QED
    BY <1>10, <2>1, <2>2, <2>4, <2>5
<1> HIDE DEF U
<1>13. one \in Seq(U)
  <2>1. CASE n = 0
    BY <1>6, <2>1
  <2>2. CASE n # 0
    <3>1. PICK u : u = Unit(heading, <<>>, TRUE, TRUE)
      OBVIOUS
    <3>2. u \in U /\ one = <<u>>
      BY <1>6, <1>12, <2>2, <3>1
    <3> QED
      BY <3>2
  <2> QED
    BY <2>1, <2>2
<1>14. two \in Seq(U) /\ Len(two) = m
  <2>1. ASSUME NEW k \in 1..m PROVE two[k] \in U
    <3>1. n + k \in 1..l
      BY <1>2, <1>3, <1>4
    <3> QED
      BY <1>7, <1>11, <3>1
  <2>2. two = [k \in 1..m |-> two[k]]
    BY <1>7
  <2> QED
    BY <1>5, <2>1, <2>2, MadeList
<1>15. units \in Seq(U) /\ Len(units) = Len(one) + m
  BY <1>8, <1>13, <1>14, ConcatProperties
<1>16. Len(units) > 0
  <2>1. Len(one) \in Nat /\ (n # 0 => Len(one) > 0)
    BY <1>6, <1>13
  <2>2. n = 0 => m > 0
    BY <1>2, <1>4
  <2> QED
    BY <1>3, <1>5, <1>15, <2>1, <2>2
<1>17. \A i \in 1..Len(units) : units[i].steps = <<>> /\ Head(units[i].lines) \in ToSet(rows)
  <2>1. \A i \in 1..Len(units) : units[i] \in U
    BY <1>15
  <2> QED
    BY <2>1 DEF U
<1>18. PICK c : c = Len(units)
  OBVIOUS
<1>19. c \in Nat /\ c > 0 /\ 1 \in 1..c /\ c \in 1..c
  BY <1>15, <1>16, <1>18
<1>20. units # <<>> /\ Last(units) = units[c] /\ Head(units) = units[1]
  BY <1>15, <1>18, <1>19 DEF Last
<1>21. TableHead(units, rows)
  BY <1>17, <1>18, <1>19, <1>20 DEF TableHead
<1>22. NoneLoose(d, S, units)
  <2>1. \A i \in 1..(c - 1) : i \in 1..c
    BY <1>19
  <2> QED
    BY <1>17, <1>18, <2>1 DEF NoneLoose, Loose, WrapsFrom
<1> QED
  BY <1>9, <1>21, <1>22

LEMMA SegmentIsTight ==
  ASSUME NEW d, IsDocument(d), NEW marks, NEW S \in SUBSET Indices(d), NEW rows \in Seq(S),
         OnOnePage(d, rows), InTables(d, S, rows), NEW k \in StartsOf(d, rows)
  PROVE  LET units == SegmentOf(d, marks, rows, k) IN
         /\ NoneLoose(d, S, units)
         /\ InTableOf(d, rows, k) => /\ units # <<>> /\ Last(units).steps = <<>>
                                     /\ Head(Head(units).lines) \in Tabular(d, S)
<1>1. rows \in Seq(Indices(d)) /\ rows \in Seq(Nat) /\ Len(rows) \in Nat
  BY RowsAre
<1>2. k \in 1..Len(rows)
  BY <1>1 DEF StartsOf
<1>3. CASE InTableOf(d, rows, k)
  <2>1. PICK b, part : b = RunAt(d, rows, k)[2] /\ part = SubSeq(rows, k, b)
    OBVIOUS
  <2>2. RunAt(d, rows, k) \in TableRuns(d, rows) /\ RunAt(d, rows, k)[1] = k /\ b \in k..Len(rows)
    BY <1>1, <1>3, <2>1, RunAtIs
  <2>3. k \in 1..(Len(rows) + 1) /\ b \in (k - 1)..Len(rows) /\ b - k + 1 > 0
    BY <1>1, <1>2, <2>2
  <2>4. part \in Seq(S) /\ Len(part) = b - k + 1
    BY <2>1, <2>3, Piece
  <2>5. part # <<>>
    BY <2>3, <2>4
  <2>6. ToSet(part) = {rows[j] : j \in k..b}
    BY <2>1, <2>3, PieceElements
  <2>7. ASSUME NEW j \in k..b PROVE rows[j] \in Tabular(d, S)
    <3>1. InTableOf(d, rows, j)
      BY <2>1, <2>2 DEF InTableOf
    <3>2. j \in DOMAIN rows
      BY <1>1, <1>2, <2>2
    <3> QED
      BY <3>1, <3>2 DEF InTables
  <2>8. ToSet(part) \subseteq Tabular(d, S)
    BY <2>6, <2>7
  <2>9. SegmentOf(d, marks, rows, k) = TableUnits(d, part)
    BY <1>3, <2>1, <2>2 DEF SegmentOf, TableAt
  <2>10. NoneLoose(d, S, TableUnits(d, part)) /\ TableHead(TableUnits(d, part), part)
    BY <2>4, <2>5, TableIsTight
  <2> QED
    BY <2>8, <2>9, <2>10 DEF TableHead
<1>4. CASE ~InTableOf(d, rows, k)
  <2>1. PICK b, part, prose : /\ b = ProseEndOf(d, rows, k) /\ part = SubSeq(rows, k, b)
                              /\ prose = Among(part, Indices(d) \ marks)
    OBVIOUS
  <2>2. b \in k..Len(rows)
    BY <1>2, <1>4, <2>1, ProseEndIs
  <2>3. k \in 1..(Len(rows) + 1) /\ b \in (k - 1)..Len(rows)
    BY <1>1, <1>2, <2>2
  <2>4. part \in Seq(S) /\ ToSet(part) = {rows[i] : i \in k..b}
    BY <2>1, <2>3, Piece, PieceElements
  <2>5. prose \in Seq(S) /\ ToSet(prose) \subseteq ToSet(part)
    <3>1. part \in Seq(S)
      BY <2>4
    <3>2. /\ Among(part, Indices(d) \ marks) \in Seq(S)
          /\ ToSet(Among(part, Indices(d) \ marks)) = ToSet(part) \cap (Indices(d) \ marks)
      BY <3>1, AmongElements
    <3> QED
      BY <2>1, <3>2
  <2>6. ToSet(prose) \subseteq ToSet(rows)
    <3>1. ToSet(rows) = {rows[i] : i \in 1..Len(rows)}
      BY ToSetIs
    <3>2. k..b \subseteq 1..Len(rows)
      BY <1>1, <1>2, <2>2
    <3> QED
      BY <2>4, <2>5, <3>1, <3>2
  <2>7. OnOnePage(d, prose)
    BY <2>6, OnePagePart
  <2>8. SegmentOf(d, marks, rows, k) = ProseUnits(d, prose)
    BY <1>4, <2>1 DEF SegmentOf, ProseAt
  <2>9. NoneWraps(d, ProseUnits(d, prose))
    BY <2>5, <2>7, ProseWrapsIn
  <2> QED
    BY <1>4, <2>8, <2>9 DEF NoneWraps, NoneLoose, Loose
<1> QED
  BY <1>3, <1>4

\* Before prose there is nothing, or a table.
LEMMA TableBeforeProse ==
  ASSUME NEW d, IsDocument(d), NEW rows \in Seq(Indices(d)), rows \in Seq(Nat),
         NEW starts \in Seq(StartsOf(d, rows)), starts \in Seq(Nat), Ascending(starts),
         ToSet(starts) = StartsOf(d, rows), NEW m \in 2..Len(starts), ~InTableOf(d, rows, starts[m])
  PROVE  InTableOf(d, rows, starts[m - 1])
<1>1. PICK n, l, Q : n = Len(starts) /\ l = Len(rows) /\ Q = StartsOf(d, rows)
  OBVIOUS
<1>2. n \in Nat /\ DOMAIN starts = 1..n /\ m \in 1..n /\ m - 1 \in 1..n /\ \A i \in 1..n : starts[i] \in Q
  BY <1>1
<1>3. l \in Nat /\ DOMAIN rows = 1..l /\ Q \in SUBSET (1..l)
  BY <1>1 DEF StartsOf
<1>4. PICK t, s : t = starts[m] /\ s = starts[m - 1]
  OBVIOUS
<1>5. t \in 1..l /\ s \in 1..l /\ s < t /\ t \in Q /\ s \in Q
  <2>1. t \in Q /\ s \in Q
    BY <1>2, <1>4
  <2>2. starts[m - 1] < starts[m]
    BY <1>2 DEF Ascending
  <2> QED
    BY <1>3, <1>4, <2>1, <2>2
<1>6. ~\E r \in TableRuns(d, rows) : r[1] = t
  <2> SUFFICES ASSUME NEW r \in TableRuns(d, rows), r[1] = t PROVE FALSE
    OBVIOUS
  <2>1. TableRun(d, rows, r[1], r[2])
    BY RunsAreTables
  <2>2. t \in r[1]..r[2]
    BY <1>5, <2>1 DEF TableRun
  <2> QED
    BY <1>4, <2>2 DEF InTableOf
<1>7. t # 1 /\ InTableOf(d, rows, t - 1)
  BY <1>1, <1>5, <1>6 DEF StartsOf
<1>8. t - 1 \in 1..l
  BY <1>3, <1>5, <1>7
<1>9. PICK k \in Q : t - 1 \in k..SegmentEnd(d, rows, k)
  BY <1>1, <1>3, <1>8, SegmentsCover
<1>10. PICK e : e = SegmentEnd(d, rows, k)
  OBVIOUS
<1>11. /\ e \in k..l /\ \A j \in k..e : InTableOf(d, rows, j) <=> InTableOf(d, rows, k)
       /\ \A q \in Q : k < q => e < q
  BY <1>1, <1>10, SegmentEndIs
<1>12. InTableOf(d, rows, k) /\ k <= t - 1 /\ t - 1 <= e /\ k \in 1..l
  BY <1>3, <1>7, <1>9, <1>10, <1>11
<1>13. PICK i \in 1..n : starts[i] = k
  <2>1. ToSet(starts) = {starts[i] : i \in 1..n}
    BY <1>1, ToSetIs
  <2> QED
    BY <1>1, <2>1
<1>14. i < m
  <2> SUFFICES ASSUME m <= i PROVE FALSE
    BY <1>2
  <2>1. i = m \/ m < i
    BY <1>2
  <2>2. m < i => starts[m] < starts[i]
    BY <1>2 DEF Ascending
  <2>3. t = k \/ t < k
    BY <1>4, <1>13, <2>1, <2>2
  <2> QED
    BY <1>5, <1>12, <2>3
<1>15. i = m - 1
  <2> SUFFICES ASSUME i < m - 1 PROVE FALSE
    BY <1>2, <1>14
  <2>1. k < s
    BY <1>2, <1>4, <1>13 DEF Ascending
  <2>2. e < s
    BY <1>5, <1>11, <2>1
  <2> QED
    BY <1>5, <1>11, <1>12, <2>2
<1> QED
  BY <1>12, <1>13, <1>15

LEMMA PageIsTight ==
  ASSUME NEW d, IsDocument(d), NEW marks, NEW S \in SUBSET Indices(d), NEW rows \in Seq(S),
         OnOnePage(d, rows), InTables(d, S, rows)
  PROVE  NoneLoose(d, S, PageUnits(d, marks, rows))
<1>1. PICK starts : starts = InReadingOrder(StartsOf(d, rows))
  OBVIOUS
<1>2. rows \in Seq(Indices(d)) /\ rows \in Seq(Nat) /\ Len(rows) \in Nat
  BY RowsAre
<1>3. /\ starts \in Seq(StartsOf(d, rows)) /\ starts \in Seq(Nat) /\ Ascending(starts)
      /\ ToSet(starts) = StartsOf(d, rows)
  <2>1. Len(rows) \in Nat /\ StartsOf(d, rows) \in SUBSET (1..Len(rows))
    BY RowsAre DEF StartsOf
  <2> QED
    BY <1>1, <2>1, ReadingOrder
<1>4. PICK seqs : seqs = [n \in DOMAIN starts |-> SegmentOf(d, marks, rows, starts[n])]
  OBVIOUS
<1>5. PICK n : n = Len(starts)
  OBVIOUS
<1>6. n \in Nat /\ DOMAIN starts = 1..n /\ \A m \in 1..n : starts[m] \in StartsOf(d, rows)
  BY <1>3, <1>5
<1>7. \A m \in 1..n : seqs[m] \in Seq(UnitOf(d, S))
  <2>1. \A k \in StartsOf(d, rows) : SegmentOf(d, marks, rows, k) \in Seq(UnitOf(d, S))
    BY SegmentIs
  <2> QED
    BY <1>4, <1>6, <2>1
<1>8. seqs = [m \in 1..n |-> seqs[m]]
  BY <1>4, <1>6
<1>9. seqs \in Seq(Seq(UnitOf(d, S))) /\ Len(seqs) = n
  BY <1>6, <1>7, <1>8, MadeList
<1>10. ASSUME NEW m \in 1..n
       PROVE  /\ NoneLoose(d, S, seqs[m])
              /\ InTableOf(d, rows, starts[m]) =>
                   /\ seqs[m] # <<>> /\ Last(seqs[m]).steps = <<>>
                   /\ Head(Head(seqs[m]).lines) \in Tabular(d, S)
  <2>1. PICK k : k = starts[m]
    OBVIOUS
  <2>2. k \in StartsOf(d, rows) /\ seqs[m] = SegmentOf(d, marks, rows, k)
    BY <1>4, <1>6, <2>1
  <2> QED
    BY <2>1, <2>2, SegmentIsTight
<1>11. ASSUME NEW j \in 1..n, NEW k \in 1..n, Nearest(seqs, j, k)
       PROVE  ~Loose(d, S, Last(seqs[j]), Head(seqs[k]))
  <2>1. CASE InTableOf(d, rows, starts[k])
    BY <1>10, <2>1 DEF Loose
  <2>2. CASE ~InTableOf(d, rows, starts[k])
    <3>1. k \in 2..n /\ k - 1 \in 1..n
      BY <1>6, <1>11 DEF Nearest
    <3>2. InTableOf(d, rows, starts[k - 1])
      BY <1>2, <1>3, <1>5, <2>2, <3>1, TableBeforeProse
    <3>3. seqs[k - 1] # <<>> /\ Last(seqs[k - 1]).steps = <<>>
      BY <1>10, <3>1, <3>2
    <3>4. j = k - 1
      <4> SUFFICES ASSUME j # k - 1 PROVE FALSE
        OBVIOUS
      <4>1. k - 1 \in (j + 1)..(k - 1)
        BY <1>6, <1>11 DEF Nearest
      <4> QED
        BY <1>11, <3>3, <4>1 DEF Nearest
    <3> QED
      BY <3>3, <3>4 DEF Loose, WrapsFrom
  <2> QED
    BY <2>1, <2>2
<1>12. NoneLoose(d, S, FlattenSeq(seqs))
  BY <1>9, <1>10, <1>11, LooseFlatten
<1> QED
  BY <1>1, <1>4, <1>12, PageUnitsIs

\* In a region a row that wraps from a procedure on its page is in its unit.
LEMMA RegionIsTight ==
  ASSUME NEW d, IsDocument(d), NEW marks, NEW blocks, NEW contents, NEW span
  PROVE  NoneLoose(d, Taken(d, blocks, contents, span), RegionUnits(d, marks, blocks, contents, span))
<1>1. PICK S, U : S = Taken(d, blocks, contents, span) /\ U = UnitOf(d, S)
  OBVIOUS
<1>2. S \in SUBSET Indices(d)
  BY <1>1 DEF Taken
<1>3. PICK seqs : seqs = PagesIn(d, marks, blocks, contents, span)
  OBVIOUS
<1>4. d.pages \in Nat
  BY DEF IsDocument
<1>5. ASSUME NEW p \in 1..d.pages
      PROVE  /\ seqs[p] \in Seq(U) /\ NoneLoose(d, S, seqs[p])
             /\ \A i \in ToSet(LinesIn(seqs[p])) : d.lines[i].page = p
  <2>1. seqs[p] = PageOf(d, marks, blocks, contents, span, p)
    BY <1>3 DEF PagesIn
  <2>2. seqs[p] \in Seq(U)
    BY <1>1, <2>1, PageOfType
  <2>3. ASSUME p \in contents PROVE NoneLoose(d, S, seqs[p])
    <3>1. seqs[p] = <<>>
      BY <2>1, <2>3 DEF PageOf
    <3> QED
      BY <3>1 DEF NoneLoose
  <2>4. ASSUME p \notin contents PROVE NoneLoose(d, S, seqs[p])
    <3>1. PICK rows : rows = InReadingOrder(TakenOn(d, blocks, span, p))
      OBVIOUS
    <3>2. rows \in Seq(S) /\ OnOnePage(d, rows)
      BY <1>1, <2>4, <3>1, TakenOnIs
    <3>3. InTables(d, S, rows)
      BY <1>1, <2>4, <3>1, PageRows
    <3>4. NoneLoose(d, S, PageUnits(d, marks, rows))
      BY <1>2, <3>2, <3>3, PageIsTight
    <3> QED
      BY <2>1, <2>4, <3>1, <3>4 DEF PageOf
  <2>5. ToSet(LinesIn(seqs[p])) \subseteq OnPage(d, p)
    BY <2>1, PageOfLines DEF OrderedLines
  <2> QED
    BY <2>2, <2>3, <2>4, <2>5 DEF OnPage
<1>6. seqs = [p \in 1..d.pages |-> seqs[p]]
  BY <1>3 DEF PagesIn
<1>7. seqs \in Seq(Seq(U)) /\ Len(seqs) = d.pages
  BY <1>4, <1>5, <1>6, MadeList
<1>8. ASSUME NEW p \in 1..d.pages, NEW u \in ToSet(seqs[p]), NEW i \in ToSet(u.lines)
      PROVE  d.lines[i].page = p
  <2>1. seqs[p] \in Seq(UnitOf(d, S))
    BY <1>1, <1>5
  <2>2. ToSet(LinesIn(seqs[p])) = UNION {ToSet(v.lines) : v \in ToSet(seqs[p])}
    BY <2>1, LinesOfUnits
  <2>3. i \in ToSet(LinesIn(seqs[p]))
    BY <2>2
  <2> QED
    BY <1>5, <2>3
<1>9. ASSUME NEW j \in 1..d.pages, NEW k \in 1..d.pages, Nearest(seqs, j, k)
      PROVE  ~Loose(d, S, Last(seqs[j]), Head(seqs[k]))
  <2>1. PICK one, two : one = Last(seqs[j]) /\ two = Head(seqs[k])
    OBVIOUS
  <2>2. one \in ToSet(seqs[j]) /\ two \in ToSet(seqs[k]) /\ one \in U /\ two \in U
    <3>1. seqs[j] \in Seq(U) /\ seqs[j] # <<>>
      BY <1>5, <1>9 DEF Nearest
    <3>2. seqs[k] \in Seq(U) /\ seqs[k] # <<>>
      BY <1>5, <1>9 DEF Nearest
    <3>3. one \in ToSet(seqs[j]) /\ one \in U
      BY <2>1, <3>1, EndsAreIn
    <3>4. two \in ToSet(seqs[k]) /\ two \in U
      BY <2>1, <3>2, EndsAreIn
    <3> QED
      BY <3>3, <3>4
  <2>3. one.lines \in Seq(S) /\ one.lines # <<>> /\ two.lines \in Seq(S) /\ two.lines # <<>>
    BY <1>1, <2>2, UnitHas
  <2>4. Last(one.lines) \in ToSet(one.lines)
    BY <2>3, EndsAreIn
  <2>5. Head(two.lines) \in ToSet(two.lines)
    BY <2>3, EndsAreIn
  <2>6. d.lines[Last(one.lines)].page = j /\ d.lines[Head(two.lines)].page = k
    BY <1>8, <2>2, <2>4, <2>5
  <2>7. j # k
    BY <1>9 DEF Nearest
  <2> QED
    BY <2>1, <2>6, <2>7 DEF Loose
<1>10. PICK units : units = FlattenSeq(seqs)
  OBVIOUS
<1>11. units \in Seq(UnitOf(d, S))
  BY <1>1, <1>7, <1>10, FlattenIs
<1>12. NoneLoose(d, S, units)
  BY <1>5, <1>7, <1>9, <1>10, LooseFlatten
<1>13. RegionUnits(d, marks, blocks, contents, span) = Joined(units)
  BY <1>3, <1>10, RegionUnitsIs
<1> QED
  BY <1>1, <1>11, <1>12, <1>13, JoinedIsTight

\* The steps of lines that begin with a step, and of lines that have none after one.
LEMMA OneStep ==
  ASSUME NEW d, IsDocument(d), NEW e \in Indices(d), Step(d, e) # 0
  PROVE  Steps(d, <<e>>) = <<Step(d, e)>>
<1>1. PICK s : s = Step(d, e)
  OBVIOUS
<1>2. s \in Nat /\ s \in Nat \ {0}
  BY <1>1 DEF IsDocument, Step
<1>3. PICK list : list = [k \in DOMAIN <<e>> |-> Step(d, <<e>>[k])]
  OBVIOUS
<1>4. list = <<s>> /\ list \in Seq(Nat) /\ Len(list) = 1 /\ list[1] = s
  BY <1>1, <1>2, <1>3
<1>5. PICK h : Sifted(h, list, Nat \ {0})
  BY <1>4, AmongSteps
<1>6. h[0] = <<>> /\ 1 \in 1..Len(list) /\ 1 - 1 = 0
  BY <1>4, <1>5 DEF Sifted
<1>7. h[1] = Append(h[1 - 1], s) /\ Among(list, Nat \ {0}) = h[1]
  BY <1>2, <1>4, <1>5, <1>6 DEF Sifted
<1>8. Among(list, Nat \ {0}) = <<s>>
  <2>1. h[1 - 1] = <<>>
    BY <1>6, Zenon
  <2>2. Append(<<>>, s) = <<s>>
    OBVIOUS
  <2> QED
    BY <1>7, <2>1, <2>2, Zenon
<1> QED
  BY <1>1, <1>3, <1>8 DEF Steps

LEMMA FirstStep ==
  ASSUME NEW d, IsDocument(d), NEW rows \in Seq(Indices(d)), rows # <<>>, Step(d, rows[1]) # 0
  PROVE  Steps(d, rows) # <<>> /\ Head(Steps(d, rows)) = Step(d, rows[1])
<1>1. PICK n, e, tail : n = Len(rows) /\ e = rows[1] /\ tail = SubSeq(rows, 2, Len(rows))
  OBVIOUS
<1>2. n \in Nat /\ n > 0 /\ 1 \in 0..n /\ 1 \in 1..n /\ e \in Indices(d) /\ 1 + 1 = 2 /\ 1 - 1 = 0
  BY <1>1
<1>3. tail \in Seq(Indices(d)) /\ SubSeq(rows, 1, 1) \o tail = rows
  BY <1>1, <1>2, SplitAt
<1>4. SubSeq(rows, 1, 1) = <<e>>
  <2>1. SubSeq(rows, 1, 1) = Append(SubSeq(rows, 1, 0), e)
    BY <1>1, <1>2, SplitLast
  <2>2. SubSeq(rows, 1, 0) = <<>>
    BY WholeList
  <2>3. Append(<<>>, e) = <<e>>
    OBVIOUS
  <2> QED
    BY <2>1, <2>2, <2>3, Zenon
<1>5. Steps(d, rows) = Steps(d, <<e>>) \o Steps(d, tail)
  <2>1. <<e>> \in Seq(Indices(d))
    BY <1>2
  <2>2. Steps(d, <<e>> \o tail) = Steps(d, <<e>>) \o Steps(d, tail)
    BY <1>3, <2>1, StepsConcat
  <2> QED
    BY <1>3, <1>4, <2>2, Zenon
<1>6. Steps(d, <<e>>) = <<Step(d, e)>>
  BY <1>1, <1>2, OneStep
<1>7. PICK s, more : s = Step(d, e) /\ more = Steps(d, tail)
  OBVIOUS
<1>8. s \in Nat /\ more \in Seq(Nat)
  <2>1. more \in Seq(Nat \ {0})
    BY <1>3, <1>7, StepsAre
  <2> QED
    BY <1>2, <1>7, <2>1 DEF IsDocument, Step
<1>9. <<s>> \o more # <<>> /\ Head(<<s>> \o more) = s
  BY <1>8
<1> QED
  BY <1>1, <1>5, <1>6, <1>7, <1>9

LEMMA LastStep ==
  ASSUME NEW d, IsDocument(d), NEW rows \in Seq(Indices(d)), NEW p \in 1..Len(rows),
         Step(d, rows[p]) # 0, \A q \in (p + 1)..Len(rows) : Step(d, rows[q]) = 0
  PROVE  Steps(d, rows) # <<>> /\ Last(Steps(d, rows)) = Step(d, rows[p])
<1>1. PICK n, e, upto, tail, front :
        /\ n = Len(rows) /\ e = rows[p] /\ upto = SubSeq(rows, 1, p)
        /\ tail = SubSeq(rows, p + 1, Len(rows)) /\ front = SubSeq(rows, 1, p - 1)
  OBVIOUS
<1>2. n \in Nat /\ p \in 1..n /\ p \in 0..n /\ e \in Indices(d)
  BY <1>1
<1>3. /\ upto \in Seq(Indices(d)) /\ tail \in Seq(Indices(d)) /\ upto \o tail = rows
      /\ Len(tail) = n - p /\ \A k \in 1..(n - p) : tail[k] = rows[p + k]
  BY <1>1, <1>2, SplitAt
<1>4. front \in Seq(Indices(d)) /\ upto = Append(front, e)
  BY <1>1, <1>2, SplitLast
<1>5. upto = front \o <<e>>
  BY <1>2, <1>4
<1>6. Steps(d, tail) = <<>>
  <2>1. \A k \in 1..(n - p) : p + k \in (p + 1)..n
    BY <1>2
  <2>2. \A k \in 1..Len(tail) : Step(d, tail[k]) = 0
    BY <1>1, <1>3, <2>1
  <2> QED
    BY <1>3, <2>2, NoSteps
<1>7. Steps(d, rows) = (Steps(d, front) \o Steps(d, <<e>>)) \o <<>>
  <2>1. Steps(d, rows) = Steps(d, upto) \o Steps(d, tail)
    BY <1>3, StepsConcat
  <2>2. <<e>> \in Seq(Indices(d))
    BY <1>2
  <2>3. Steps(d, upto) = Steps(d, front) \o Steps(d, <<e>>)
    BY <1>4, <1>5, <2>2, StepsConcat
  <2> QED
    BY <1>6, <2>1, <2>3
<1>8. Steps(d, <<e>>) = <<Step(d, e)>>
  BY <1>1, <1>2, OneStep
<1>9. PICK s, more : s = Step(d, e) /\ more = Steps(d, front)
  OBVIOUS
<1>10. s \in Nat /\ more \in Seq(Nat)
  <2>1. more \in Seq(Nat \ {0})
    BY <1>4, <1>9, StepsAre
  <2> QED
    BY <1>2, <1>9, <2>1 DEF IsDocument, Step
<1>11. PICK m : m = Len(more)
  OBVIOUS
<1>12. PICK all : all = more \o <<s>>
  OBVIOUS
<1>13. m \in Nat /\ all \in Seq(Nat) /\ Len(all) = m + 1 /\ all[m + 1] = s
  BY <1>10, <1>11, <1>12
<1>14. all \o <<>> = all /\ all # <<>> /\ Last(all) = s
  BY <1>13 DEF Last
<1> QED
  BY <1>1, <1>7, <1>8, <1>9, <1>12, <1>14

\* A line of units, and where it stands.
LEMMA LineStands ==
  ASSUME NEW d, NEW S, NEW units \in Seq(UnitOf(d, S)), NEW i
  PROVE  i \in ToSet(LinesIn(units)) <=>
           \E a \in 1..Len(units) : \E p \in 1..Len(units[a].lines) : units[a].lines[p] = i
<1>1. PICK n : n = Len(units)
  OBVIOUS
<1>2. n \in Nat /\ ToSet(units) = {units[a] : a \in 1..n} /\ \A a \in 1..n : units[a] \in UnitOf(d, S)
  BY <1>1, ToSetIs
<1>3. \A a \in 1..n : ToSet(units[a].lines) = {units[a].lines[p] : p \in 1..Len(units[a].lines)}
  <2>1. \A a \in 1..n : units[a].lines \in Seq(S)
    BY <1>2, UnitHas
  <2> QED
    BY <2>1, ToSetIs
<1>4. ToSet(LinesIn(units)) = UNION {ToSet(u.lines) : u \in ToSet(units)}
  BY LinesOfUnits
<1>5. i \in ToSet(LinesIn(units)) <=> \E a \in 1..n : i \in ToSet(units[a].lines)
  BY <1>2, <1>4
<1>6. \A a \in 1..n : i \in ToSet(units[a].lines) <=>
                       \E p \in 1..Len(units[a].lines) : units[a].lines[p] = i
  BY <1>3
<1> QED
  BY <1>1, <1>5, <1>6, Zenon

\* A step and the one it leads on to are in one of the units.
LEMMA StepLeadsIn ==
  ASSUME NEW d, IsDocument(d), NEW S \in SUBSET Indices(d), NEW units \in Seq(UnitOf(d, S)),
         NoneFollows(units), NoneLoose(d, S, units), Ascending(LinesIn(units)),
         NEW i \in ToSet(LinesIn(units)), NEW j \in ToSet(LinesIn(units)), i < j,
         Step(d, i) # 0, Step(d, j) = Step(d, i) + 1,
         \A m \in ToSet(LinesIn(units)) : i < m /\ m < j =>
           Step(d, m) = 0 /\ d.lines[m].wraps /\ d.lines[m].page = d.lines[i].page,
         \A m \in ToSet(LinesIn(units)) : i <= m /\ m <= j => m \notin Tabular(d, S)
  PROVE  \E u \in ToSet(units) : {i, j} \subseteq ToSet(u.lines)
<1>1. PICK n : n = Len(units)
  OBVIOUS
<1>2. n \in Nat /\ ToSet(units) = {units[a] : a \in 1..n} /\ \A a \in 1..n : units[a] \in UnitOf(d, S)
  BY <1>1, ToSetIs
<1>3. \A a \in 1..n :
        /\ units[a].lines \in Seq(S) /\ units[a].lines # <<>> /\ Len(units[a].lines) \in Nat /\ Len(units[a].lines) > 0
        /\ StepsRead(d, S, units[a].lines, units[a].steps)
        /\ ToSet(units[a].lines) = {units[a].lines[p] : p \in 1..Len(units[a].lines)}
  <2>1. \A a \in 1..n :
          /\ units[a].lines \in Seq(S) /\ units[a].lines # <<>> /\ Len(units[a].lines) \in Nat
          /\ Len(units[a].lines) > 0 /\ StepsRead(d, S, units[a].lines, units[a].steps)
    BY <1>2, UnitHas
  <2> QED
    BY <2>1, ToSetIs
<1>4. PICK A : A = ToSet(LinesIn(units))
  OBVIOUS
<1>5. \A a \in 1..n : \A p \in 1..Len(units[a].lines) : units[a].lines[p] \in A
  BY <1>1, <1>4, LineStands
<1>6. PICK a \in 1..n : \E p \in 1..Len(units[a].lines) : units[a].lines[p] = i
  BY <1>1, LineStands
<1>7. PICK p \in 1..Len(units[a].lines) : units[a].lines[p] = i
  BY <1>6
<1>8. PICK b \in 1..n : \E q \in 1..Len(units[b].lines) : units[b].lines[q] = j
  BY <1>1, LineStands
<1>9. PICK q \in 1..Len(units[b].lines) : units[b].lines[q] = j
  BY <1>8
<1>10. S \in SUBSET Nat /\ i \in Nat /\ j \in Nat
  <2>1. Indices(d) \subseteq Nat
    BY IndicesAre
  <2>2. S \in SUBSET Nat
    BY <2>1
  <2>3. units[a].lines \in Seq(S) /\ units[b].lines \in Seq(S)
    BY <1>3
  <2>4. i \in S /\ j \in S
    BY <1>7, <1>9, <2>3
  <2> QED
    BY <2>2, <2>4
<1>11. \A e \in 1..n, f \in 1..n : \A x \in 1..Len(units[e].lines), y \in 1..Len(units[f].lines) :
         e < f \/ (e = f /\ x < y) => units[e].lines[x] < units[f].lines[y]
  <2> SUFFICES ASSUME NEW e \in 1..n, NEW f \in 1..n,
                      NEW x \in 1..Len(units[e].lines), NEW y \in 1..Len(units[f].lines),
                      e < f \/ (e = f /\ x < y)
               PROVE  units[e].lines[x] < units[f].lines[y]
    OBVIOUS
  <2> QED
    BY <1>1, <1>10, PlacedBefore
<1>12. CASE a = b
  <2>1. i \in ToSet(units[a].lines)
    BY <1>3, <1>7
  <2>2. j \in ToSet(units[b].lines)
    BY <1>3, <1>9
  <2>3. units[a] \in ToSet(units)
    BY <1>2
  <2> QED
    BY <1>12, <2>1, <2>2, <2>3
<1>13. ~(b < a)
  <2>1. b < a => units[b].lines[q] < units[a].lines[p]
    BY <1>7, <1>9, <1>11
  <2> QED
    BY <1>7, <1>9, <1>10, <2>1
<1>14. ~(a < b)
  <2> SUFFICES ASSUME a < b PROVE FALSE
    OBVIOUS
  <2>1. PICK one, two : one = units[a] /\ two = units[a + 1]
    OBVIOUS
  <2>2. a \in 1..(n - 1) /\ a + 1 \in 1..n
    BY <1>2
  <2>3. ~Follow(one, two) /\ ~Loose(d, S, one, two)
    BY <1>1, <2>1, <2>2 DEF NoneFollows, NoneLoose
  <2>4. PICK l : l = Len(one.lines)
    OBVIOUS
  <2>5. /\ one.lines \in Seq(S) /\ one.lines # <<>> /\ l \in Nat /\ p \in 1..l
        /\ two.lines \in Seq(S) /\ two.lines # <<>> /\ 1 \in 1..Len(two.lines)
    BY <1>3, <1>7, <2>1, <2>2, <2>4
  <2>6. \A r \in (p + 1)..l : /\ Step(d, one.lines[r]) = 0
                              /\ d.lines[one.lines[r]].page = d.lines[i].page
    <3> SUFFICES ASSUME NEW r \in (p + 1)..l
                 PROVE  Step(d, one.lines[r]) = 0 /\ d.lines[one.lines[r]].page = d.lines[i].page
      OBVIOUS
    <3>1. r \in 1..l /\ p < r
      BY <2>5
    <3>2. i < one.lines[r] /\ one.lines[r] < j /\ one.lines[r] \in A
      BY <1>5, <1>7, <1>9, <1>11, <2>1, <2>4, <3>1
    <3> QED
      BY <1>4, <3>2
  <2>7. d.lines[Last(one.lines)].page = d.lines[i].page
    <3>1. Last(one.lines) = one.lines[l]
      BY <2>4, <2>5, EndsAreIn
    <3>2. CASE l = p
      BY <1>7, <2>1, <3>1, <3>2
    <3>3. CASE l # p
      <4>1. l \in (p + 1)..l
        BY <2>5, <3>3
      <4> QED
        BY <2>6, <3>1, <4>1
    <3> QED
      BY <3>2, <3>3
  <2>8. one.steps = Steps(d, one.lines)
    <3>1. i \in ToSet(one.lines) /\ i \notin Tabular(d, S)
      <4>1. i \in ToSet(one.lines)
        BY <1>3, <1>7, <2>1
      <4>2. i \in A /\ i <= i /\ i <= j
        BY <1>4, <1>10
      <4> QED
        BY <1>4, <4>1, <4>2
    <3> QED
      BY <1>3, <2>1, <3>1 DEF StepsRead
  <2>9. one.steps # <<>> /\ Last(one.steps) = Step(d, i)
    <3>1. one.lines \in Seq(Indices(d))
      BY <2>5
    <3>2. one.lines[p] = i
      BY <1>7, <2>1
    <3>3. \A r \in (p + 1)..Len(one.lines) : Step(d, one.lines[r]) = 0
      BY <2>4, <2>6
    <3>4. p \in 1..Len(one.lines) /\ Step(d, one.lines[p]) # 0
      BY <2>4, <2>5, <3>2
    <3>5. Steps(d, one.lines) # <<>> /\ Last(Steps(d, one.lines)) = Step(d, one.lines[p])
      BY <3>1, <3>3, <3>4, LastStep
    <3> QED
      BY <2>8, <3>2, <3>5
  <2>10. PICK x : x = two.lines[1]
    OBVIOUS
  <2>11. Head(two.lines) = x /\ x \in A /\ x \in Nat /\ x \in ToSet(two.lines)
    <3>1. x \in A
      BY <1>5, <2>1, <2>2, <2>5, <2>10
    <3>2. x \in S /\ Head(two.lines) = x
      BY <2>5, <2>10
    <3>3. x \in ToSet(two.lines)
      BY <2>5, <3>2, EndsAreIn
    <3> QED
      BY <1>10, <3>1, <3>2, <3>3
  <2>12. i < x
    BY <1>7, <1>11, <2>1, <2>2, <2>5, <2>10
  <2>13. x < j \/ x = j
    <3>1. CASE a + 1 < b
      BY <1>9, <1>11, <2>1, <2>2, <2>5, <2>10, <3>1
    <3>2. CASE a + 1 = b
      <4>1. CASE q = 1
        BY <1>9, <2>1, <2>10, <3>2, <4>1
      <4>2. CASE q # 1
        <5>1. 1 < q
          BY <4>2
        <5> QED
          BY <1>9, <1>11, <2>1, <2>2, <2>5, <2>10, <3>2, <5>1
      <4> QED
        BY <4>1, <4>2
    <3> QED
      BY <1>2, <2>2, <3>1, <3>2
  <2>14. x \notin Tabular(d, S)
    <3>1. i <= x /\ x <= j
      BY <1>10, <2>11, <2>12, <2>13
    <3> QED
      BY <1>4, <2>11, <3>1
  <2>15. CASE x = j
    <3>1. Step(d, x) = Step(d, i) + 1 /\ Step(d, i) \in Nat /\ Step(d, x) # 0
      <4>1. i \in Indices(d)
        BY <1>7, <2>1, <2>5
      <4>2. Step(d, i) \in Nat
        BY <4>1 DEF IsDocument, Step
      <4> QED
        BY <2>15, <4>2
    <3>2. two.lines \in Seq(Indices(d))
      BY <2>5
    <3>3. two.steps = Steps(d, two.lines)
      BY <1>3, <2>1, <2>2, <2>11, <2>14 DEF StepsRead
    <3>4. two.steps # <<>> /\ Head(two.steps) = Step(d, x)
      BY <2>5, <2>10, <3>1, <3>2, <3>3, FirstStep
    <3> QED
      BY <2>3, <2>9, <3>1, <3>4 DEF Follow
  <2>16. CASE x < j
    <3>1. Step(d, x) = 0 /\ d.lines[x].wraps /\ d.lines[x].page = d.lines[i].page
      BY <1>4, <2>11, <2>12, <2>16
    <3> QED
      BY <2>3, <2>7, <2>9, <2>11, <2>14, <3>1 DEF Loose, WrapsFrom, Wraps
  <2> QED
    BY <2>13, <2>15, <2>16
<1> QED
  BY <1>12, <1>13, <1>14

\* What the proofs call tabular is what the property does.
LEMMA TabularIsInATable ==
  ASSUME IsDocument(doc), NEW r, NEW i \in Tabular(doc, TakenAt(r))
  PROVE  InATable(r, i)
<1>1. PICK S, p : S = TakenAt(r) /\ p = doc.lines[i].page
  OBVIOUS
<1>2. i \in S /\ p \notin mapping.contents
  BY <1>1 DEF Tabular, TakenAt, Taken
<1>3. PICK rows : rows = RowsIn(doc, S, p)
  OBVIOUS
<1>4. PICK k \in DOMAIN rows : InTableOf(doc, rows, k) /\ rows[k] = i
  BY <1>1, <1>3 DEF Tabular
<1>5. OnPage(doc, p) \cap S = TakenOn(doc, english, spans[r], p)
  BY <1>1, <1>2 DEF OnPage, TakenOn, Taken, TakenAt
<1>6. rows = RegionRows(doc, english, spans[r], p)
  BY <1>3, <1>5 DEF RowsIn, RegionRows, TakenOn
<1>7. rows \in Seq(Nat) /\ rows \in Seq(Indices(doc))
  <2>1. rows = InReadingOrder(TakenOn(doc, english, spans[r], p))
    BY <1>3, <1>5 DEF RowsIn
  <2>2. rows \in Seq(Taken(doc, english, mapping.contents, spans[r])) /\ rows \in Seq(Nat)
    BY <1>2, <2>1, TakenOnIs
  <2> QED
    BY <2>2 DEF Taken
<1>8. PICK run \in TableRuns(doc, rows) : k \in run[1]..run[2]
  BY <1>4 DEF InTableOf
<1>9. run[1] \in 1..Len(rows) /\ run[2] \in 1..Len(rows) /\ run[1] <= run[2]
  BY <1>7, RunsAreTables DEF TableRun
<1>10. run[1] \in 1..(Len(rows) + 1) /\ run[2] \in (run[1] - 1)..Len(rows)
  BY <1>7, <1>9
<1>11. ToSet(SubSeq(rows, run[1], run[2])) = {rows[j] : j \in run[1]..run[2]}
  BY <1>7, <1>10, PieceElements
<1>12. i \in ToSet(SubSeq(rows, run[1], run[2]))
  BY <1>4, <1>8, <1>11
<1> QED
  BY <1>1, <1>6, <1>8, <1>12 DEF InATable

LEMMA WholeProcedures == SourceInv => ProceduresStayWhole
<1> SUFFICES ASSUME SourceInv, NEW r \in DOMAIN regions, NEW i \in PrintedIn(r), NEW j \in PrintedIn(r),
                    LeadsTo(r, i, j)
             PROVE  \E unit \in ToSet(regions[r]) : {i, j} \subseteq ToSet(unit.lines)
  BY DEF ProceduresStayWhole
<1>1. IsDocument(doc)
  BY DEF SourceInv, StageOK
<1>2. regions = [q \in DOMAIN spans |-> Laid(RegionAt(q))]
  BY DEF SourceInv, StageOK
<1>3. PICK units, S : units = RegionAt(r) /\ S = TakenAt(r)
  OBVIOUS
<1>4. units \in Seq(UnitOf(doc, S)) /\ NoneFollows(units) /\ S \in SUBSET Indices(doc)
  BY <1>1, <1>3, RegionUnitsType DEF RegionAt, TakenAt, Taken
<1>5. NoneLoose(doc, S, units)
  BY <1>1, <1>3, RegionIsTight DEF RegionAt, TakenAt
<1>6. Ascending(LinesIn(units))
  BY <1>1, <1>3, RegionLines DEF RegionAt, OrderedLines
<1>7. PICK n : n = Len(units)
  OBVIOUS
<1>8. n \in Nat /\ DOMAIN units = 1..n
  BY <1>4, <1>7
<1>9. /\ regions[r] = Laid(units) /\ DOMAIN Laid(units) = 1..n
      /\ \A m \in 1..n : Laid(units)[m].lines = units[m].lines
  BY <1>2, <1>3, <1>8 DEF Laid
<1>10. ToSet(regions[r]) = {regions[r][m] : m \in 1..n} /\ ToSet(units) = {units[m] : m \in 1..n}
  BY <1>8, <1>9 DEF ToSet
<1>11. {ToSet(u.lines) : u \in ToSet(regions[r])} = {ToSet(u.lines) : u \in ToSet(units)}
  BY <1>9, <1>10
<1>12. PrintedIn(r) = ToSet(LinesIn(units))
  <2>1. ToSet(LinesIn(units)) = UNION {ToSet(u.lines) : u \in ToSet(units)}
    BY <1>4, LinesOfUnits
  <2> QED
    BY <1>11, <2>1 DEF PrintedIn
<1>13. \A m \in ToSet(LinesIn(units)) : i <= m /\ m <= j => m \notin Tabular(doc, S)
  BY <1>1, <1>3, <1>12, TabularIsInATable DEF LeadsTo
<1>14. \E u \in ToSet(units) : {i, j} \subseteq ToSet(u.lines)
  <2>1. i \in ToSet(LinesIn(units)) /\ j \in ToSet(LinesIn(units))
    BY <1>12
  <2>2. i < j /\ Step(doc, i) # 0 /\ Step(doc, j) = Step(doc, i) + 1
    BY DEF LeadsTo
  <2>3. \A m \in ToSet(LinesIn(units)) : i < m /\ m < j =>
          Step(doc, m) = 0 /\ doc.lines[m].wraps /\ doc.lines[m].page = doc.lines[i].page
    BY <1>12 DEF LeadsTo
  <2>4. units \in Seq(UnitOf(doc, S)) /\ NoneFollows(units)
    BY <1>4
  <2>5. S \in SUBSET Indices(doc)
    BY <1>4
  <2> QED
    BY <1>1, <1>5, <1>6, <1>13, <2>1, <2>2, <2>3, <2>4, <2>5, StepLeadsIn
<1> QED
  BY <1>10, <1>11, <1>14

\* Whatever the manual, a step and the step it leads on to, past the lines it
\* wraps onto on its page and in no table, are in one unit, over page breaks,
\* furniture and foreign text (corpus/pdf/units.py).  No row that wraps from a
\* procedure on its page is outside its unit, and no unit begins with the step
\* after the last of the unit before it.
THEOREM NoProcedureIsDivided == Spec => []ProceduresStayWhole
BY SourceIsKept, WholeProcedures, PTL

-----------------------------------------------------------------------------
(* Headings and their rows.                                                *)

\* A table's heading is followed by a row of it.
FollowedByRow(units, i) == i < Len(units) /\ ~units[i + 1].repeat
LedUnits(units) ==
  \A i \in 1..Len(units) :
    units[i].repeat => units[i].steps = <<>> /\ units[i].atomic /\ FollowedByRow(units, i)

\* A heading leaves its table a row.
LEMMA HeadingBelow ==
  ASSUME NEW d, NEW rows, NEW n \in Nat, DOMAIN rows = 1..n
  PROVE  HeadingCount(d, rows) = 0 \/ HeadingCount(d, rows) \in 1..(n - 1)
<1> DEFINE Columns(k) == d.lines[rows[k]].cells
           Numeric(k) == d.lines[rows[k]].numeric
           Like(k) == Cardinality({j \in DOMAIN rows : Columns(j) = Columns(k)})
           pattern == Columns(Min({k \in DOMAIN rows : \A j \in DOMAIN rows : Like(j) <= Like(k)}))
           anyNumeric == \E k \in DOMAIN rows : Numeric(k)
           data == {k \in DOMAIN rows : Numeric(k) \/ (~anyNumeric /\ Columns(k) = pattern)}
<1>1. data \in SUBSET (1..n)
  OBVIOUS
<1>2. HeadingCount(d, rows) = IF data = {} THEN 0 ELSE Min(data) - 1
  BY DEF HeadingCount
<1> HIDE DEF data
<1>3. CASE data = {}
  BY <1>2, <1>3
<1>4. CASE data # {}
  <2>1. data \in SUBSET Nat
    BY <1>1
  <2>2. Min(data) \in 1..n
    BY <1>1, <1>4, <2>1, LeastIn
  <2> QED
    BY <1>2, <1>4, <2>2
<1> QED
  BY <1>3, <1>4

LEMMA TableIsLed ==
  ASSUME NEW d, NEW S, NEW rows \in Seq(S)
  PROVE  LedUnits(TableUnits(d, rows))
<1>1. PICK n, l : n = HeadingCount(d, rows) /\ l = Len(rows)
  OBVIOUS
<1>2. l \in Nat /\ DOMAIN rows = 1..l
  BY <1>1
<1>3. n = 0 \/ n \in 1..(l - 1)
  BY <1>1, <1>2, HeadingBelow
<1>4. PICK heading : heading = SubSeq(rows, 1, n)
  OBVIOUS
<1>5. PICK one : one = IF n = 0 THEN <<>> ELSE <<Unit(heading, <<>>, TRUE, TRUE)>>
  OBVIOUS
<1>6. PICK two : two = [k \in 1..(l - n) |-> Unit(<<rows[n + k]>>, <<>>, TRUE, FALSE)]
  OBVIOUS
<1>7. PICK units : units = one \o two
  OBVIOUS
<1>8. TableUnits(d, rows) = units
  BY <1>1, <1>4, <1>5, <1>6, <1>7 DEF TableUnits
<1>9. PICK m : m = l - n
  OBVIOUS
<1>10. m \in Nat /\ (n # 0 => m > 0)
  BY <1>2, <1>3, <1>9
<1>11. PICK R : R = {two[k] : k \in 1..m}
  OBVIOUS
<1>12. two \in Seq(R) /\ Len(two) = m /\ \A k \in 1..m : ~two[k].repeat
  <2>1. \A k \in 1..m : two[k] = Unit(<<rows[n + k]>>, <<>>, TRUE, FALSE)
    BY <1>6, <1>9
  <2>2. two = [k \in 1..m |-> two[k]]
    BY <1>6, <1>9
  <2>3. two \in Seq(R) /\ Len(two) = m
    BY <1>10, <1>11, <2>2, MadeList, SMTT(20)
  <2> QED
    BY <2>1, <2>3 DEF Unit
<1>13. CASE n = 0
  <2>1. units = two
    <3>1. one = <<>>
      BY <1>5, <1>13
    <3> QED
      BY <1>7, <1>12, <3>1, ConcatEmptySeq
  <2> QED
    BY <1>8, <1>12, <2>1 DEF LedUnits
<1>14. CASE n # 0
  <2>1. PICK u : u = Unit(heading, <<>>, TRUE, TRUE)
    OBVIOUS
  <2>2. one = <<u>> /\ Len(one) = 1
    BY <1>5, <1>14, <2>1
  <2>3. u.steps = <<>> /\ u.atomic
    BY <2>1 DEF Unit
  <2>4. Len(units) = m + 1 /\ units[1] = u /\ \A k \in 1..m : units[k + 1] = two[k]
    <3>1. one \in Seq({u}) /\ one[1] = u
      BY <2>2
    <3>2. /\ Len(units) = 1 + m
          /\ \A k \in 1..(1 + m) : units[k] = IF k <= 1 THEN one[k] ELSE two[k - 1]
      BY <1>7, <1>12, <2>2, <3>1, ConcatProperties
    <3>3. 1 \in 1..(1 + m) /\ \A k \in 1..m : k + 1 \in 1..(1 + m) /\ ~(k + 1 <= 1) /\ (k + 1) - 1 = k
      BY <1>10
    <3> QED
      BY <1>10, <3>1, <3>2, <3>3
  <2>5. ASSUME NEW i \in 1..(m + 1), units[i].repeat
        PROVE  units[i].steps = <<>> /\ units[i].atomic /\ FollowedByRow(units, i)
    <3>1. i = 1
      <4> SUFFICES ASSUME i # 1 PROVE FALSE
        OBVIOUS
      <4>1. i - 1 \in 1..m /\ (i - 1) + 1 = i
        BY <1>10
      <4>2. units[i] = two[i - 1]
        BY <2>4, <4>1
      <4> QED
        BY <1>12, <2>5, <4>1, <4>2
    <3>2. 1 \in 1..m
      BY <1>10, <1>14
    <3>3. units[2] = two[1]
      BY <2>4, <3>2
    <3>4. FollowedByRow(units, 1)
      BY <1>10, <1>12, <2>4, <3>2, <3>3 DEF FollowedByRow
    <3> QED
      BY <2>3, <2>4, <3>1, <3>4
  <2> QED
    BY <1>8, <2>4, <2>5 DEF LedUnits
<1> QED
  BY <1>13, <1>14

\* Prose has no heading that is repeated.
LEMMA ProseIsLed ==
  ASSUME NEW d, NEW S, NEW rows \in Seq(S)
  PROVE  LedUnits(ProseUnits(d, rows))
<1>1. PICK h : ProseSteps(h, d, rows)
  BY ProseStepsExist
<1>2. PICK n : n = Len(rows)
  OBVIOUS
<1>3. n \in Nat
  BY <1>2
<1>4. PICK P : P = {PartAt(d, rows, k) : k \in 1..n}
  OBVIOUS
<1>5. \A u \in P : ~u.repeat
  <2>1. \A k \in 1..n : ~PartAt(d, rows, k).repeat
    BY DEF PartAt, PartOf, Unit
  <2> QED
    BY <1>4, <2>1
<1>6. h[0] \in Seq(P)
  BY <1>1 DEF ProseSteps
<1>7. ASSUME NEW k \in 1..n, h[k - 1] \in Seq(P) PROVE h[k] \in Seq(P)
  <2>1. PICK p, before : p = PartAt(d, rows, k) /\ before = h[k - 1]
    OBVIOUS
  <2>2. p \in P
    BY <1>4, <2>1
  <2>3. h[k] = before \/ h[k] = Append(before, p)
    BY <1>1, <1>2, <2>1 DEF ProseSteps
  <2>4. before \in Seq(P) /\ Append(before, p) \in Seq(P)
    BY <1>7, <2>1, <2>2
  <2> QED
    BY <2>3, <2>4
<1>8. \A k \in 0..n : h[k] \in Seq(P)
  BY <1>3, <1>6, <1>7, Chained
<1>9. PICK units : units = ProseUnits(d, rows)
  OBVIOUS
<1>10. units \in Seq(P)
  BY <1>1, <1>2, <1>3, <1>8, <1>9 DEF ProseSteps
<1>11. \A i \in 1..Len(units) : units[i] \in P
  BY <1>10
<1> QED
  BY <1>5, <1>9, <1>11 DEF LedUnits

LEMMA LedConcat ==
  ASSUME NEW T, NEW one \in Seq(T), NEW two \in Seq(T), LedUnits(one), LedUnits(two)
  PROVE  LedUnits(one \o two)
<1>1. PICK a, b, all : a = Len(one) /\ b = Len(two) /\ all = one \o two
  OBVIOUS
<1>2. /\ a \in Nat /\ b \in Nat /\ Len(all) = a + b
      /\ \A i \in 1..(a + b) : all[i] = IF i <= a THEN one[i] ELSE two[i - a]
  BY <1>1, ConcatProperties
<1>3. ASSUME NEW i \in 1..(a + b), all[i].repeat
      PROVE  all[i].steps = <<>> /\ all[i].atomic /\ FollowedByRow(all, i)
  <2>1. CASE i <= a
    <3>1. i \in 1..a /\ all[i] = one[i]
      BY <1>2, <2>1
    <3>2. one[i].steps = <<>> /\ one[i].atomic /\ FollowedByRow(one, i)
      BY <1>1, <1>3, <3>1 DEF LedUnits
    <3>3. i < a /\ ~one[i + 1].repeat
      BY <1>1, <3>2 DEF FollowedByRow
    <3>4. all[i + 1] = one[i + 1] /\ i < a + b
      BY <1>2, <3>1, <3>3
    <3> QED
      BY <1>2, <3>1, <3>2, <3>3, <3>4 DEF FollowedByRow
  <2>2. CASE ~(i <= a)
    <3>1. PICK j : j = i - a
      OBVIOUS
    <3>2. j \in 1..b /\ all[i] = two[j]
      BY <1>2, <2>2, <3>1
    <3>3. two[j].steps = <<>> /\ two[j].atomic /\ FollowedByRow(two, j)
      BY <1>1, <1>3, <3>2 DEF LedUnits
    <3>4. j < b /\ ~two[j + 1].repeat
      BY <1>1, <3>3 DEF FollowedByRow
    <3>5. i + 1 \in 1..(a + b) /\ ~(i + 1 <= a) /\ (i + 1) - a = j + 1 /\ i < a + b
      BY <1>2, <2>2, <3>1, <3>2, <3>4
    <3>6. all[i + 1] = two[j + 1]
      BY <1>2, <3>5
    <3> QED
      BY <1>2, <3>2, <3>3, <3>4, <3>5, <3>6 DEF FollowedByRow
  <2> QED
    BY <2>1, <2>2
<1> QED
  BY <1>1, <1>2, <1>3 DEF LedUnits

LEMMA LedFlatten ==
  ASSUME NEW T, NEW seqs \in Seq(Seq(T)), \A k \in 1..Len(seqs) : LedUnits(seqs[k])
  PROVE  LedUnits(FlattenSeq(seqs))
<1>1. PICK n : n = Len(seqs)
  OBVIOUS
<1>2. n \in Nat
  BY <1>1
<1> DEFINE W == {k \in 0..n : LedUnits(FlatUpTo(seqs, k))}
<1>3. 0 \in W
  <2>1. FlatUpTo(seqs, 0) = <<>>
    BY FlatSteps
  <2>2. 0 \in 0..n
    BY <1>2
  <2>3. LedUnits(<<>>)
    <3>1. Len(<<>>) = 0 /\ 1..0 = {}
      OBVIOUS
    <3> QED
      BY <3>1 DEF LedUnits
  <2> QED
    BY <2>1, <2>2, <2>3
<1>4. ASSUME NEW k \in 1..n, k - 1 \in W PROVE k \in W
  <2>1. PICK one, two : one = FlatUpTo(seqs, k - 1) /\ two = seqs[k]
    OBVIOUS
  <2>2. k - 1 \in 0..n /\ k \in 0..n
    BY <1>2
  <2>3. one \in Seq(T) /\ two \in Seq(T) /\ FlatUpTo(seqs, k) = one \o two
    BY <1>1, <2>1, <2>2, FlatSteps
  <2>4. LedUnits(one) /\ LedUnits(two)
    BY <1>1, <1>4, <2>1
  <2>5. LedUnits(one \o two)
    BY <2>3, <2>4, LedConcat
  <2> QED
    BY <2>2, <2>3, <2>5
<1> HIDE DEF W
<1>5. \A k \in 1..n : k - 1 \in W => k \in W
  BY <1>4
<1>6. \A k \in 0..n : k \in W
  BY <1>2, <1>3, <1>5, EveryPlace
<1>7. LedUnits(FlatUpTo(seqs, n))
  BY <1>2, <1>6 DEF W
<1> QED
  BY <1>1, <1>7, FlatSteps

LEMMA PageIsLed ==
  ASSUME NEW d, IsDocument(d), NEW marks, NEW S \in SUBSET Indices(d), NEW rows \in Seq(S),
         OnOnePage(d, rows), InTables(d, S, rows)
  PROVE  LedUnits(PageUnits(d, marks, rows))
<1>1. PICK starts : starts = InReadingOrder(StartsOf(d, rows))
  OBVIOUS
<1>2. rows \in Seq(Indices(d)) /\ rows \in Seq(Nat) /\ Len(rows) \in Nat
  BY RowsAre
<1>3. starts \in Seq(StartsOf(d, rows))
  <2>1. Len(rows) \in Nat /\ StartsOf(d, rows) \in SUBSET (1..Len(rows))
    BY RowsAre DEF StartsOf
  <2> QED
    BY <1>1, <2>1, ReadingOrder
<1>4. PICK seqs : seqs = [n \in DOMAIN starts |-> SegmentOf(d, marks, rows, starts[n])]
  OBVIOUS
<1>5. PICK n : n = Len(starts)
  OBVIOUS
<1>6. n \in Nat /\ DOMAIN starts = 1..n /\ \A m \in 1..n : starts[m] \in StartsOf(d, rows)
  BY <1>3, <1>5
<1>7. \A m \in 1..n : seqs[m] \in Seq(UnitOf(d, S))
  <2>1. \A k \in StartsOf(d, rows) : SegmentOf(d, marks, rows, k) \in Seq(UnitOf(d, S))
    BY SegmentIs
  <2> QED
    BY <1>4, <1>6, <2>1
<1>8. seqs = [m \in 1..n |-> seqs[m]]
  BY <1>4, <1>6
<1>9. seqs \in Seq(Seq(UnitOf(d, S))) /\ Len(seqs) = n
  BY <1>6, <1>7, <1>8, MadeList
<1>10. ASSUME NEW k \in StartsOf(d, rows) PROVE LedUnits(SegmentOf(d, marks, rows, k))
  <2>1. k \in 1..Len(rows)
    BY <1>2 DEF StartsOf
  <2>2. CASE InTableOf(d, rows, k)
    <3>1. PICK b : b = RunAt(d, rows, k)[2]
      OBVIOUS
    <3>2. RunAt(d, rows, k)[1] = k /\ b \in k..Len(rows)
      BY <1>2, <2>2, <3>1, RunAtIs
    <3>3. k \in 1..(Len(rows) + 1) /\ b \in (k - 1)..Len(rows)
      BY <1>2, <2>1, <3>2
    <3>4. SubSeq(rows, k, b) \in Seq(S)
      BY <3>3, Piece
    <3>5. TableAt(d, rows, k) \in Seq(S)
      BY <3>1, <3>2, <3>4 DEF TableAt
    <3> QED
      BY <2>2, <3>5, TableIsLed DEF SegmentOf
  <2>3. CASE ~InTableOf(d, rows, k)
    <3>1. PICK b : b = ProseEndOf(d, rows, k)
      OBVIOUS
    <3>2. b \in k..Len(rows)
      BY <2>1, <2>3, <3>1, ProseEndIs
    <3>3. k \in 1..(Len(rows) + 1) /\ b \in (k - 1)..Len(rows)
      BY <1>2, <2>1, <3>2
    <3>4. SubSeq(rows, k, b) \in Seq(S)
      BY <3>3, Piece
    <3>5. ProseAt(d, marks, rows, k) \in Seq(S)
      BY <3>1, <3>4, AmongElements DEF ProseAt
    <3> QED
      BY <2>3, <3>5, ProseIsLed DEF SegmentOf
  <2> QED
    BY <2>2, <2>3
<1>11. \A m \in 1..n : LedUnits(seqs[m])
  BY <1>4, <1>6, <1>10
<1>12. LedUnits(FlattenSeq(seqs))
  BY <1>9, <1>11, LedFlatten
<1> QED
  BY <1>1, <1>4, <1>12, PageUnitsIs

\* Joining makes one unit of procedures only.
AtomicHeads(units) ==
  \A i \in 1..Len(units) : units[i].repeat => units[i].steps = <<>> /\ units[i].atomic
NoTwoHeads(units) == \A i \in 1..(Len(units) - 1) : units[i].repeat => ~units[i + 1].repeat

LEMMA JoinOneLed ==
  ASSUME NEW d, NEW S, NEW units \in Seq(UnitOf(d, S)), NEW u \in UnitOf(d, S),
         AtomicHeads(units), NoTwoHeads(units), u.repeat => u.steps = <<>> /\ u.atomic,
         units # <<>> /\ Last(units).repeat => ~u.repeat
  PROVE  /\ AtomicHeads(JoinOne(units, u)) /\ NoTwoHeads(JoinOne(units, u))
         /\ JoinOne(units, u) # <<>> /\ (Last(JoinOne(units, u)).repeat => u.repeat)
<1>1. PICK n, made : n = Len(units) /\ made = JoinOne(units, u)
  OBVIOUS
<1>2. n \in Nat /\ \A i \in 1..n : units[i] \in UnitOf(d, S)
  BY <1>1
<1>3. CASE units # <<>> /\ Follow(Last(units), u)
  <2>1. PICK front, last, m : front = Front(units) /\ last = Last(units) /\ m = Merged(last, u)
    OBVIOUS
  <2>2. /\ n > 0 /\ front \in Seq(UnitOf(d, S)) /\ last \in UnitOf(d, S) /\ Len(front) = n - 1
        /\ last = units[n] /\ \A k \in 1..(n - 1) : front[k] = units[k]
    <3>1. n > 0
      BY <1>1, <1>2, <1>3
    <3> QED
      BY <1>1, <1>3, <2>1, <3>1, FrontAndLast
  <2>3. m \in UnitOf(d, S)
    BY <1>3, <2>1, <2>2, MergedIs
  <2>4. made = Append(front, m)
    BY <1>1, <1>3, <2>1 DEF JoinOne
  <2>5. Len(made) = n /\ made[n] = m /\ \A k \in 1..(n - 1) : made[k] = units[k]
    <3>1. /\ Len(made) = Len(front) + 1 /\ made[Len(front) + 1] = m
          /\ \A k \in 1..Len(front) : made[k] = front[k]
      BY <2>2, <2>3, <2>4, AppendProperties
    <3> QED
      BY <1>2, <2>2, <3>1, SMTT(20)
  <2>6. ~m.repeat
    <3>1. n \in 1..n /\ last.steps # <<>>
      BY <1>2, <1>3, <2>1, <2>2 DEF Follow
    <3>2. ~last.repeat
      BY <1>1, <2>2, <3>1 DEF AtomicHeads
    <3> QED
      BY <2>1, <3>2 DEF Merged, Unit
  <2>7. \A i \in 1..n : made[i].repeat => i \in 1..(n - 1)
    BY <1>2, <2>5, <2>6
  <2>8. AtomicHeads(made)
    <3>1. \A i \in 1..n : made[i].repeat => made[i].steps = <<>> /\ made[i].atomic
      BY <1>1, <1>2, <2>5, <2>7 DEF AtomicHeads
    <3> QED
      BY <2>5, <3>1 DEF AtomicHeads
  <2>9. NoTwoHeads(made)
    <3> SUFFICES ASSUME NEW i \in 1..(n - 1), made[i].repeat, made[i + 1].repeat PROVE FALSE
      BY <2>5 DEF NoTwoHeads
    <3>1. i + 1 \in 1..n
      BY <1>2
    <3>2. i + 1 \in 1..(n - 1)
      BY <2>7, <3>1
    <3>3. units[i].repeat /\ units[i + 1].repeat
      BY <2>5, <3>2
    <3> QED
      BY <1>1, <3>3 DEF NoTwoHeads
  <2>10. Last(made) = m /\ made # <<>>
    BY <1>2, <2>2, <2>5 DEF Last
  <2> QED
    BY <1>1, <2>6, <2>8, <2>9, <2>10
<1>4. CASE ~(units # <<>> /\ Follow(Last(units), u))
  <2>1. made = Append(units, u)
    BY <1>1, <1>4 DEF JoinOne
  <2>2. Len(made) = n + 1 /\ made[n + 1] = u /\ \A k \in 1..n : made[k] = units[k]
    BY <1>1, <2>1, AppendProperties
  <2>3. AtomicHeads(made)
    <3>1. \A i \in 1..(n + 1) : i \in 1..n \/ i = n + 1
      BY <1>2
    <3>2. \A i \in 1..(n + 1) : made[i].repeat => made[i].steps = <<>> /\ made[i].atomic
      BY <1>1, <2>2, <3>1 DEF AtomicHeads
    <3> QED
      BY <2>2, <3>2 DEF AtomicHeads
  <2>4. NoTwoHeads(made)
    <3> SUFFICES ASSUME NEW i \in 1..n, made[i].repeat, made[i + 1].repeat PROVE FALSE
      <4>1. 1..((n + 1) - 1) = 1..n
        BY <1>2
      <4> QED
        BY <2>2, <4>1 DEF NoTwoHeads
    <3>1. units[i].repeat
      BY <2>2
    <3>2. CASE i = n
      <4>1. units # <<>> /\ Last(units) = units[n]
        BY <1>1, <1>2, <3>2 DEF Last
      <4> QED
        BY <2>2, <3>1, <3>2, <4>1
    <3>3. CASE i # n
      <4>1. i \in 1..(n - 1) /\ i + 1 \in 1..n
        BY <1>2, <3>3
      <4>2. units[i + 1].repeat
        BY <2>2, <4>1
      <4> QED
        BY <1>1, <3>1, <4>1, <4>2 DEF NoTwoHeads
    <3> QED
      BY <3>2, <3>3
  <2>5. Last(made) = u /\ made # <<>>
    BY <1>2, <2>2 DEF Last
  <2> QED
    BY <1>1, <2>3, <2>4, <2>5
<1> QED
  BY <1>3, <1>4

JoinLed(d, S, units, k, made) ==
  /\ made \in Seq(UnitOf(d, S)) /\ AtomicHeads(made) /\ NoTwoHeads(made)
  /\ made # <<>> => k \in 1..Len(units) /\ (Last(made).repeat => units[k].repeat)

LEMMA JoinedIsLed ==
  ASSUME NEW d, NEW S, NEW units \in Seq(UnitOf(d, S)), LedUnits(units)
  PROVE  AtomicHeads(Joined(units)) /\ NoTwoHeads(Joined(units))
<1>1. PICK h : JoinSteps(h, units)
  BY JoinStepsExist
<1>2. PICK n : n = Len(units)
  OBVIOUS
<1>3. n \in Nat /\ \A k \in 1..n : units[k] \in UnitOf(d, S)
  BY <1>2
<1> DEFINE W == {k \in 0..n : JoinLed(d, S, units, k, h[k])}
<1>4. 0 \in W
  <2>1. h[0] = <<>> /\ 0 \in 0..n
    BY <1>1, <1>3 DEF JoinSteps
  <2>2. <<>> \in Seq(UnitOf(d, S)) /\ AtomicHeads(<<>>) /\ NoTwoHeads(<<>>)
    BY DEF AtomicHeads, NoTwoHeads
  <2>3. JoinLed(d, S, units, 0, <<>>)
    BY <2>2 DEF JoinLed
  <2> QED
    BY <2>1, <2>3
<1>5. ASSUME NEW k \in 1..n, k - 1 \in W PROVE k \in W
  <2>1. PICK made, u : made = h[k - 1] /\ u = units[k]
    OBVIOUS
  <2>2. JoinLed(d, S, units, k - 1, made)
    BY <1>5, <2>1
  <2>3. h[k] = JoinOne(made, u) /\ u \in UnitOf(d, S)
    BY <1>1, <1>2, <1>3, <2>1 DEF JoinSteps
  <2>4. made \in Seq(UnitOf(d, S)) /\ AtomicHeads(made) /\ NoTwoHeads(made)
    BY <2>2 DEF JoinLed
  <2>5. u.repeat => u.steps = <<>> /\ u.atomic
    BY <1>2, <2>1 DEF LedUnits
  <2>6. made # <<>> /\ Last(made).repeat => ~u.repeat
    <3> SUFFICES ASSUME made # <<>>, Last(made).repeat PROVE ~u.repeat
      OBVIOUS
    <3>1. k - 1 \in 1..n /\ units[k - 1].repeat
      BY <1>2, <2>2 DEF JoinLed
    <3>2. FollowedByRow(units, k - 1)
      BY <1>2, <3>1 DEF LedUnits
    <3>3. (k - 1) + 1 = k
      OBVIOUS
    <3> QED
      BY <2>1, <3>2, <3>3 DEF FollowedByRow
  <2>7. PICK next : next = JoinOne(made, u)
    OBVIOUS
  <2>8. /\ next \in Seq(UnitOf(d, S)) /\ AtomicHeads(next) /\ NoTwoHeads(next)
        /\ next # <<>> /\ (Last(next).repeat => u.repeat)
    <3>1. u \in UnitOf(d, S)
      BY <2>3
    <3>2. made \in Seq(UnitOf(d, S))
      BY <2>4
    <3>3. next \in Seq(UnitOf(d, S))
      BY <2>7, <3>1, <3>2, JoinOneType
    <3> QED
      BY <2>4, <2>5, <2>6, <2>7, <3>1, <3>2, <3>3, JoinOneLed
  <2>9. JoinLed(d, S, units, k, next)
    BY <1>2, <2>1, <2>8 DEF JoinLed
  <2>10. k \in 0..n /\ h[k] = next
    BY <1>3, <2>3, <2>7
  <2> QED
    BY <2>9, <2>10
<1> HIDE DEF W
<1>6. \A k \in 1..n : k - 1 \in W => k \in W
  BY <1>5
<1>7. \A k \in 0..n : k \in W
  BY <1>3, <1>4, <1>6, EveryPlace
<1>8. JoinLed(d, S, units, n, h[n])
  BY <1>3, <1>7 DEF W
<1>9. Joined(units) = h[n]
  BY <1>1, <1>2 DEF JoinSteps
<1> QED
  BY <1>8, <1>9 DEF JoinLed

\* In a region no repeated heading stands before another one.
LEMMA RegionIsLed ==
  ASSUME NEW d, IsDocument(d), NEW marks, NEW blocks, NEW contents, NEW span
  PROVE  LET units == RegionUnits(d, marks, blocks, contents, span) IN
         AtomicHeads(units) /\ NoTwoHeads(units)
<1>1. PICK S, U : S = Taken(d, blocks, contents, span) /\ U = UnitOf(d, S)
  OBVIOUS
<1>2. S \in SUBSET Indices(d)
  BY <1>1 DEF Taken
<1>3. PICK seqs : seqs = PagesIn(d, marks, blocks, contents, span)
  OBVIOUS
<1>4. d.pages \in Nat
  BY DEF IsDocument
<1>5. ASSUME NEW p \in 1..d.pages PROVE seqs[p] \in Seq(U) /\ LedUnits(seqs[p])
  <2>1. seqs[p] = PageOf(d, marks, blocks, contents, span, p)
    BY <1>3 DEF PagesIn
  <2>2. seqs[p] \in Seq(U)
    BY <1>1, <2>1, PageOfType
  <2>3. CASE p \in contents
    <3>1. seqs[p] = <<>>
      BY <2>1, <2>3 DEF PageOf
    <3>2. Len(<<>>) = 0 /\ 1..0 = {}
      OBVIOUS
    <3> QED
      BY <2>2, <3>1, <3>2 DEF LedUnits
  <2>4. CASE p \notin contents
    <3>1. PICK rows : rows = InReadingOrder(TakenOn(d, blocks, span, p))
      OBVIOUS
    <3>2. rows \in Seq(S) /\ OnOnePage(d, rows)
      BY <1>1, <2>4, <3>1, TakenOnIs
    <3>3. InTables(d, S, rows)
      BY <1>1, <2>4, <3>1, PageRows
    <3>4. LedUnits(PageUnits(d, marks, rows))
      BY <1>2, <3>2, <3>3, PageIsLed
    <3> QED
      BY <2>1, <2>2, <2>4, <3>1, <3>4 DEF PageOf
  <2> QED
    BY <2>3, <2>4
<1>6. seqs = [p \in 1..d.pages |-> seqs[p]]
  BY <1>3 DEF PagesIn
<1>7. seqs \in Seq(Seq(U)) /\ Len(seqs) = d.pages
  BY <1>4, <1>5, <1>6, MadeList
<1>8. PICK units : units = FlattenSeq(seqs)
  OBVIOUS
<1>9. units \in Seq(UnitOf(d, S))
  BY <1>1, <1>7, <1>8, FlattenIs
<1>10. LedUnits(units)
  BY <1>5, <1>7, <1>8, LedFlatten
<1>11. RegionUnits(d, marks, blocks, contents, span) = Joined(units)
  BY <1>3, <1>8, RegionUnitsIs
<1> QED
  BY <1>9, <1>10, <1>11, JoinedIsLed

\* No two units of a region have the same lines.
LEMMA UnitsDiffer ==
  ASSUME NEW d, NEW S \in SUBSET Nat, NEW units \in Seq(UnitOf(d, S)), Ascending(LinesIn(units)),
         NEW i \in 1..Len(units), NEW j \in 1..Len(units), i < j
  PROVE  units[i].lines # units[j].lines
<1>1. units[i] \in UnitOf(d, S) /\ units[j] \in UnitOf(d, S)
  OBVIOUS
<1>2. units[i].lines \in Seq(S) /\ Len(units[i].lines) \in Nat /\ Len(units[i].lines) > 0
  BY <1>1, UnitHas
<1>3. Len(units[j].lines) \in Nat /\ Len(units[j].lines) > 0
  BY <1>1, UnitHas
<1>4. units[i].lines[1] < units[j].lines[1]
  <2>1. 1 \in 1..Len(units[i].lines) /\ 1 \in 1..Len(units[j].lines)
    BY <1>2, <1>3
  <2> QED
    BY <2>1, PlacedBefore
<1>5. PICK x : x = units[i].lines[1]
  OBVIOUS
<1>6. x \in Nat
  <2>1. x \in S
    BY <1>2, <1>5
  <2> QED
    BY <2>1
<1>7. ~(x < x)
  BY <1>6
<1> SUFFICES ASSUME units[i].lines = units[j].lines PROVE FALSE
  OBVIOUS
<1>8. x < x
  <2>1. units[j].lines[1] = units[i].lines[1]
    OBVIOUS
  <2> QED
    BY <1>4, <1>5, <2>1, Zenon
<1> QED
  BY <1>7, <1>8

\* The units of a region, as they are packed.
HeadsStandAlone(r) ==
  \A i \in 1..Len(regions[r]) :
    regions[r][i].repeat =>
      regions[r][i].atomic /\ (i < Len(regions[r]) => ~regions[r][i + 1].repeat)
LinesTellUnits(r) ==
  \A i, j \in 1..Len(regions[r]) : regions[r][i].lines = regions[r][j].lines => i = j

LEMMA RegionHeads ==
  ASSUME SourceInv, stage \in {"packing", "loaded"}, NEW r \in 1..Len(regions)
  PROVE  HeadsStandAlone(r) /\ LinesTellUnits(r)
<1>1. IsDocument(doc) /\ LaidRegion(r)
  BY RegionIsLaid DEF SourceInv, StageOK
<1>2. PICK units, laid, n : units = RegionAt(r) /\ laid = regions[r] /\ n = Len(units)
  OBVIOUS
<1>3. /\ units \in Seq(UnitOf(doc, TakenAt(r))) /\ n \in Nat /\ Len(laid) = n
      /\ laid = Laid(units) /\ TakenAt(r) \in SUBSET Indices(doc)
  BY <1>1, <1>2 DEF LaidRegion
<1>4. \A k \in 1..n : /\ laid[k].lines = units[k].lines /\ laid[k].atomic = units[k].atomic
                      /\ laid[k].repeat = units[k].repeat
  <2>1. \A k \in 1..n :
          LaidAs(laid[k], units[k], Total(UnitCounts(units), k - 1), Total(UnitCounts(units), k))
    <3>1. \A k \in 1..Len(units) :
            LaidAs(Laid(units)[k], units[k], Total(UnitCounts(units), k - 1), Total(UnitCounts(units), k))
      BY <1>1, <1>3, LaidIs
    <3> QED
      BY <1>2, <1>3, <3>1
  <2> QED
    BY <2>1 DEF LaidAs
<1>5. AtomicHeads(units) /\ NoTwoHeads(units)
  BY <1>1, <1>2, RegionIsLed DEF RegionAt
<1>6. HeadsStandAlone(r)
  <2>1. ASSUME NEW i \in 1..n, laid[i].repeat
        PROVE  laid[i].atomic /\ (i < n => ~laid[i + 1].repeat)
    <3>1. units[i].repeat /\ laid[i].atomic
      BY <1>2, <1>4, <1>5, <2>1 DEF AtomicHeads
    <3>2. ASSUME i < n PROVE ~laid[i + 1].repeat
      <4>1. i \in 1..(n - 1) /\ i + 1 \in 1..n
        BY <1>3, <3>2
      <4>2. ~units[i + 1].repeat
        BY <1>2, <1>5, <3>1, <4>1 DEF NoTwoHeads
      <4> QED
        BY <1>4, <4>1, <4>2
    <3> QED
      BY <3>1, <3>2
  <2> QED
    BY <1>2, <1>3, <2>1 DEF HeadsStandAlone
<1>7. LinesTellUnits(r)
  <2>1. Ascending(LinesIn(units))
    BY <1>1, <1>2, RegionLines DEF RegionAt, OrderedLines
  <2>2. TakenAt(r) \in SUBSET Nat
    BY <1>1, <1>3, IndicesAre
  <2>3. \A i, j \in 1..n : i < j => units[i].lines # units[j].lines
    BY <1>2, <1>3, <2>1, <2>2, UnitsDiffer
  <2>4. ASSUME NEW i \in 1..n, NEW j \in 1..n, laid[i].lines = laid[j].lines PROVE i = j
    <3>1. i < j \/ j < i \/ i = j
      OBVIOUS
    <3>2. units[i].lines = units[j].lines
      BY <1>4, <2>4
    <3> QED
      BY <2>3, <3>1, <3>2
  <2> QED
    BY <1>2, <1>3, <2>4 DEF LinesTellUnits
<1> QED
  BY <1>6, <1>7

-----------------------------------------------------------------------------
(* Rows and the headings they are packed under. The chunks packed so far are *)
(* "made", those of region r have units before place n placed and "waiting"  *)
(* still to place; "run" and "on" are the run of repeats, "carried" and      *)
(* "placed" what the open chunk has.                                        *)

\* The heading at h heads a table that has the row at i.
HeadingOf(r, h, i) ==
  /\ h \in 1..(i - 1) /\ regions[r][h].repeat
  /\ \A m \in (h + 1)..i : IsRow(regions[r][m])

HeadSplit(made, r, h) ==
  \E q \in 1..Len(made) : \E u \in ToSet(made[q].own) : u.lines = regions[r][h].lines /\ u.partial
HasUnit(r, h, units) == \E u \in ToSet(units) : u.lines = regions[r][h].lines

\* A chunk that may hold rows under a heading.
Leads(made, r, h, carried, placed) ==
  \/ Words(regions[r][h]) >= WordCap
  \/ HeadSplit(made, r, h)
  \/ HasUnit(r, h, carried) \/ HasUnit(r, h, placed)

\* Its rows are led.
RowsLed(made, r, carried, placed) ==
  \A u \in ToSet(placed) : \A i \in 1..Len(regions[r]) : \A h \in 1..Len(regions[r]) :
    u.lines = regions[r][i].lines /\ HeadingOf(r, h, i) => Leads(made, r, h, carried, placed)
ChunksLed(made) == \A k \in 1..Len(made) : RowsLed(made, made[k].region, made[k].head, made[k].own)

\* The first unit that waits may be the rest of one that was split.
Waiting(made, r, n, waiting) ==
  /\ n \in 0..Len(regions[r]) /\ Len(waiting) = Len(regions[r]) - n
  /\ \A m \in 2..Len(waiting) : waiting[m] = regions[r][n + m]
  /\ waiting # <<>> =>
       /\ waiting[1].lines = regions[r][n + 1].lines /\ waiting[1].atomic = regions[r][n + 1].atomic
       /\ waiting[1].repeat = regions[r][n + 1].repeat
       /\ waiting[1] = regions[r][n + 1] \/ (waiting[1].repeat => HeadSplit(made, r, n + 1))

\* A run goes on only after a heading, or after the first part of one.
RunGoesOn(made, r, n, waiting) ==
  \/ n >= 1 /\ regions[r][n].repeat
  \/ waiting # <<>> /\ regions[r][n + 1].repeat /\ HeadSplit(made, r, n + 1)

\* The heading of the row that is placed next is what a chunk would repeat.
NextIsLed(made, r, n, run, carried, placed) ==
  n < Len(regions[r]) =>
    \A h \in 1..Len(regions[r]) : HeadingOf(r, h, n + 1) =>
      /\ run = <<regions[r][h]>> \/ HeadSplit(made, r, h)
      /\ Leads(made, r, h, carried, placed)

\* The units before some place n are placed, under their headings.
Leading(made, r, waiting, run, on, carried, placed) ==
  \E n \in Nat :
    /\ Waiting(made, r, n, waiting) /\ (on => RunGoesOn(made, r, n, waiting))
    /\ NextIsLed(made, r, n, run, carried, placed) /\ RowsLed(made, r, carried, placed)

\* What is closed is led, and so is what is open and waits.
PackedUnder(made, r, waiting, run, on, carried, placed) ==
  /\ ChunksLed(made)
  /\ IF r = 0 THEN waiting = <<>> /\ placed = <<>>
     ELSE Leading(made, r, waiting, run, on, carried, placed)

HeadingsLead ==
  /\ stage = "packing" => PackedUnder(parts, region, queue, repeats, running, head, own)
  /\ stage = "loaded" => ChunksLed(parts)

\* What is split once stays split.
SplitsStay(made, more) == \A r, h : HeadSplit(made, r, h) => HeadSplit(more, r, h)

LEMMA HasUnitAppend ==
  ASSUME NEW units \in Seq(ChunkUnit), NEW u \in ChunkUnit, NEW r, NEW h,
         HasUnit(r, h, units) \/ u.lines = regions[r][h].lines
  PROVE  HasUnit(r, h, Append(units, u))
<1>1. ToSet(Append(units, u)) = ToSet(units) \cup {u}
  BY ToSetAppend
<1> QED
  BY <1>1 DEF HasUnit

LEMMA SplitsStayAppend ==
  ASSUME NEW made \in Seq(ChunkPart), NEW p \in ChunkPart
  PROVE  /\ SplitsStay(made, Append(made, p))
         /\ \A r, h : \A u \in ToSet(p.own) :
              u.lines = regions[r][h].lines /\ u.partial => HeadSplit(Append(made, p), r, h)
<1>1. PICK n, more : n = Len(made) /\ more = Append(made, p)
  OBVIOUS
<1>2. n \in Nat /\ Len(more) = n + 1 /\ more[n + 1] = p /\ \A k \in 1..n : more[k] = made[k]
  BY <1>1, AppendProperties
<1>3. n + 1 \in 1..(n + 1) /\ \A q \in 1..n : q \in 1..(n + 1)
  BY <1>2
<1>4. ASSUME NEW r, NEW h, HeadSplit(made, r, h) PROVE HeadSplit(more, r, h)
  <2>1. PICK q \in 1..n : \E u \in ToSet(made[q].own) : u.lines = regions[r][h].lines /\ u.partial
    BY <1>1, <1>4 DEF HeadSplit
  <2>2. more[q] = made[q] /\ q \in 1..(n + 1)
    BY <1>2, <1>3
  <2> QED
    BY <1>2, <2>1, <2>2 DEF HeadSplit
<1>5. ASSUME NEW r, NEW h, NEW u \in ToSet(p.own), u.lines = regions[r][h].lines, u.partial
      PROVE  HeadSplit(more, r, h)
  BY <1>2, <1>3, <1>5 DEF HeadSplit
<1> QED
  BY <1>1, <1>4, <1>5 DEF SplitsStay

LEMMA RowsLedStay ==
  ASSUME NEW made, NEW more, SplitsStay(made, more), NEW r, NEW carried, NEW placed,
         RowsLed(made, r, carried, placed)
  PROVE  RowsLed(more, r, carried, placed)
BY DEF RowsLed, Leads, SplitsStay

LEMMA ChunksLedAppend ==
  ASSUME NEW made \in Seq(ChunkPart), NEW p \in ChunkPart, ChunksLed(made),
         RowsLed(made, p.region, p.head, p.own)
  PROVE  ChunksLed(Append(made, p))
<1>1. PICK n, more : n = Len(made) /\ more = Append(made, p)
  OBVIOUS
<1>2. n \in Nat /\ Len(more) = n + 1 /\ more[n + 1] = p /\ \A k \in 1..n : more[k] = made[k]
  BY <1>1, AppendProperties
<1>3. SplitsStay(made, more)
  BY <1>1, SplitsStayAppend
<1>4. ASSUME NEW k \in 1..(n + 1) PROVE RowsLed(more, more[k].region, more[k].head, more[k].own)
  <2>1. CASE k = n + 1
    <3>1. RowsLed(more, p.region, p.head, p.own)
      BY <1>3, RowsLedStay
    <3> QED
      BY <1>2, <2>1, <3>1
  <2>2. CASE k # n + 1
    <3>1. k \in 1..n
      BY <1>2, <2>2
    <3>2. PICK q : q = made[k]
      OBVIOUS
    <3>3. RowsLed(made, q.region, q.head, q.own)
      BY <1>1, <3>1, <3>2 DEF ChunksLed
    <3>4. RowsLed(more, q.region, q.head, q.own)
      BY <1>3, <3>3, RowsLedStay
    <3> QED
      BY <1>2, <3>1, <3>2, <3>4
  <2> QED
    BY <2>1, <2>2
<1> QED
  BY <1>1, <1>2, <1>4 DEF ChunksLed

LEMMA NoneLed ==
  ASSUME NEW made, NEW r, NEW carried
  PROVE  RowsLed(made, r, carried, <<>>)
<1>1. ToSet(<<>>) = {}
  BY DEF ToSet
<1> QED
  BY <1>1 DEF RowsLed

\* What waits next is like the unit of its place, which is a row if a heading heads it.
LEMMA NextIsARow ==
  ASSUME NEW r, NEW h, NEW i \in Nat, HeadingOf(r, h, i)
  PROVE  IsRow(regions[r][i]) /\ ~regions[r][i].repeat /\ i # h
<1>1. h \in 1..(i - 1) /\ i \in (h + 1)..i
  BY DEF HeadingOf
<1> QED
  BY <1>1 DEF HeadingOf, IsRow

\* A unit that is placed is led if the next one was.
LEMMA PlacedIsLed ==
  ASSUME NEW r \in 1..Len(regions), LinesTellUnits(r), NEW made, NEW n \in Nat, n < Len(regions[r]),
         NEW run, NEW carried, NEW placed \in Seq(ChunkUnit), NextIsLed(made, r, n, run, carried, placed),
         RowsLed(made, r, carried, placed), NEW u \in ChunkUnit, u.lines = regions[r][n + 1].lines
  PROVE  RowsLed(made, r, carried, Append(placed, u))
<1>1. PICK more : more = Append(placed, u)
  OBVIOUS
<1>2. ToSet(more) = ToSet(placed) \cup {u}
  BY <1>1, ToSetAppend
<1>3. ASSUME NEW h, Leads(made, r, h, carried, placed) PROVE Leads(made, r, h, carried, more)
  BY <1>1, <1>3, HasUnitAppend DEF Leads
<1>4. ASSUME NEW v \in ToSet(more), NEW i \in 1..Len(regions[r]), NEW h \in 1..Len(regions[r]),
             v.lines = regions[r][i].lines, HeadingOf(r, h, i)
      PROVE  Leads(made, r, h, carried, more)
  <2>1. CASE v \in ToSet(placed)
    <3>1. Leads(made, r, h, carried, placed)
      BY <1>4, <2>1 DEF RowsLed
    <3> QED
      BY <1>3, <3>1
  <2>2. CASE v = u
    <3>1. n + 1 \in 1..Len(regions[r])
      OBVIOUS
    <3>2. i = n + 1
      BY <1>4, <2>2, <3>1 DEF LinesTellUnits
    <3>3. Leads(made, r, h, carried, placed)
      BY <1>4, <3>2 DEF NextIsLed
    <3> QED
      BY <1>3, <3>3
  <2> QED
    BY <1>2, <2>1, <2>2
<1> QED
  BY <1>1, <1>4 DEF RowsLed

\* A chunk that is started copies the heading of the row that comes next.
LEMMA StartIsLed ==
  ASSUME NEW r, NEW h, NEW n \in Nat, HeadingOf(r, h, n + 1), regions[r][h] \in ChunkUnit, NEW made, NEW run,
         run = <<regions[r][h]>> \/ HeadSplit(made, r, h),
         NEW waiting, waiting[1].repeat = regions[r][n + 1].repeat, NEW placed
  PROVE  Leads(made, r, h, RepeatsThatFit(run, waiting), placed)
<1>1. CASE HeadSplit(made, r, h)
  BY <1>1 DEF Leads
<1>2. CASE run = <<regions[r][h]>>
  <2>1. PICK u : u = regions[r][h]
    OBVIOUS
  <2>2. u \in ChunkUnit /\ run = <<u>>
    BY <1>2, <2>1
  <2>3. ~waiting[1].repeat
    <3>1. n + 1 \in Nat
      OBVIOUS
    <3> QED
      BY <3>1, NextIsARow
  <2>4. AllWords(run) = Words(u)
    <3>1. <<>> \in Seq(ChunkUnit) /\ <<u>> = Append(<<>>, u)
      OBVIOUS
    <3>2. AllWords(<<>>) = 0 /\ AllWords(Append(<<>>, u)) = AllWords(<<>>) + Words(u)
      BY <2>2, <3>1, AllWordsIs
    <3>3. Words(u) \in Nat
      BY <2>2, UnitWords
    <3> QED
      BY <2>2, <3>1, <3>2, <3>3
  <2>5. CASE Words(u) >= WordCap
    BY <2>1, <2>5 DEF Leads
  <2>6. CASE ~(Words(u) >= WordCap)
    <3>1. RepeatsThatFit(run, waiting) = run
      BY <2>3, <2>4, <2>6 DEF RepeatsThatFit
    <3>2. u \in ToSet(run)
      BY <2>2 DEF ToSet
    <3> QED
      BY <2>1, <3>1, <3>2 DEF Leads, HasUnit
  <2> QED
    BY <2>5, <2>6
<1> QED
  BY <1>1, <1>2

\* Something waits, or is placed, of a region only.
PackedIn(r) == r \in 1..Len(regions) /\ HeadsStandAlone(r) /\ LinesTellUnits(r)

LEMMA RegionTypes ==
  ASSUME PackType, NEW r \in 1..Len(regions)
  PROVE  Len(regions[r]) \in Nat /\ \A h \in 1..Len(regions[r]) : regions[r][h] \in ChunkUnit
<1>1. regions[r] \in Seq(ChunkUnit)
  BY DEF PackType
<1> QED
  BY <1>1

LEMMA PlaceLeads ==
  ASSUME PackType, PackedIn(region), Place,
         Leading(parts, region, queue, repeats, running, head, own)
  PROVE  Leading(parts, region, queue', repeats', running', head, own')
<1>1. PICK r, U, l : r = region /\ U = regions[r] /\ l = Len(U)
  OBVIOUS
<1>2. r \in 1..Len(regions) /\ l \in Nat /\ \A h \in 1..l : U[h] \in ChunkUnit
  BY <1>1, RegionTypes DEF PackedIn
<1>3. PICK u, q, next : u = Head(queue) /\ q = Len(queue) /\ next = Tail(queue)
  OBVIOUS
<1>4. /\ queue \in Seq(ChunkUnit) /\ own \in Seq(ChunkUnit) /\ repeats \in Seq(ChunkUnit)
      /\ queue # <<>>
  BY DEF PackType, Place
<1>5. /\ q \in Nat /\ q > 0 /\ u = queue[1] /\ u \in ChunkUnit
      /\ Len(next) = q - 1 /\ \A m \in 1..(q - 1) : next[m] = queue[m + 1]
  BY <1>3, <1>4
<1>6. /\ own' = Append(own, u) /\ repeats' = RunWith(u) /\ running' = u.repeat /\ queue' = next
  BY <1>3 DEF Place
<1>7. PICK n \in Nat :
        /\ Waiting(parts, r, n, queue) /\ (running => RunGoesOn(parts, r, n, queue))
        /\ NextIsLed(parts, r, n, repeats, head, own) /\ RowsLed(parts, r, head, own)
  BY <1>1 DEF Leading
<1>8. /\ n < l /\ q = l - n /\ u.lines = U[n + 1].lines /\ u.repeat = U[n + 1].repeat
      /\ u = U[n + 1] \/ (u.repeat => HeadSplit(parts, r, n + 1))
      /\ \A m \in 2..q : queue[m] = U[n + m]
  BY <1>1, <1>2, <1>3, <1>4, <1>5, <1>7, SMTT(20) DEF Waiting
<1>9. PICK k : k = n + 1
  OBVIOUS
<1>10. k \in 1..l /\ k \in Nat /\ k - 1 = n
  BY <1>2, <1>8, <1>9
<1>11. Waiting(parts, r, k, next)
  <2>1. Len(next) = l - k /\ k \in 0..l
    BY <1>2, <1>5, <1>8, <1>9, <1>10
  <2>2. ASSUME NEW m \in 1..(q - 1) PROVE next[m] = U[k + m]
    <3>1. m + 1 \in 2..q /\ n + (m + 1) = k + m
      BY <1>5, <1>9
    <3> QED
      BY <1>5, <1>8, <3>1
  <2>3. \A m \in 2..Len(next) : next[m] = U[k + m]
    <3>1. \A m \in 2..Len(next) : m \in 1..(q - 1)
      BY <1>5
    <3> QED
      BY <2>2, <3>1
  <2>4. next # <<>> => next[1] = U[k + 1]
    <3>1. ASSUME next # <<>> PROVE 1 \in 1..(q - 1)
      <4>1. next \in Seq(ChunkUnit)
        BY <1>3, <1>4
      <4>2. Len(next) # 0
        BY <3>1, <4>1
      <4> QED
        BY <1>5, <4>2
    <3> QED
      BY <2>2, <3>1
  <2> QED
    BY <1>1, <2>1, <2>3, <2>4 DEF Waiting
<1>12. running' => RunGoesOn(parts, r, k, next)
  <2>1. k >= 1
    BY <1>10
  <2>2. running' => regions[r][k].repeat
    BY <1>1, <1>6, <1>8, <1>9, Zenon
  <2> QED
    BY <2>1, <2>2 DEF RunGoesOn
<1>13. RowsLed(parts, r, head, own')
  <2>1. LinesTellUnits(r)
    BY <1>1 DEF PackedIn
  <2> QED
    BY <1>1, <1>2, <1>4, <1>5, <1>6, <1>7, <1>8, <2>1, PlacedIsLed
<1>14. NextIsLed(parts, r, k, repeats', head, own')
  <2> SUFFICES ASSUME k < l, NEW h \in 1..l, HeadingOf(r, h, k + 1)
               PROVE  /\ repeats' = <<U[h]>> \/ HeadSplit(parts, r, h)
                      /\ Leads(parts, r, h, head, own')
    BY <1>1 DEF NextIsLed
  <2>1. h \in 1..k /\ U[h].repeat /\ \A m \in (h + 1)..(k + 1) : IsRow(U[m])
    BY <1>1, <1>10 DEF HeadingOf
  <2>2. CASE h = k
    <3>1. U[k].repeat /\ u.repeat
      BY <1>8, <1>9, <2>1, <2>2
    <3>2. HasUnit(r, h, own')
      BY <1>1, <1>4, <1>5, <1>6, <1>8, <1>9, <2>2, HasUnitAppend
    <3>3. Leads(parts, r, h, head, own')
      BY <3>2 DEF Leads
    <3>4. CASE running
      <4>1. RunGoesOn(parts, r, n, queue)
        BY <1>7, <3>4
      <4>2. CASE n >= 1 /\ U[n].repeat
        <5>1. n \in 1..l
          BY <1>2, <1>8, <4>2
        <5>2. ~U[n + 1].repeat
          BY <1>1, <1>8, <4>2, <5>1 DEF PackedIn, HeadsStandAlone
        <5> QED
          BY <1>9, <3>1, <5>2
      <4>3. CASE HeadSplit(parts, r, n + 1)
        BY <1>9, <2>2, <3>3, <4>3
      <4> QED
        BY <1>1, <4>1, <4>2, <4>3 DEF RunGoesOn
    <3>5. CASE ~running
      <4>1. repeats' = <<u>>
        BY <1>6, <3>1, <3>5 DEF RunWith
      <4> QED
        BY <1>8, <1>9, <2>2, <3>1, <3>3, <4>1
    <3> QED
      BY <3>4, <3>5
  <2>3. CASE h # k
    <3>1. h \in 1..(k - 1) /\ k \in (h + 1)..(k + 1)
      BY <1>10, <2>1, <2>3
    <3>2. \A m \in (h + 1)..k : m \in (h + 1)..(k + 1)
      BY <1>10
    <3>3. HeadingOf(r, h, k)
      BY <1>1, <2>1, <3>1, <3>2 DEF HeadingOf
    <3>4. repeats = <<U[h]>> \/ HeadSplit(parts, r, h)
      BY <1>1, <1>7, <1>8, <1>9, <3>3 DEF NextIsLed
    <3>5. Leads(parts, r, h, head, own)
      BY <1>1, <1>7, <1>8, <1>9, <3>3 DEF NextIsLed
    <3>6. ~u.repeat
      BY <1>8, <1>9, <2>1, <3>1 DEF IsRow
    <3>7. repeats' = repeats
      BY <1>6, <3>6 DEF RunWith
    <3>8. Leads(parts, r, h, head, own')
      <4>1. HasUnit(r, h, own) => HasUnit(r, h, own')
        BY <1>4, <1>5, <1>6, HasUnitAppend
      <4> QED
        BY <3>5, <4>1 DEF Leads
    <3> QED
      BY <3>4, <3>7, <3>8
  <2> QED
    BY <2>2, <2>3
<1> QED
  BY <1>1, <1>6, <1>10, <1>11, <1>12, <1>13, <1>14 DEF Leading

\* The part that is closed, and what it had.
LEMMA PartIs ==
  ASSUME PackType, NEW units \in Seq(ChunkUnit)
  PROVE  /\ Part(units) \in ChunkPart
         /\ Part(units).region = region /\ Part(units).head = head /\ Part(units).own = units
BY DEF Part, ChunkPart, PackType

\* What waits, and the run, are as they were when more is split.
LEMMA WaitingStays ==
  ASSUME NEW made, NEW more, SplitsStay(made, more), NEW r, NEW n, NEW waiting
  PROVE  /\ Waiting(made, r, n, waiting) => Waiting(more, r, n, waiting)
         /\ RunGoesOn(made, r, n, waiting) => RunGoesOn(more, r, n, waiting)
BY DEF Waiting, RunGoesOn, SplitsStay

LEMMA CloseLeads ==
  ASSUME PackType, PackedIn(region), Close,
         Leading(parts, region, queue, repeats, running, head, own)
  PROVE  Leading(parts', region, queue, repeats, running, head', <<>>) /\ (ChunksLed(parts) => ChunksLed(parts'))
<1>1. PICK r, U, l : r = region /\ U = regions[r] /\ l = Len(U)
  OBVIOUS
<1>2. r \in 1..Len(regions) /\ l \in Nat /\ \A h \in 1..l : U[h] \in ChunkUnit
  BY <1>1, RegionTypes DEF PackedIn
<1>3. /\ own \in Seq(ChunkUnit) /\ parts \in Seq(ChunkPart) /\ queue # <<>>
      /\ parts' = Append(parts, Part(own)) /\ head' = RepeatsThatFit(repeats, queue)
  BY DEF PackType, Close, StartChunk
<1>4. PICK p, more : p = Part(own) /\ more = Append(parts, p)
  OBVIOUS
<1>5. p \in ChunkPart /\ p.region = r /\ p.head = head /\ p.own = own /\ parts' = more
  BY <1>1, <1>3, <1>4, PartIs
<1>6. PICK n \in Nat :
        /\ Waiting(parts, r, n, queue) /\ (running => RunGoesOn(parts, r, n, queue))
        /\ NextIsLed(parts, r, n, repeats, head, own) /\ RowsLed(parts, r, head, own)
  BY <1>1 DEF Leading
<1>7. SplitsStay(parts, more)
  BY <1>3, <1>4, <1>5, SplitsStayAppend
<1>8. ChunksLed(parts) => ChunksLed(more)
  <2>1. RowsLed(parts, p.region, p.head, p.own)
    BY <1>5, <1>6
  <2> QED
    BY <1>3, <1>4, <1>5, <2>1, ChunksLedAppend
<1>9. Waiting(more, r, n, queue) /\ (running => RunGoesOn(more, r, n, queue))
  BY <1>6, <1>7, WaitingStays
<1>10. NextIsLed(more, r, n, repeats, head', <<>>)
  <2> SUFFICES ASSUME n < l, NEW h \in 1..l, HeadingOf(r, h, n + 1)
               PROVE  /\ repeats = <<U[h]>> \/ HeadSplit(more, r, h)
                      /\ Leads(more, r, h, head', <<>>)
    BY <1>1 DEF NextIsLed
  <2>1. repeats = <<U[h]>> \/ HeadSplit(more, r, h)
    BY <1>1, <1>6, <1>7 DEF NextIsLed, SplitsStay
  <2>2. queue[1].repeat = regions[r][n + 1].repeat
    BY <1>3, <1>6 DEF Waiting
  <2>3. Leads(more, r, h, RepeatsThatFit(repeats, queue), <<>>)
    BY <1>1, <1>2, <2>1, <2>2, StartIsLed
  <2> QED
    BY <1>3, <2>1, <2>3
<1>11. RowsLed(more, r, head', <<>>)
  BY NoneLed
<1> QED
  BY <1>1, <1>5, <1>6, <1>8, <1>9, <1>10, <1>11 DEF Leading

\* The run and the next chunk's head after a unit is split.
LEMMA SplitRun ==
  ASSUME PackType, Split, NEW unit, NEW at, NEW first, NEW rest, SplitInto(unit, at, first, rest)
  PROVE  /\ repeats' = RunWith(first) /\ running' = unit.repeat
         /\ head' = RepeatsThatFit(RunWith(first), queue')
<1>1. PICK f, l : /\ parts' = Append(parts, Part(<<f>>)) /\ repeats' = RunWith(f)
                  /\ running' = Head(queue).repeat /\ queue' = <<l>> \o Tail(queue)
                  /\ head' = RepeatsThatFit(RunWith(f), <<l>> \o Tail(queue))
  BY DEF Split, StartChunk
<1>2. parts \in Seq(ChunkPart)
  BY DEF PackType
<1>3. PICK n : n = Len(parts)
  OBVIOUS
<1>4. parts'[n + 1] = Part(<<f>>) /\ parts'[n + 1] = Part(<<first>>)
  BY <1>1, <1>2, <1>3 DEF SplitInto
<1>5. <<f>> = <<first>>
  BY <1>4 DEF Part
<1>6. f = first
  BY <1>5
<1> QED
  BY <1>1, <1>6 DEF SplitInto

LEMMA SplitLeads ==
  ASSUME PackType, Room, PackedIn(region), Split,
         Leading(parts, region, queue, repeats, running, head, own)
  PROVE  /\ Leading(parts', region, queue', repeats', running', head', <<>>)
         /\ ChunksLed(parts) => ChunksLed(parts')
<1>1. PICK r, U, l : r = region /\ U = regions[r] /\ l = Len(U)
  OBVIOUS
<1>2. r \in 1..Len(regions) /\ l \in Nat /\ \A h \in 1..l : U[h] \in ChunkUnit
  BY <1>1, RegionTypes DEF PackedIn
<1>3. PICK unit, at, first, rest : SplitInto(unit, at, first, rest)
  BY SplitPieces
<1>4. /\ unit \in ChunkUnit /\ first \in ChunkUnit /\ rest \in ChunkUnit
      /\ queue \in Seq(ChunkUnit) /\ queue # <<>> /\ unit = Head(queue) /\ own = <<>>
      /\ parts' = Append(parts, Part(<<first>>)) /\ queue' = <<rest>> \o Tail(queue)
  BY <1>3 DEF SplitInto
<1>5. /\ first.lines = unit.lines /\ first.repeat = unit.repeat
      /\ rest.lines = unit.lines /\ rest.atomic = unit.atomic /\ rest.repeat = unit.repeat
      /\ unit.atomic => first.partial
  BY <1>3 DEF SplitInto, PiecesOf
<1>6. repeats' = RunWith(first) /\ running' = unit.repeat /\ head' = RepeatsThatFit(RunWith(first), queue')
  BY <1>3, SplitRun
<1>7. PICK one, p, more : one = <<first>> /\ p = Part(one) /\ more = Append(parts, p)
  OBVIOUS
<1>8. one \in Seq(ChunkUnit) /\ ToSet(one) = {first} /\ one = Append(<<>>, first)
  <2>1. one \in Seq(ChunkUnit) /\ Len(one) = 1 /\ one[1] = first /\ one = Append(<<>>, first)
    BY <1>4, <1>7
  <2>2. ToSet(one) = {one[i] : i \in 1..1}
    BY <2>1, ToSetIs
  <2> QED
    BY <2>1, <2>2
<1>9. /\ p \in ChunkPart /\ p.region = r /\ p.head = head /\ p.own = one
      /\ parts' = more /\ parts \in Seq(ChunkPart)
  BY <1>1, <1>4, <1>7, <1>8, PartIs DEF PackType
<1>10. PICK n \in Nat :
        /\ Waiting(parts, r, n, queue) /\ (running => RunGoesOn(parts, r, n, queue))
        /\ NextIsLed(parts, r, n, repeats, head, own) /\ RowsLed(parts, r, head, own)
  BY <1>1 DEF Leading
<1>11. PICK q, next : q = Len(queue) /\ next = queue'
  OBVIOUS
<1>12. /\ q \in Nat /\ q > 0 /\ unit = queue[1] /\ Len(next) = q /\ next # <<>> /\ next[1] = rest
       /\ \A m \in 2..q : next[m] = queue[m]
  <2>1. PICK tail, front : tail = Tail(queue) /\ front = <<rest>>
    OBVIOUS
  <2>2. q \in Nat /\ q > 0 /\ unit = queue[1]
    BY <1>4, <1>11
  <2>3. tail \in Seq(ChunkUnit) /\ Len(tail) = q - 1 /\ \A m \in 1..(q - 1) : tail[m] = queue[m + 1]
    BY <1>4, <1>11, <2>1, <2>2
  <2>4. front \in Seq(ChunkUnit) /\ Len(front) = 1 /\ front[1] = rest
    BY <1>4, <2>1
  <2>5. /\ next \in Seq(ChunkUnit) /\ Len(next) = 1 + (q - 1)
        /\ \A m \in 1..(1 + (q - 1)) : next[m] = IF m <= 1 THEN front[m] ELSE tail[m - 1]
    BY <1>4, <1>11, <2>1, <2>3, <2>4, ConcatProperties
  <2>6. \A m \in 2..q : m \in 1..(1 + (q - 1)) /\ ~(m <= 1) /\ m - 1 \in 1..(q - 1) /\ (m - 1) + 1 = m
    BY <2>2
  <2>7. 1 + (q - 1) = q /\ 1 \in 1..q
    BY <2>2
  <2>8. next # <<>>
    <3>1. Len(<<>>) = 0
      OBVIOUS
    <3> QED
      BY <2>2, <2>5, <2>7, <3>1
  <2>9. next[1] = rest
    BY <2>4, <2>5, <2>7
  <2>10. ASSUME NEW m \in 2..q PROVE next[m] = queue[m]
    <3>1. next[m] = tail[m - 1]
      BY <2>5, <2>6
    <3> QED
      BY <2>3, <2>6, <3>1
  <2> QED
    BY <2>2, <2>5, <2>7, <2>8, <2>9, <2>10
<1>13. /\ n < l /\ n \in 0..l /\ q = l - n /\ unit.lines = U[n + 1].lines
       /\ unit.atomic = U[n + 1].atomic /\ unit.repeat = U[n + 1].repeat
       /\ \A m \in 2..q : queue[m] = U[n + m]
  BY <1>1, <1>2, <1>4, <1>10, <1>11, <1>12 DEF Waiting
<1>14. n + 1 \in 1..l
  BY <1>2, <1>13
<1>15. SplitsStay(parts, more)
  BY <1>7, <1>9, SplitsStayAppend
<1>16. unit.repeat => HeadSplit(more, r, n + 1)
  <2> SUFFICES ASSUME unit.repeat PROVE HeadSplit(more, r, n + 1)
    OBVIOUS
  <2>1. first.partial
    BY <1>1, <1>5, <1>13, <1>14 DEF PackedIn, HeadsStandAlone
  <2>2. first \in ToSet(p.own) /\ first.lines = regions[r][n + 1].lines
    BY <1>1, <1>5, <1>8, <1>9, <1>13
  <2> QED
    BY <1>7, <1>9, <2>1, <2>2, SplitsStayAppend
<1>17. Waiting(more, r, n, next)
  <2>1. next[1].lines = U[n + 1].lines /\ next[1].atomic = U[n + 1].atomic /\ next[1].repeat = U[n + 1].repeat
    BY <1>5, <1>12, <1>13
  <2>2. next[1].repeat => HeadSplit(more, r, n + 1)
    BY <1>5, <1>12, <1>16
  <2> QED
    BY <1>1, <1>12, <1>13, <2>1, <2>2 DEF Waiting
<1>18. running' => RunGoesOn(more, r, n, next)
  BY <1>1, <1>6, <1>12, <1>13, <1>16 DEF RunGoesOn
<1>19. ChunksLed(parts) => ChunksLed(more)
  <2>1. RowsLed(parts, r, head, one)
    <3>1. LinesTellUnits(r) /\ <<>> \in Seq(ChunkUnit)
      BY <1>1 DEF PackedIn
    <3>2. NextIsLed(parts, r, n, repeats, head, <<>>) /\ RowsLed(parts, r, head, <<>>)
      BY <1>4, <1>10
    <3>3. first.lines = regions[r][n + 1].lines
      BY <1>1, <1>5, <1>13
    <3> QED
      BY <1>1, <1>2, <1>4, <1>8, <1>13, <3>1, <3>2, <3>3, PlacedIsLed
  <2> QED
    BY <1>7, <1>9, <2>1, ChunksLedAppend
<1>20. NextIsLed(more, r, n, repeats', head', <<>>)
  <2> SUFFICES ASSUME n < l, NEW h \in 1..l, HeadingOf(r, h, n + 1)
               PROVE  /\ repeats' = <<U[h]>> \/ HeadSplit(more, r, h)
                      /\ Leads(more, r, h, head', <<>>)
    BY <1>1 DEF NextIsLed
  <2>1. repeats = <<U[h]>> \/ HeadSplit(more, r, h)
    BY <1>1, <1>10, <1>15 DEF NextIsLed, SplitsStay
  <2>2. ~first.repeat
    <3>1. n + 1 \in Nat
      OBVIOUS
    <3>2. ~U[n + 1].repeat
      BY <1>1, <3>1, NextIsARow
    <3> QED
      BY <1>5, <1>13, <3>2
  <2>3. repeats' = repeats /\ head' = RepeatsThatFit(repeats, next)
    BY <1>6, <1>11, <2>2 DEF RunWith
  <2>4. next[1].repeat = regions[r][n + 1].repeat
    BY <1>1, <1>5, <1>12, <1>13
  <2>5. Leads(more, r, h, RepeatsThatFit(repeats, next), <<>>)
    BY <1>1, <1>2, <2>1, <2>4, StartIsLed
  <2> QED
    BY <2>1, <2>3, <2>5
<1>21. RowsLed(more, r, head', <<>>)
  BY NoneLed
<1> QED
  BY <1>1, <1>9, <1>10, <1>11, <1>17, <1>18, <1>19, <1>20, <1>21 DEF Leading

\* The chunk that a region's end closes is led.
LEMMA LastIsLed ==
  ASSUME PackType, PackedUnder(parts, region, queue, repeats, running, head, own)
  PROVE  ChunksLed(AllParts)
<1>1. own \in Seq(ChunkUnit) /\ parts \in Seq(ChunkPart) /\ ChunksLed(parts)
  BY DEF PackType, PackedUnder
<1>2. CASE own = <<>>
  BY <1>1, <1>2 DEF AllParts
<1>3. CASE own # <<>>
  <2>1. RowsLed(parts, region, head, own)
    BY <1>3 DEF PackedUnder, Leading
  <2>2. ChunksLed(Append(parts, Part(own)))
    BY <1>1, <2>1, PartIs, ChunksLedAppend
  <2> QED
    BY <1>3, <2>2 DEF AllParts
<1> QED
  BY <1>2, <1>3

LEMMA RegionLeads ==
  ASSUME NEW r \in 1..Len(regions), regions \in Seq(Seq(ChunkUnit)), NEW made
  PROVE  Leading(made, r, regions[r], <<>>, FALSE, <<>>, <<>>)
<1>1. PICK l : l = Len(regions[r])
  OBVIOUS
<1>2. regions[r] \in Seq(ChunkUnit) /\ l \in Nat
  BY <1>1
<1>3. Waiting(made, r, 0, regions[r])
  <2>1. \A m \in 2..l : 0 + m = m
    OBVIOUS
  <2>2. 0 \in 0..l /\ l = l - 0 /\ 0 + 1 = 1
    BY <1>2
  <2> QED
    BY <1>1, <2>1, <2>2 DEF Waiting
<1>4. NextIsLed(made, r, 0, <<>>, <<>>, <<>>)
  <2>1. \A h : ~HeadingOf(r, h, 0 + 1)
    BY DEF HeadingOf
  <2> QED
    BY <2>1 DEF NextIsLed
<1>5. RowsLed(made, r, <<>>, <<>>)
  BY NoneLed
<1> QED
  BY <1>3, <1>4, <1>5 DEF Leading

LEMMA StepLeads ==
  ASSUME SourceInv, stage = "packing", PackStep,
         PackedUnder(parts, region, queue, repeats, running, head, own)
  PROVE  PackedUnder(parts', region', queue', repeats', running', head', own')
<1>1. PackType /\ Room
  BY DEF SourceInv, PackOK
<1>2. regions \in Seq(Seq(ChunkUnit)) /\ region \in 0..Len(regions) /\ Len(regions) \in Nat
  BY <1>1 DEF PackType
<1>3. ASSUME region # 0
      PROVE  PackedIn(region) /\ Leading(parts, region, queue, repeats, running, head, own)
  <2>1. region \in 1..Len(regions)
    BY <1>2, <1>3
  <2> QED
    BY <1>3, <2>1, RegionHeads DEF PackedIn, PackedUnder
<1>4. queue # <<>> \/ own # <<>> => region # 0
  BY DEF PackedUnder
<1>5. ChunksLed(parts)
  BY DEF PackedUnder
<1>6. CASE Place
  <2>1. region # 0
    BY <1>4, <1>6 DEF Place
  <2>2. Leading(parts, region, queue', repeats', running', head, own')
    BY <1>1, <1>3, <1>6, <2>1, PlaceLeads
  <2>3. parts' = parts /\ region' = region /\ head' = head
    BY <1>6 DEF Place
  <2> QED
    BY <1>5, <2>1, <2>2, <2>3 DEF PackedUnder
<1>7. CASE Close
  <2>1. region # 0
    BY <1>4, <1>7 DEF Close
  <2>2. Leading(parts', region, queue, repeats, running, head', <<>>) /\ ChunksLed(parts')
    BY <1>1, <1>3, <1>5, <1>7, <2>1, CloseLeads
  <2>3. /\ region' = region /\ queue' = queue /\ repeats' = repeats /\ running' = running
        /\ own' = <<>>
    BY <1>7 DEF Close, StartChunk
  <2> QED
    BY <2>1, <2>2, <2>3 DEF PackedUnder
<1>8. CASE Split
  <2>1. region # 0
    BY <1>4, <1>8 DEF Split
  <2>2. Leading(parts', region, queue', repeats', running', head', <<>>) /\ ChunksLed(parts')
    BY <1>1, <1>3, <1>5, <1>8, <2>1, SplitLeads
  <2>3. region' = region /\ own' = <<>>
    BY <1>8 DEF Split, StartChunk
  <2> QED
    BY <2>1, <2>2, <2>3 DEF PackedUnder
<1>9. CASE NextRegion
  <2>1. ChunksLed(AllParts)
    BY <1>1, LastIsLed
  <2>2. PICK r : r = region + 1
    OBVIOUS
  <2>3. /\ parts' = AllParts /\ region' = r /\ queue' = regions[r] /\ repeats' = <<>>
        /\ running' = FALSE /\ head' = <<>> /\ own' = <<>>
    BY <1>9, <2>2 DEF NextRegion, AllParts
  <2>4. r \in 1..Len(regions) /\ r # 0
    BY <1>2, <1>9, <2>2 DEF NextRegion
  <2>5. Leading(AllParts, r, regions[r], <<>>, FALSE, <<>>, <<>>)
    BY <1>2, <2>4, RegionLeads
  <2> QED
    BY <2>1, <2>3, <2>4, <2>5 DEF PackedUnder
<1> QED
  BY <1>6, <1>7, <1>8, <1>9 DEF PackStep

LEMMA SameHeadings ==
  ASSUME regions' = regions, doc' = doc
  PROVE  /\ (PackedUnder(parts, region, queue, repeats, running, head, own))' <=>
              PackedUnder(parts', region', queue', repeats', running', head', own')
         /\ (ChunksLed(parts))' <=> ChunksLed(parts')
<1>1. ASSUME NEW u PROVE IsRow(u)' <=> IsRow(u)
  BY DEF IsRow, Joins
<1> QED
  BY DEF PackedUnder, ChunksLed, Leading, Waiting, RunGoesOn, NextIsLed, RowsLed, Leads, HasUnit,
         HeadSplit, HeadingOf, IsRow, Joins, Words

\* What is packed of a manual has its headings.
LEMMA HeadingsAreKept == Spec => []HeadingsLead
<1>1. Init => HeadingsLead
  BY DEF Init, HeadingsLead
<1>2. SourceInv /\ HeadingsLead /\ [Next]_vars => HeadingsLead'
  <2> SUFFICES ASSUME SourceInv, HeadingsLead, [Next]_vars PROVE HeadingsLead'
    OBVIOUS
  <2>1. ASSUME stage' \notin {"packing", "loaded"} PROVE HeadingsLead'
    BY <2>1 DEF HeadingsLead
  <2>2. CASE FindFurniture
    <3>1. stage' \notin {"packing", "loaded"}
      BY <2>2 DEF FindFurniture, Reject
    <3> QED
      BY <2>1, <3>1
  <2>3. CASE RepairGlyphs
    <3>1. stage' \notin {"packing", "loaded"}
      BY <2>3 DEF RepairGlyphs, Reject
    <3> QED
      BY <2>1, <3>1
  <2>4. CASE FindSections
    <3>1. stage' \notin {"packing", "loaded"}
      BY <2>4 DEF FindSections
    <3> QED
      BY <2>1, <3>1
  <2>5. CASE SelectEnglish
    <3>1. stage' \notin {"packing", "loaded"}
      BY <2>5 DEF SelectEnglish, Reject
    <3> QED
      BY <2>1, <3>1
  <2>6. CASE AssembleUnits
    <3>1. stage' = "packing"
      BY <2>6 DEF AssembleUnits
    <3>2. region' = 0 /\ own' = <<>> /\ queue' = <<>> /\ parts' = <<>>
      BY <2>6 DEF AssembleUnits, SourceInv, StageOK, StartPacking, packing
    <3>3. (ChunksLed(parts))'
      <4>1. Len(<<>>) = 0 /\ 1..0 = {}
        OBVIOUS
      <4> QED
        BY <3>2, <4>1 DEF ChunksLed
    <3> QED
      BY <3>1, <3>2, <3>3 DEF HeadingsLead, PackedUnder
  <2>7. CASE Pack
    <3>1. /\ stage = "packing" /\ stage' = "packing" /\ doc' = doc /\ PackStep
          /\ PackedUnder(parts, region, queue, repeats, running, head, own)
      BY <2>7 DEF Pack, HeadingsLead
    <3>2. regions' = regions
      BY <3>1 DEF PackStep, Place, Close, Split, NextRegion
    <3>3. PackedUnder(parts', region', queue', repeats', running', head', own')
      BY <3>1, StepLeads
    <3> QED
      BY <3>1, <3>2, <3>3, SameHeadings DEF HeadingsLead
  <2>8. CASE Finish
    <3>1. /\ stage = "packing" /\ stage' = "loaded" /\ doc' = doc /\ regions' = regions
          /\ parts' = AllParts /\ PackType
          /\ PackedUnder(parts, region, queue, repeats, running, head, own)
      BY <2>8 DEF Finish, HeadingsLead, SourceInv, PackOK
    <3>2. ChunksLed(parts')
      BY <3>1, LastIsLed
    <3> QED
      BY <3>1, <3>2, SameHeadings DEF HeadingsLead
  <2>9. CASE UNCHANGED vars
    <3>1. /\ stage' = stage /\ doc' = doc /\ regions' = regions /\ parts' = parts
          /\ region' = region /\ own' = own /\ queue' = queue
          /\ repeats' = repeats /\ running' = running /\ head' = head
      BY <2>9 DEF vars, packing
    <3> QED
      BY <3>1, SameHeadings DEF HeadingsLead
  <2> QED
    BY <2>2, <2>3, <2>4, <2>5, <2>6, <2>7, <2>8, <2>9 DEF Next
<1> QED
  BY <1>1, <1>2, SourceIsKept, PTL DEF Spec

LEMMA LoadedUnderHeading ==
  ASSUME SourceInv, FromRegions, HeadingsLead
  PROVE  HeadingLeadsRows
<1> SUFFICES
      ASSUME stage = "loaded", NEW k \in DOMAIN parts, NEW row \in ToSet(parts[k].own), IsRow(row),
             NEW at, at = SelectInSeq(regions[parts[k].region], LAMBDA u : u.lines = row.lines),
             NEW h \in 1..(at - 1), regions[parts[k].region][h].repeat,
             \A m \in (h + 1)..at : IsRow(regions[parts[k].region][m])
      PROVE  \/ Words(regions[parts[k].region][h]) >= WordCap
             \/ \E q \in DOMAIN parts : \E u \in ToSet(parts[q].own) :
                  u.lines = regions[parts[k].region][h].lines /\ u.partial
             \/ \E u \in ToSet(parts[k].head \o parts[k].own) : u.lines = regions[parts[k].region][h].lines
  BY DEF HeadingLeadsRows, Loaded
<1>1. PICK r, U : r = parts[k].region /\ U = regions[r]
  OBVIOUS
<1>2. parts \in Seq(ChunkPart) /\ DOMAIN parts = 1..Len(parts) /\ ChunksLed(parts)
      /\ regions \in Seq(Seq(ChunkUnit))
  <2>1. PackType
    BY Zenon DEF SourceInv, PackOK
  <2>2. parts \in Seq(ChunkPart)
    BY <2>1, Zenon DEF PackType
  <2>3. regions \in Seq(Seq(ChunkUnit))
    BY <2>1, Zenon DEF PackType
  <2>4. ChunksLed(parts)
    BY Zenon DEF HeadingsLead
  <2>5. DOMAIN parts = 1..Len(parts)
    BY <2>2
  <2> QED
    BY <2>2, <2>3, <2>4, <2>5, Zenon
<1>3. parts[k].own \in Seq(ChunkUnit) /\ parts[k].head \in Seq(ChunkUnit)
  <2>1. PICK p : p = parts[k]
    OBVIOUS
  <2>2. p \in ChunkPart
    BY <1>2, <2>1
  <2>3. p.own \in Seq(ChunkUnit) /\ p.head \in Seq(ChunkUnit)
    BY <2>2, Zenon DEF ChunkPart
  <2> QED
    BY <2>1, <2>3
<1>4. r \in 1..Len(regions)
  <2>1. PICK n \in 1..Len(parts[k].own) : row = parts[k].own[n]
    BY <1>3, ToSetIs
  <2> QED
    BY <1>1, <1>2, <2>1 DEF FromRegions, AllFrom, FromRegion
<1>5. PICK l : l = Len(U)
  OBVIOUS
<1>6. l \in Nat
  BY <1>1, <1>2, <1>4, <1>5
<1>7. PICK I : I = {i \in 1..l : U[i].lines = row.lines}
  OBVIOUS
<1>8. at = IF I # {} THEN Min(I) ELSE 0
  BY <1>1, <1>5, <1>7 DEF SelectInSeq
<1>9. (I = {} /\ at = 0) \/ at \in I
  <2>1. I \in SUBSET (1..l)
    BY <1>7
  <2> QED
    BY <1>6, <1>8, <2>1, LeastPlace
<1>10. at \in 1..l /\ row.lines = U[at].lines
  <2>1. at # 0
    OBVIOUS
  <2> QED
    BY <1>7, <1>9, <2>1
<1>11. h \in 1..l /\ HeadingOf(r, h, at)
  <2>1. h \in 1..l
    BY <1>6, <1>10, SMTT(20)
  <2>2. regions[r][h].repeat /\ \A m \in (h + 1)..at : IsRow(regions[r][m])
    BY <1>1, Zenon
  <2> QED
    BY <2>1, <2>2, Zenon DEF HeadingOf
<1>12. RowsLed(parts, r, parts[k].head, parts[k].own)
  BY <1>1, <1>2 DEF ChunksLed
<1>13. Leads(parts, r, h, parts[k].head, parts[k].own)
  BY <1>1, <1>5, <1>10, <1>11, <1>12 DEF RowsLed
<1>14. ToSet(parts[k].head \o parts[k].own) = ToSet(parts[k].head) \cup ToSet(parts[k].own)
  BY <1>3, ToSetConcat
<1> QED
  BY <1>1, <1>2, <1>13, <1>14 DEF Leads, HeadSplit, HasUnit

\* Whatever the table and wherever its rows are divided, a chunk that has a row
\* has the heading above it, unless that heading was split or fills a chunk
\* (corpus/chunk.py _pack, corpus/pdf/units.py _table_units).
THEOREM HeadingsStayWithTheirRows == Spec => []HeadingLeadsRows
BY SourceIsKept, PlacedFromRegions, HeadingsAreKept, LoadedUnderHeading, PTL
=============================================================================
