------------------------------ MODULE Chunking ------------------------------
(***************************************************************************)
(* The packing of a source's regions into chunks (corpus/chunk.py), for     *)
(* manuals and authored entries alike. A region is a stream of words; a     *)
(* unit is the interval from (exclusive) .. upto of it, "stops" the words   *)
(* of it that end a sentence. Words are copied into the next chunk as       *)
(* repeated units or as overlap, and splitting a unit splits its interval.  *)
(***************************************************************************)
EXTENDS Integers, Lists, FiniteSets, FiniteSetsExt

CONSTANTS WordCap, OverlapWords

ASSUME CapAssumption == WordCap \in Nat \ {0} /\ OverlapWords \in Nat /\ OverlapWords < WordCap

VARIABLES
  regions,  \* the source's regions, each a sequence of units
  region,   \* the region being packed
  queue,    \* its units still to place
  repeats,  \* the run of repeated units placed last
  running,  \* the previously placed unit was one of them
  head,     \* the units copied to the front of this chunk
  overlap,  \* the interval carried over from the previous chunk
  own,      \* the units placed in this chunk
  used,     \* its words, carried ones included
  parts     \* the chunks packed so far

packing == <<region, queue, repeats, running, head, overlap, own, used, parts>>

Words(unit) == unit.upto - unit.from
AllWords(units) == Total([k \in DOMAIN units |-> Words(units[k])], Len(units))

NoOverlap == [from |-> 0, upto |-> 0]

StartPacking ==
  /\ region = 0 /\ queue = <<>> /\ repeats = <<>> /\ running = FALSE
  /\ head = <<>> /\ overlap = NoOverlap /\ own = <<>> /\ used = 0 /\ parts = <<>>

\* _overlap: the last whole sentences that fit, or the last words of a long one.
Overlap(unit) ==
  LET starts == {unit.from} \cup {s \in unit.stops : unit.from < s /\ s < unit.upto}
      near   == {s \in starts : unit.upto - s <= OverlapWords}
  IN  [from |-> IF near = {} THEN unit.upto - OverlapWords ELSE Min(near), upto |-> unit.upto]

\* _split and _sentence_cut: the last sentence end inside the room, or the room.
CutAt(unit, room) ==
  LET ends == {s \in unit.stops : unit.from < s /\ s <= unit.from + room} IN
    IF ends = {} THEN unit.from + room ELSE Max(ends)

\* Slip: repeated units are copied in whatever their length.
RepeatsThatFitAny(run, next) == IF next[1].repeat THEN <<>> ELSE run

\* The repeats a next chunk copies: none before another repeated unit, none
\* that leave it no room.
RepeatsThatFit(run, next) ==
  IF next[1].repeat \/ AllWords(run) >= WordCap THEN <<>> ELSE run

\* _continuation: overlap where nothing is repeated, never across an atomic unit.
CarriedOver(run, next, previous) ==
  IF RepeatsThatFit(run, next) # <<>> \/ previous.atomic THEN NoOverlap ELSE Overlap(previous)

Part(units) == [region |-> region, head |-> head, overlap |-> overlap, own |-> units]

Fits(unit) == used + Words(unit) <= WordCap

\* Slip: a row ends the run.
RunWithForgotten(unit) == IF ~unit.repeat THEN <<>> ELSE IF running THEN Append(repeats, unit) ELSE <<unit>>

RunWith(unit) == IF ~unit.repeat THEN repeats ELSE IF running THEN Append(repeats, unit) ELSE <<unit>>

\* place
Place ==
  /\ queue # <<>> /\ Fits(Head(queue))
  /\ own' = Append(own, Head(queue)) /\ used' = used + Words(Head(queue))
  /\ repeats' = RunWith(Head(queue)) /\ running' = Head(queue).repeat
  /\ queue' = Tail(queue)
  /\ UNCHANGED <<regions, region, head, overlap, parts>>

\* start: a chunk with nothing but what it carries; next is what is to be placed.
StartChunk(run, next, previous) ==
  /\ head' = RepeatsThatFit(run, next) /\ overlap' = CarriedOver(run, next, previous)
  /\ used' = AllWords(RepeatsThatFit(run, next)) + Words(CarriedOver(run, next, previous))
  /\ own' = <<>>

\* The unit does not fit: it is tried again at the front of the next chunk.
Close ==
  /\ queue # <<>> /\ ~Fits(Head(queue)) /\ own # <<>>
  /\ parts' = Append(parts, Part(own))
  /\ StartChunk(repeats, queue, Last(own))
  /\ UNCHANGED <<regions, region, queue, repeats, running>>

\* It does not fit what a chunk carries either: as much of it as there is room
\* for is a chunk, and the rest is tried next; both are marked if it was atomic.
Split ==
  /\ queue # <<>> /\ ~Fits(Head(queue)) /\ own = <<>>
  /\ LET unit  == Head(queue)
         at    == CutAt(unit, Max({WordCap - used, 1}))
         mark  == unit.partial \/ unit.atomic
         first == [unit EXCEPT !.upto = at, !.partial = mark]
         rest  == [unit EXCEPT !.from = at, !.partial = mark]
     IN  /\ parts' = Append(parts, Part(<<first>>))
         /\ queue' = <<rest>> \o Tail(queue)
         /\ repeats' = RunWith(first) /\ running' = unit.repeat
         /\ StartChunk(RunWith(first), <<rest>> \o Tail(queue), first)
  /\ UNCHANGED <<regions, region>>

\* The next region starts afresh: nothing is carried over a region's end.
NextRegion ==
  /\ queue = <<>> /\ region < Len(regions)
  /\ parts' = IF own = <<>> THEN parts ELSE Append(parts, Part(own))
  /\ region' = region + 1 /\ queue' = regions[region + 1]
  /\ repeats' = <<>> /\ running' = FALSE
  /\ head' = <<>> /\ overlap' = NoOverlap /\ own' = <<>> /\ used' = 0
  /\ UNCHANGED regions

\* The last region's last chunk.
Packed == queue = <<>> /\ region = Len(regions)
AllParts == IF own = <<>> THEN parts ELSE Append(parts, Part(own))

PackStep == Place \/ Close \/ Split \/ NextRegion

-----------------------------------------------------------------------------
(* Passages. A part's text is its words; a word is its line's, by place.    *)

\* assign_ids: the digest of the text, and the copy: the first has no suffix.
AssignIds(texts) ==
  [k \in DOMAIN texts |-> <<texts[k], Cardinality({j \in 1..k : texts[j] = texts[k]})>>]
=============================================================================
