----------------------------- MODULE BookProofs -----------------------------
(***************************************************************************)
(* Proofs about Segmentation, for every document, budget and bound on the  *)
(* number of segments, and about Book, for every manuscript and selection. *)
(*                                                                         *)
(* The batches tile the document, none crosses a chapter, none is over the *)
(* limits and none is wasted.  The batch being filled is part of the       *)
(* argument: the batches put down tile the units up to the first one it    *)
(* holds, and it holds units of one chapter, no more than there may be.    *)
(* Every action puts it down (Closed) or goes on with it.                  *)
(*                                                                         *)
(* The chapters of a book start at different paragraphs, the first at the  *)
(* first, so that every block has a place in one of them and what a        *)
(* selection gives the loop is a document: the batches of a book are those *)
(* of Segmentation.  A batch is told by its first block alone, whatever    *)
(* else was selected: two selections that share a chapter cut it alike.    *)
(***************************************************************************)
EXTENDS Book, SequenceFacts

BatchType == [first : Nat \ {0}, last : Nat \ {0}, oversized : BOOLEAN]

\* The batches of seq hold the units before the one at end, each once.
TiledTo(seq, end) ==
  /\ \A i \in DOMAIN seq :
       /\ seq[i].first <= seq[i].last
       /\ seq[i].first = IF i = 1 THEN 1 ELSE seq[i - 1].last + 1
  /\ end = IF seq = <<>> THEN 1 ELSE seq[Len(seq)].last + 1

\* What OneChapter and FewSegments say of a single batch
Sound(batch) ==
  /\ \A k \in batch.first..batch.last : units[k].chapter = units[batch.first].chapter
  /\ batch.last - batch.first < MaxSegments
  /\ batch.oversized => batch.first = batch.last

SoundOpen ==
  open # 0 => /\ position - open <= MaxSegments
              /\ \A k \in open..(position - 1) : units[k].chapter = units[open].chapter

Inv ==
  /\ LoopTypeOK
  /\ TiledTo(batches, Uncovered)
  /\ \A i \in DOMAIN batches : Sound(batches[i])
  /\ SoundOpen

-----------------------------------------------------------------------------
\* What Append does to a sequence.
LEMMA AppendFacts ==
  ASSUME NEW S, NEW seq \in Seq(S), NEW e \in S
  PROVE  /\ Append(seq, e) \in Seq(S)
         /\ Append(seq, e) # <<>>
         /\ Len(Append(seq, e)) = Len(seq) + 1
         /\ DOMAIN Append(seq, e) = 1..(Len(seq) + 1)
         /\ \A i \in DOMAIN seq : Append(seq, e)[i] = seq[i]
         /\ Append(seq, e)[Len(seq) + 1] = e
  OBVIOUS

\* A batch that goes on where the others end extends the tiling.
LEMMA TilingExtends ==
  ASSUME NEW seq \in Seq(BatchType), NEW first \in Nat \ {0}, NEW last \in Nat \ {0},
         NEW oversized \in BOOLEAN, TiledTo(seq, first), first <= last
  PROVE  TiledTo(Append(seq, Batch(first, last, oversized)), last + 1)
<1> DEFINE b    == Batch(first, last, oversized)
           long == Append(seq, b)
<1>1. b \in BatchType /\ b.first = first /\ b.last = last
  BY DEF Batch, BatchType
<1>2. /\ long \in Seq(BatchType) /\ long # <<>> /\ Len(long) = Len(seq) + 1
      /\ DOMAIN long = 1..(Len(seq) + 1)
      /\ \A i \in DOMAIN seq : long[i] = seq[i]
      /\ long[Len(seq) + 1] = b
  BY <1>1, AppendFacts
<1>3. DOMAIN seq = 1..Len(seq) /\ Len(seq) \in Nat
  OBVIOUS
<1> HIDE DEF b, long
<1>4. ASSUME NEW i \in DOMAIN long
      PROVE  /\ long[i].first <= long[i].last
             /\ long[i].first = IF i = 1 THEN 1 ELSE long[i - 1].last + 1
  <2>1. CASE i \in DOMAIN seq
    <3>1. long[i] = seq[i] BY <1>2, <2>1
    <3>2. i # 1 => i - 1 \in DOMAIN seq /\ long[i - 1] = seq[i - 1]
      BY <1>2, <1>3, <2>1
    <3> QED BY <3>1, <3>2, <2>1 DEF TiledTo
  <2>2. CASE i = Len(seq) + 1
    <3>1. long[i] = b BY <1>2, <2>2
    <3>2. CASE seq = <<>>
      <4>1. first = 1 BY <3>2 DEF TiledTo
      <4> QED BY <4>1, <3>1, <3>2, <2>2, <1>1
    <3>3. CASE seq # <<>>
      <4>1. Len(seq) \in DOMAIN seq /\ i # 1 /\ i - 1 = Len(seq) BY <1>3, <2>2, <3>3
      <4>2. first = seq[Len(seq)].last + 1 BY <3>3 DEF TiledTo
      <4> QED BY <4>1, <4>2, <3>1, <1>1, <1>2
    <3> QED BY <3>2, <3>3
  <2> QED BY <2>1, <2>2, <1>2, <1>3
<1>5. last + 1 = IF long = <<>> THEN 1 ELSE long[Len(long)].last + 1
  BY <1>1, <1>2
<1> QED BY <1>4, <1>5 DEF TiledTo, long, b

\* With the batch being filled put down, the batches tile all that was taken.
LEMMA ClosedTiles ==
  ASSUME Inv
  PROVE  /\ Closed \in Seq(BatchType)
         /\ TiledTo(Closed, position)
         /\ \A i \in DOMAIN Closed : Sound(Closed[i])
<1>1. /\ position \in Nat \ {0} /\ open \in Nat /\ open <= position - 1
      /\ batches \in Seq(BatchType)
  BY DEF Inv, LoopTypeOK, BatchType
<1>2. CASE open = 0
  BY <1>1, <1>2 DEF Inv, Closed, Uncovered
<1>3. CASE open # 0
  <2> DEFINE b == Batch(open, position - 1, FALSE)
  <2>1. position - 1 \in Nat \ {0} /\ open \in Nat \ {0} BY <1>1, <1>3
  <2>2. b \in BatchType BY <2>1 DEF Batch, BatchType
  <2>3. Closed = Append(batches, b) BY <1>3 DEF Closed
  <2>4. TiledTo(batches, open) BY <1>3 DEF Inv, Uncovered
  <2>5. TiledTo(Closed, (position - 1) + 1)
    BY <1>1, <2>1, <2>3, <2>4, TilingExtends
  <2>6. Sound(b)
    BY <1>1, <1>3, SegmentationAssumption
    DEF Inv, SoundOpen, Sound, Batch, SegmentationAssumption
  <2> HIDE DEF b
  <2>7. /\ Closed \in Seq(BatchType) /\ DOMAIN Closed = 1..(Len(batches) + 1)
        /\ \A i \in DOMAIN batches : Closed[i] = batches[i]
        /\ Closed[Len(batches) + 1] = b
    <3>1. /\ Append(batches, b) \in Seq(BatchType)
          /\ DOMAIN Append(batches, b) = 1..(Len(batches) + 1)
          /\ \A i \in DOMAIN batches : Append(batches, b)[i] = batches[i]
          /\ Append(batches, b)[Len(batches) + 1] = b
      BY <1>1, <2>2, AppendFacts
    <3> QED BY <3>1, <2>3
  <2>8. \A i \in DOMAIN Closed : i \in DOMAIN batches \/ i = Len(batches) + 1
    BY <1>1, <2>7
  <2>9. \A i \in DOMAIN Closed : Sound(Closed[i])
    BY <2>6, <2>7, <2>8 DEF Inv
  <2>10. (position - 1) + 1 = position BY <1>1
  <2> QED BY <2>5, <2>7, <2>9, <2>10
<1> QED BY <1>2, <1>3

-----------------------------------------------------------------------------
\* Before anything is grouped the invariant holds, and so it does when another
\* document is begun.
LEMMA InvInit == NoUnits => Inv
<1> SUFFICES ASSUME NoUnits PROVE Inv
  OBVIOUS
<1>1. LoopTypeOK BY DEF NoUnits, LoopTypeOK
<1>2. TiledTo(batches, Uncovered) BY DEF NoUnits, TiledTo, Uncovered
<1>3. SoundOpen BY DEF NoUnits, SoundOpen
<1> QED BY <1>1, <1>2, <1>3 DEF Inv, NoUnits

\* The three facts a step has to leave behind, put together.
LEMMA InvFrom ==
  ASSUME LoopTypeOK', TiledTo(batches, Uncovered)',
         \A i \in DOMAIN batches' : Sound(batches[i])', SoundOpen'
  PROVE  Inv'
  BY DEF Inv

\* A unit of the document has a chapter, and the loop is within the document.
LEMMA LoopFacts ==
  ASSUME Inv
  PROVE  /\ units \in Seq(Unit) /\ Len(units) \in Nat
         /\ position \in Nat \ {0} /\ position <= Len(units) + 1
         /\ open \in Nat /\ open <= position - 1
         /\ batches \in Seq(BatchType)
  BY DEF Inv, LoopTypeOK, BatchType

\* An oversized unit goes in a batch of its own, after the one being filled.
LEMMA InvTakeOversized == Inv /\ TakeOversized => Inv'
<1> SUFFICES ASSUME Inv, TakeOversized PROVE Inv'
  OBVIOUS
<1> DEFINE b == Batch(position, position, TRUE)
<1>1. /\ position \in Nat \ {0} /\ Len(units) \in Nat /\ units \in Seq(Unit)
      /\ position <= Len(units)
  BY LoopFacts DEF TakeOversized, AtUnit
<1>2. Closed \in Seq(BatchType) /\ TiledTo(Closed, position)
      /\ \A i \in DOMAIN Closed : Sound(Closed[i])
  BY ClosedTiles
<1>3. b \in BatchType /\ b.first = position /\ b.last = position
  BY <1>1 DEF Batch, BatchType
<1>4. Sound(b)
  <2> HIDE DEF b
  <2>1. b.last - b.first < MaxSegments
    BY <1>1, <1>3, SegmentationAssumption DEF SegmentationAssumption
  <2>2. \A k \in b.first..b.last : k = position
    BY <1>1, <1>3
  <2> QED BY <2>1, <2>2, <1>3 DEF Sound
<1>5. /\ batches' = Append(Closed, b) /\ open' = 0
      /\ position' = position + 1 /\ UNCHANGED units
  BY DEF TakeOversized
<1>6. TiledTo(batches', position + 1)
  <2>1. position <= position /\ TRUE \in BOOLEAN
    BY <1>1
  <2>2. TiledTo(Append(Closed, Batch(position, position, TRUE)), position + 1)
    BY <1>1, <1>2, <2>1, TilingExtends, Zenon
  <2> QED BY <2>2, <1>5
<1> HIDE DEF b
<1>7. /\ batches' \in Seq(BatchType) /\ DOMAIN batches' = 1..(Len(Closed) + 1)
      /\ \A i \in DOMAIN Closed : batches'[i] = Closed[i]
      /\ batches'[Len(Closed) + 1] = b
  <2>1. /\ Append(Closed, b) \in Seq(BatchType)
        /\ DOMAIN Append(Closed, b) = 1..(Len(Closed) + 1)
        /\ \A i \in DOMAIN Closed : Append(Closed, b)[i] = Closed[i]
        /\ Append(Closed, b)[Len(Closed) + 1] = b
    BY <1>2, <1>3, AppendFacts
  <2> QED BY <2>1, <1>5
<1>8. LoopTypeOK'
  BY <1>1, <1>5, <1>7 DEF LoopTypeOK, BatchType
<1>9. TiledTo(batches, Uncovered)'
  BY <1>5, <1>6 DEF TiledTo, Uncovered
<1>10. \A i \in DOMAIN batches' : Sound(batches[i])'
  <2>1. \A i \in DOMAIN batches' : i \in DOMAIN Closed \/ i = Len(Closed) + 1
    BY <1>2, <1>7
  <2>2. \A i \in DOMAIN batches' : Sound(batches'[i])
    BY <2>1, <1>2, <1>4, <1>7
  <2> QED BY <2>2, <1>5 DEF Sound
<1>11. SoundOpen'
  BY <1>5 DEF SoundOpen
<1> QED BY <1>8, <1>9, <1>10, <1>11, InvFrom

\* A unit that does not go with the others begins a batch.
LEMMA InvOpenBatch == Inv /\ OpenBatch => Inv'
<1> SUFFICES ASSUME Inv, OpenBatch PROVE Inv'
  OBVIOUS
<1>1. /\ position \in Nat \ {0} /\ Len(units) \in Nat /\ units \in Seq(Unit)
      /\ position <= Len(units)
  BY LoopFacts DEF OpenBatch, AtUnit
<1>2. Closed \in Seq(BatchType) /\ TiledTo(Closed, position)
      /\ \A i \in DOMAIN Closed : Sound(Closed[i])
  BY ClosedTiles
<1>3. /\ batches' = Closed /\ open' = position
      /\ position' = position + 1 /\ UNCHANGED units
  BY DEF OpenBatch
<1>4. LoopTypeOK'
  BY <1>1, <1>2, <1>3 DEF LoopTypeOK, BatchType
<1>5. TiledTo(batches, Uncovered)'
  BY <1>1, <1>2, <1>3 DEF TiledTo, Uncovered
<1>6. \A i \in DOMAIN batches' : Sound(batches[i])'
  BY <1>2, <1>3 DEF Sound
<1>7. SoundOpen'
  <2>1. position' - open' <= MaxSegments
    BY <1>1, <1>3, SegmentationAssumption DEF SegmentationAssumption
  <2>2. \A k \in open'..(position' - 1) : k = open'
    BY <1>1, <1>3
  <2> QED BY <2>1, <2>2 DEF SoundOpen
<1> QED BY <1>4, <1>5, <1>6, <1>7, InvFrom

\* A unit joins the batch being filled: one of its chapter, with a place left.
LEMMA InvJoin == Inv /\ Join => Inv'
<1> SUFFICES ASSUME Inv, Join PROVE Inv'
  OBVIOUS
<1>1. /\ position \in Nat \ {0} /\ Len(units) \in Nat /\ units \in Seq(Unit)
      /\ position <= Len(units) /\ open \in Nat /\ open <= position - 1
      /\ batches \in Seq(BatchType)
  BY LoopFacts DEF Join, AtUnit
<1>2. position' = position + 1 /\ UNCHANGED <<units, open, batches>>
  BY DEF Join
<1>3. /\ open # 0 /\ units[open].chapter = units[position].chapter
      /\ ~(position - open >= MaxSegments)
  BY DEF Join, NeedsNew, CrossesChapter, TooMany
<1>4. LoopTypeOK'
  BY <1>1, <1>2 DEF LoopTypeOK, BatchType
<1>5. TiledTo(batches, Uncovered)'
  BY <1>2, <1>3 DEF Inv, TiledTo, Uncovered
<1>6. \A i \in DOMAIN batches' : Sound(batches[i])'
  BY <1>2 DEF Inv, Sound
<1>7. SoundOpen'
  <2>1. position' - open' <= MaxSegments
    BY <1>1, <1>2, <1>3, SegmentationAssumption DEF SegmentationAssumption
  <2>2. \A k \in open..position : k \in open..(position - 1) \/ k = position
    BY <1>1
  <2>3. \A k \in open..position : units[k].chapter = units[open].chapter
    BY <2>2, <1>3 DEF Inv, SoundOpen
  <2>4. position' - 1 = position
    BY <1>1, <1>2
  <2> QED BY <2>1, <2>3, <2>4, <1>2 DEF SoundOpen
<1> QED BY <1>4, <1>5, <1>6, <1>7, InvFrom

\* At the end of the document the batch being filled is put down.
LEMMA InvFinish == Inv /\ Finish => Inv'
<1> SUFFICES ASSUME Inv, Finish PROVE Inv'
  OBVIOUS
<1>1. Closed \in Seq(BatchType) /\ TiledTo(Closed, position)
      /\ \A i \in DOMAIN Closed : Sound(Closed[i])
  BY ClosedTiles
<1>2. batches' = Closed /\ open' = 0 /\ UNCHANGED <<units, position>>
  BY DEF Finish
<1>3. LoopTypeOK'
  BY <1>1, <1>2, LoopFacts DEF LoopTypeOK, BatchType
<1>4. TiledTo(batches, Uncovered)'
  BY <1>1, <1>2 DEF TiledTo, Uncovered
<1>5. \A i \in DOMAIN batches' : Sound(batches[i])'
  BY <1>1, <1>2 DEF Sound
<1>6. SoundOpen'
  BY <1>2 DEF SoundOpen
<1> QED BY <1>3, <1>4, <1>5, <1>6, InvFrom

\* Another document starts with no batch at all.
LEMMA InvRegroup == Inv /\ Regroup => Inv'
<1> SUFFICES ASSUME NEW text \in Seq(Unit), Begin(text) PROVE Inv'
  BY DEF Regroup
<1>1. units' = text /\ position' = 1 /\ open' = 0 /\ batches' = <<>>
  BY DEF Begin
<1>2. LoopTypeOK'
  BY <1>1 DEF LoopTypeOK
<1>3. TiledTo(batches, Uncovered)'
  BY <1>1 DEF TiledTo, Uncovered
<1>4. \A i \in DOMAIN batches' : Sound(batches[i])'
  BY <1>1
<1>5. SoundOpen'
  BY <1>1 DEF SoundOpen
<1> QED BY <1>2, <1>3, <1>4, <1>5, InvFrom

\* When nothing changes the invariant stays.
LEMMA InvStutter == Inv /\ UNCHANGED vars => Inv'
  BY DEF Inv, LoopTypeOK, TiledTo, Uncovered, Sound, SoundOpen, vars, loop

-----------------------------------------------------------------------------
(* What a batch costs *)

\* What the loop of Wire adds up, from the unit at i on
Adds(sum, i, j) ==
  sum = [k \in (i - 1)..j |->
           IF k = i - 1 THEN 0 ELSE sum[k - 1] + units[k].tokens + TagTokens]

\* The costs can be added up, however many units there are: one more can be
\* added to what was added up so far.
LEMMA SumExists ==
  ASSUME NEW i \in Nat \ {0}, NEW j \in Nat, j >= i - 1
  PROVE  \E sum : Adds(sum, i, j)
<1> DEFINE Bad == {k \in (i - 1)..j : ~\E sum : Adds(sum, i, k)}
<1> SUFFICES ASSUME Bad # {} PROVE FALSE
  <2>1. j \in (i - 1)..j
    OBVIOUS
  <2> QED
    BY <2>1
<1>1. PICK k \in Bad : \A l \in Bad : k <= l
  <2>1. Bad \in SUBSET Nat
    OBVIOUS
  <2> QED
    BY <2>1, LeastNumber
<1>2. k \in (i - 1)..j /\ ~\E sum : Adds(sum, i, k)
  BY <1>1
<1>3. k # i - 1
  <2>1. ASSUME k = i - 1 PROVE FALSE
    <3> DEFINE one == [l \in (i - 1)..(i - 1) |-> 0]
    <3>1. one = [l \in (i - 1)..(i - 1) |->
                   IF l = i - 1 THEN 0 ELSE one[l - 1] + units[l].tokens + TagTokens]
      OBVIOUS
    <3> HIDE DEF one
    <3>2. Adds(one, i, i - 1)
      BY <3>1 DEF Adds
    <3> QED
      BY <1>2, <2>1, <3>2
  <2> QED
    BY <2>1
<1>4. k - 1 \in (i - 1)..j /\ ~(k <= k - 1)
  BY <1>2, <1>3
<1>5. k - 1 \notin Bad
  BY <1>1, <1>4
<1>6. PICK sum : Adds(sum, i, k - 1)
  BY <1>4, <1>5
<1> DEFINE longer == [l \in (i - 1)..k |->
                        IF l = k THEN sum[k - 1] + units[k].tokens + TagTokens ELSE sum[l]]
<1>7. ASSUME NEW l \in (i - 1)..k
      PROVE  longer[l] = IF l = i - 1 THEN 0 ELSE longer[l - 1] + units[l].tokens + TagTokens
  <2>1. CASE l = k
    <3>1. k - 1 \in (i - 1)..k /\ k - 1 # k
      BY <1>4
    <3>2. longer[k - 1] = sum[k - 1] /\ longer[k] = sum[k - 1] + units[k].tokens + TagTokens
      BY <1>7, <2>1, <3>1
    <3> HIDE DEF longer
    <3> QED
      BY <1>3, <2>1, <3>2
  <2>2. CASE l # k
    <3>1. l \in (i - 1)..(k - 1) /\ longer[l] = sum[l]
      BY <1>2, <2>2
    <3>2. l # i - 1 => l - 1 \in (i - 1)..k /\ l - 1 # k
      BY <1>2, <2>2
    <3>3. l # i - 1 => longer[l - 1] = sum[l - 1]
      BY <3>2
    <3>4. sum[l] = IF l = i - 1 THEN 0 ELSE sum[l - 1] + units[l].tokens + TagTokens
      BY <1>6, <3>1 DEF Adds
    <3> HIDE DEF longer
    <3> QED
      BY <3>1, <3>3, <3>4
  <2> QED
    BY <2>1, <2>2
<1>8. Adds(longer, i, k)
  <2>1. longer = [l \in (i - 1)..k |-> longer[l]]
    OBVIOUS
  <2> HIDE DEF longer
  <2> QED
    BY <1>7, <2>1 DEF Adds
<1> QED
  BY <1>2, <1>8

\* There is one way to add them up, and how far one goes makes no difference to
\* what the units before come to.
LEMMA SumIsOne ==
  ASSUME NEW i \in Nat \ {0}, NEW j \in Nat, j >= i - 1, NEW l \in (i - 1)..j,
         NEW short, Adds(short, i, l), NEW long, Adds(long, i, j)
  PROVE  short[l] = long[l]
<1> DEFINE Differ == {k \in (i - 1)..l : short[k] # long[k]}
<1> SUFFICES ASSUME Differ # {} PROVE FALSE
  <2>1. l \in (i - 1)..l
    OBVIOUS
  <2> QED
    BY <2>1
<1>1. PICK k \in Differ : \A m \in Differ : k <= m
  <2>1. Differ \in SUBSET Nat
    OBVIOUS
  <2> QED
    BY <2>1, LeastNumber
<1>2. k \in (i - 1)..l /\ k \in (i - 1)..j /\ short[k] # long[k]
  BY <1>1
<1>3. /\ short[k] = IF k = i - 1 THEN 0 ELSE short[k - 1] + units[k].tokens + TagTokens
      /\ long[k] = IF k = i - 1 THEN 0 ELSE long[k - 1] + units[k].tokens + TagTokens
  BY <1>2 DEF Adds
<1>4. k # i - 1
  BY <1>2, <1>3
<1>5. k - 1 \in (i - 1)..l /\ ~(k <= k - 1)
  BY <1>2, <1>4
<1>6. short[k - 1] = long[k - 1]
  BY <1>1, <1>5
<1> QED
  BY <1>2, <1>3, <1>6

\* The costs are numbers.
LEMMA SumIsNatural ==
  ASSUME units \in Seq(Unit), NEW i \in Nat \ {0}, NEW j \in Nat, j >= i - 1, j <= Len(units),
         NEW sum, Adds(sum, i, j)
  PROVE  sum[j] \in Nat
<1> DEFINE Bad == {k \in (i - 1)..j : sum[k] \notin Nat}
<1> SUFFICES ASSUME Bad # {} PROVE FALSE
  <2>1. j \in (i - 1)..j
    OBVIOUS
  <2> QED
    BY <2>1
<1>1. PICK k \in Bad : \A m \in Bad : k <= m
  <2>1. Bad \in SUBSET Nat
    OBVIOUS
  <2> QED
    BY <2>1, LeastNumber
<1>2. k \in (i - 1)..j /\ sum[k] \notin Nat
  BY <1>1
<1>3. sum[k] = IF k = i - 1 THEN 0 ELSE sum[k - 1] + units[k].tokens + TagTokens
  BY <1>2 DEF Adds
<1>4. k # i - 1
  BY <1>2, <1>3
<1>5. k - 1 \in (i - 1)..j /\ ~(k <= k - 1) /\ k \in 1..Len(units)
  BY <1>2, <1>4
<1>6. sum[k - 1] \in Nat
  BY <1>1, <1>5
<1>7. units[k].tokens \in Nat /\ TagTokens \in Nat
  <2>1. units[k] \in Unit
    BY <1>5
  <2> QED
    BY <2>1, SegmentationAssumption DEF Unit, SegmentationAssumption
<1> QED
  BY <1>2, <1>3, <1>4, <1>6, <1>7

\* No units cost nothing, and one more costs its tokens and its tags.
LEMMA WireIs ==
  ASSUME units \in Seq(Unit), NEW i \in Nat \ {0}, NEW j \in Nat, j >= i - 1, j <= Len(units)
  PROVE  /\ Wire(i, j) \in Nat
         /\ j = i - 1 => Wire(i, j) = 0
         /\ j >= i => Wire(i, j) = Wire(i, j - 1) + units[j].tokens + TagTokens
<1> DEFINE sumTo(n) == CHOOSE sum : Adds(sum, i, n)
<1>1. ASSUME NEW n \in Nat, n >= i - 1
      PROVE  Adds(sumTo(n), i, n)
  <2>1. \E sum : Adds(sum, i, n)
    BY <1>1, SumExists
  <2> QED
    BY <2>1
<1>2. \A n \in Nat : Wire(i, n) = sumTo(n)[n]
  BY DEF Wire, Adds
<1> HIDE DEF sumTo
<1>3. Wire(i, j) \in Nat
  BY <1>1, <1>2, SumIsNatural
<1>4. sumTo(j)[j] = IF j = i - 1 THEN 0 ELSE sumTo(j)[j - 1] + units[j].tokens + TagTokens
  <2>1. Adds(sumTo(j), i, j) /\ j \in (i - 1)..j
    BY <1>1
  <2> QED
    BY <2>1 DEF Adds
<1>5. ASSUME j >= i
      PROVE  sumTo(j)[j - 1] = sumTo(j - 1)[j - 1]
  <2>1. j - 1 \in Nat /\ j - 1 >= i - 1 /\ j - 1 \in (i - 1)..j
    BY <1>5
  <2> QED
    BY <2>1, <1>1, SumIsOne
<1> QED
  BY <1>2, <1>3, <1>4, <1>5

\* What the units cost depends on the units only.
LEMMA WireKept ==
  ASSUME UNCHANGED units
  PROVE  \A i, j : Wire(i, j)' = Wire(i, j)
BY DEF Wire

\* A batch put down is within the budget, or a single block is not; the batch
\* being filled is within it after every turn.
Affordable(batch) == batch.oversized \/ Wire(batch.first, batch.last) <= Budget

AffordableOpen == open # 0 => Wire(open, position - 1) <= Budget

\* The unit at first would not have gone with the batch before it.
Parted(before, first) ==
  \/ before.oversized
  \/ units[first].chapter # units[before.first].chapter
  \/ Wire(before.first, first) > Budget
  \/ first - before.first >= MaxSegments

\* With no batch being filled and a unit to come, the last one put down is
\* oversized.
PartedOpen ==
  batches # <<>> =>
    /\ open # 0 => Parted(batches[Len(batches)], open)
    /\ open = 0 /\ AtUnit => batches[Len(batches)].oversized

Costs ==
  /\ \A i \in DOMAIN batches : Affordable(batches[i])
  /\ AffordableOpen
  /\ \A i \in DOMAIN batches \ {1} : batches[i].oversized \/ Parted(batches[i - 1], batches[i].first)
  /\ PartedOpen

\* What the invariant says of the batches of a sequence
CostsOf(seq) ==
  /\ \A i \in DOMAIN seq : Affordable(seq[i])
  /\ \A i \in DOMAIN seq \ {1} : seq[i].oversized \/ Parted(seq[i - 1], seq[i].first)

\* A batch put down at the end is parted from the one before it, or oversized.
LEMMA CostsExtend ==
  ASSUME NEW seq \in Seq(BatchType), NEW b \in BatchType, CostsOf(seq), Affordable(b),
         seq # <<>> => b.oversized \/ Parted(seq[Len(seq)], b.first)
  PROVE  CostsOf(Append(seq, b))
<1> DEFINE long == Append(seq, b)
<1>1. /\ Len(seq) \in Nat /\ DOMAIN seq = 1..Len(seq)
      /\ DOMAIN long = 1..(Len(seq) + 1)
      /\ \A i \in DOMAIN seq : long[i] = seq[i]
      /\ long[Len(seq) + 1] = b
  BY AppendFacts
<1> HIDE DEF long
<1>2. ASSUME NEW i \in DOMAIN long
      PROVE  /\ Affordable(long[i])
             /\ i # 1 => long[i].oversized \/ Parted(long[i - 1], long[i].first)
  <2>1. CASE i \in DOMAIN seq
    <3>1. i # 1 => i - 1 \in DOMAIN seq
      BY <1>1, <2>1
    <3> QED
      BY <1>1, <2>1, <3>1 DEF CostsOf
  <2>2. CASE i = Len(seq) + 1
    <3>1. i # 1 => seq # <<>> /\ i - 1 = Len(seq) /\ Len(seq) \in DOMAIN seq
      BY <1>1, <2>2
    <3> QED
      BY <1>1, <2>2, <3>1
  <2> QED
    BY <1>1, <2>1, <2>2
<1> QED
  BY <1>2 DEF CostsOf, long

\* With the batch being filled put down, every batch is paid for and parted.
LEMMA ClosedCosts ==
  ASSUME Inv, Costs
  PROVE  CostsOf(Closed)
<1>1. CASE open = 0
  BY <1>1 DEF Costs, CostsOf, Closed
<1>2. CASE open # 0
  <2> DEFINE b == Batch(open, position - 1, FALSE)
  <2>1. b \in BatchType /\ b.first = open /\ b.last = position - 1
    BY <1>2, LoopFacts DEF Batch, BatchType
  <2>2. Closed = Append(batches, b)
    BY <1>2 DEF Closed
  <2> HIDE DEF b
  <2>3. Affordable(b)
    BY <1>2, <2>1 DEF Costs, Affordable, AffordableOpen
  <2>4. CostsOf(batches)
    BY DEF Costs, CostsOf
  <2>5. batches # <<>> => Parted(batches[Len(batches)], b.first)
    BY <1>2, <2>1 DEF Costs, PartedOpen
  <2> QED
    BY <2>1, <2>2, <2>3, <2>4, <2>5, CostsExtend, LoopFacts
<1> QED
  BY <1>1, <1>2

\* A unit with which a batch is begun is parted from the batch put down last.
LEMMA ClosedParted ==
  ASSUME Inv, Costs, AtUnit, NeedsNew(units[position]), Closed # <<>>
  PROVE  Parted(Closed[Len(Closed)], position)
<1>1. CASE open = 0
  BY <1>1 DEF Costs, PartedOpen, Parted, Closed
<1>2. CASE open # 0
  <2> DEFINE b == Batch(open, position - 1, FALSE)
  <2>1. b \in BatchType /\ b.first = open
    BY <1>2, LoopFacts DEF Batch, BatchType
  <2>2. Closed = Append(batches, b)
    BY <1>2 DEF Closed
  <2> HIDE DEF b
  <2>3. Closed[Len(Closed)] = b
    BY <2>1, <2>2, AppendFacts, LoopFacts
  <2>4. Wire(open, position) = Wire(open, position - 1) + units[position].tokens + TagTokens
    BY <1>2, LoopFacts, WireIs DEF AtUnit
  <2> QED
    BY <1>2, <2>1, <2>3, <2>4 DEF NeedsNew, CrossesChapter, OverBudget, TooMany, Parted
<1> QED
  BY <1>1, <1>2

\* What is said of batches stays said while the units are the same ones.
LEMMA CostsOfKept ==
  ASSUME UNCHANGED units, CostsOf(batches')
  PROVE  /\ \A i \in DOMAIN batches' : Affordable(batches[i])'
         /\ \A i \in DOMAIN batches' \ {1} :
              batches'[i].oversized \/ Parted(batches[i - 1], batches[i].first)'
<1>1. \A i, j : Wire(i, j)' = Wire(i, j)
  BY WireKept
<1> QED
  BY <1>1 DEF CostsOf, Affordable, Parted

-----------------------------------------------------------------------------
LEMMA CostsTakeOversized == Inv /\ Costs /\ TakeOversized => Costs'
<1> SUFFICES ASSUME Inv, Costs, TakeOversized PROVE Costs'
  OBVIOUS
<1> DEFINE b == Batch(position, position, TRUE)
<1>1. b \in BatchType /\ b.oversized
  BY LoopFacts DEF Batch, BatchType
<1>2. batches' = Append(Closed, b) /\ open' = 0 /\ UNCHANGED units
  BY DEF TakeOversized
<1> HIDE DEF b
<1>3. Closed \in Seq(BatchType) /\ CostsOf(Closed) /\ Affordable(b)
  BY <1>1, ClosedTiles, ClosedCosts DEF Affordable
<1>4. CostsOf(batches')
  BY <1>1, <1>2, <1>3, CostsExtend
<1>5. AffordableOpen' /\ PartedOpen'
  <2>1. batches'[Len(batches')] = b
    BY <1>1, <1>2, <1>3, AppendFacts
  <2> QED
    BY <1>1, <1>2, <2>1 DEF AffordableOpen, PartedOpen
<1> QED
  BY <1>2, <1>4, <1>5, CostsOfKept DEF Costs

LEMMA CostsOpenBatch == Inv /\ Costs /\ OpenBatch => Costs'
<1> SUFFICES ASSUME Inv, Costs, OpenBatch PROVE Costs'
  OBVIOUS
<1>1. /\ batches' = Closed /\ open' = position /\ position' = position + 1 /\ UNCHANGED units
      /\ AtUnit /\ ~IsOversized(units[position]) /\ NeedsNew(units[position])
  BY DEF OpenBatch
<1>2. CostsOf(batches')
  BY <1>1, ClosedCosts
<1>3. \A i, j : Wire(i, j)' = Wire(i, j)
  BY <1>1, WireKept
<1>4. AffordableOpen'
  <2>1. /\ Wire(position, position) = Wire(position, position - 1) + units[position].tokens + TagTokens
        /\ Wire(position, position - 1) = 0
    <3>1. /\ position \in Nat \ {0} /\ position <= Len(units) /\ Len(units) \in Nat
          /\ units \in Seq(Unit)
      BY <1>1, LoopFacts DEF AtUnit
    <3>2. position - 1 \in Nat /\ position - 1 >= position - 1 /\ position - 1 <= Len(units)
      BY <3>1
    <3>3. Wire(position, position - 1) = 0
      BY <3>1, <3>2, WireIs
    <3>4. Wire(position, position) = Wire(position, position - 1) + units[position].tokens + TagTokens
      BY <3>1, WireIs
    <3> QED
      BY <3>3, <3>4
  <2>2. units[position] \in Unit
    BY <1>1, LoopFacts DEF AtUnit
  <2>3. Wire(position, position) <= Budget
    BY <1>1, <2>1, <2>2, SegmentationAssumption DEF IsOversized, Unit, SegmentationAssumption
  <2>4. position' - 1 = position
    BY <1>1, LoopFacts
  <2> QED
    BY <1>1, <1>3, <2>3, <2>4 DEF AffordableOpen
<1>5. PartedOpen'
  <2>1. Closed # <<>> => Parted(Closed[Len(Closed)], position)
    BY <1>1, ClosedParted
  <2>2. open' # 0
    BY <1>1, LoopFacts
  <2> QED
    BY <1>1, <1>3, <2>1, <2>2 DEF PartedOpen, Parted
<1> QED
  BY <1>1, <1>2, <1>4, <1>5, CostsOfKept DEF Costs

LEMMA CostsJoin == Inv /\ Costs /\ Join => Costs'
<1> SUFFICES ASSUME Inv, Costs, Join PROVE Costs'
  OBVIOUS
<1>1. /\ position' = position + 1 /\ UNCHANGED <<units, open, batches>>
      /\ AtUnit /\ open # 0 /\ ~OverBudget(units[position])
  BY DEF Join, NeedsNew
<1>2. CostsOf(batches')
  BY <1>1 DEF Costs, CostsOf
<1>3. \A i, j : Wire(i, j)' = Wire(i, j)
  BY <1>1, WireKept
<1>4. AffordableOpen'
  <2>1. /\ Wire(open, position) = Wire(open, position - 1) + units[position].tokens + TagTokens
        /\ Wire(open, position) \in Nat
    <3>1. /\ units \in Seq(Unit) /\ open \in Nat \ {0} /\ position \in Nat
          /\ position <= Len(units) /\ open <= position /\ position >= open - 1
      BY <1>1, LoopFacts DEF AtUnit
    <3> QED
      BY <3>1, WireIs
  <2>2. Wire(open, position) <= Budget
    BY <1>1, <2>1, SegmentationAssumption DEF OverBudget, SegmentationAssumption
  <2>3. position' - 1 = position
    BY <1>1, LoopFacts
  <2> QED
    BY <1>1, <1>3, <2>2, <2>3 DEF AffordableOpen
<1>5. PartedOpen'
  BY <1>1, <1>3 DEF Costs, PartedOpen, Parted
<1> QED
  BY <1>1, <1>2, <1>4, <1>5, CostsOfKept DEF Costs

LEMMA CostsFinish == Inv /\ Costs /\ Finish => Costs'
<1> SUFFICES ASSUME Inv, Costs, Finish PROVE Costs'
  OBVIOUS
<1>1. /\ batches' = Closed /\ open' = 0 /\ UNCHANGED <<units, position>>
      /\ position = Len(units) + 1
  BY DEF Finish
<1>2. CostsOf(batches')
  BY <1>1, ClosedCosts
<1>3. AffordableOpen' /\ PartedOpen'
  BY <1>1, LoopFacts DEF AffordableOpen, PartedOpen, AtUnit
<1> QED
  BY <1>1, <1>2, <1>3, CostsOfKept DEF Costs

LEMMA CostsStutter == Inv /\ Costs /\ UNCHANGED vars => Costs'
<1> SUFFICES ASSUME Costs, UNCHANGED vars PROVE Costs'
  OBVIOUS
<1>1. UNCHANGED <<units, position, open, batches>>
  BY DEF vars, loop
<1>2. \A i, j : Wire(i, j)' = Wire(i, j)
  BY <1>1, WireKept
<1> QED
  BY <1>1, <1>2 DEF Costs, Affordable, AffordableOpen, Parted, PartedOpen, AtUnit

-----------------------------------------------------------------------------
\* The invariant holds whatever documents are grouped.
THEOREM GroupingInvariant == GroupingSpec => []Inv
<1>1. NoUnits => Inv BY InvInit
<1>2. Inv /\ [Group \/ Regroup]_vars => Inv'
  BY InvTakeOversized, InvOpenBatch, InvJoin, InvFinish, InvRegroup, InvStutter
  DEF Group
<1> QED BY <1>1, <1>2, PTL DEF GroupingSpec

\* Every unit of every document is in exactly one batch, in the order of the
\* document: build_batches neither loses nor repeats nor moves one, around an
\* oversized block, at a chapter boundary and at the end.
THEOREM UnitsAreTiled == GroupingSpec => []BatchesTile
<1>1. Inv => BatchesTile BY DEF Inv, TiledTo, BatchesTile
<1> QED BY <1>1, GroupingInvariant, PTL

\* No batch, finished or being filled, crosses a chapter boundary.
THEOREM BatchesKeepToChapters == GroupingSpec => []OneChapter
<1>1. Inv => OneChapter BY DEF Inv, Sound, SoundOpen, OneChapter
<1> QED BY <1>1, GroupingInvariant, PTL

\* No batch has more units than max_batch_segments allows, and an oversized
\* block is alone in its batch.
THEOREM BatchesStaySmall == GroupingSpec => []FewSegments
<1>1. Inv => FewSegments BY DEF Inv, Sound, SoundOpen, FewSegments
<1> QED BY <1>1, GroupingInvariant, PTL

\* What the batches cost, and why they are apart, stays true whatever documents
\* are grouped.
THEOREM GroupingCosts == GroupingSpec => []Costs
<1>1. NoUnits => Costs
  BY DEF NoUnits, Costs, AffordableOpen, PartedOpen
<1>2. Inv /\ Costs /\ Regroup => Costs'
  BY DEF Regroup, Begin, Costs, AffordableOpen, PartedOpen
<1>3. Inv /\ Costs /\ [Group \/ Regroup]_vars => Costs'
  BY <1>2, CostsTakeOversized, CostsOpenBatch, CostsJoin, CostsFinish, CostsStutter
  DEF Group
<1> QED
  BY <1>1, <1>3, GroupingInvariant, PTL DEF GroupingSpec

\* No call to the translator is over the budget of tokens, tags included, or
\* over the number of segments, unless a single block is over the budget.
THEOREM BatchesStayWithinLimits == GroupingSpec => []WithinLimits
<1>1. Inv /\ Costs => WithinLimits
  BY DEF Inv, Sound, SoundOpen, Costs, Affordable, WithinLimits, FewSegments
<1> QED
  BY <1>1, GroupingInvariant, GroupingCosts, PTL

\* No call is wasted: build_batches parts two batches only where the chapter,
\* the budget, the number of segments or an oversized block makes it.
THEOREM NoBatchIsWasted == GroupingSpec => []NoneWasted
<1>1. Costs => NoneWasted
  BY DEF Costs, Parted, NoneWasted
<1> QED
  BY <1>1, GroupingCosts, PTL

-----------------------------------------------------------------------------
(* The chapters of a book *)

Plans == [start : Nat, page : Nat, number : Nat]

\* No two chapters start at the same paragraph.
Apart(plans) ==
  /\ plans \subseteq Plans
  /\ \A p \in plans : p.start \in Paragraphs
  /\ \A p, q \in plans : p.start = q.start => p = q

LEMMA BookIs ==
  ASSUME book \in Manuscripts
  PROVE  /\ Len(book.paragraphs) \in Nat /\ Paragraphs = 1..Len(book.paragraphs)
         /\ \A i \in Paragraphs : book.paragraphs[i] \in Paragraph
         /\ Len(book.outline) \in Nat
         /\ \A n \in 1..Len(book.outline) :
              /\ book.outline[n].page \in Nat /\ book.outline[n].number \in Nat
         /\ book.notes \in Seq([page : Nat, tokens : Nat])
         /\ \A i \in Paragraphs : i \in ChapterIds
         /\ \A i \in 1..(Len(book.paragraphs) + Len(book.notes)) : i \in BlockIds
<1>1. /\ book.paragraphs \in Seq(Paragraph)
      /\ book.outline \in Seq([level : Nat, page : Nat, number : Nat, titles : SUBSET Nat])
      /\ book.notes \in Seq([page : Nat, tokens : Nat])
      /\ 1..Len(book.paragraphs) \subseteq ChapterIds
      /\ 1..(Len(book.paragraphs) + Len(book.notes)) \subseteq BlockIds
  BY BookAssumption DEF BookAssumption
<1>2. /\ Len(book.paragraphs) \in Nat /\ Paragraphs = 1..Len(book.paragraphs)
      /\ \A i \in Paragraphs : book.paragraphs[i] \in Paragraph
  BY <1>1 DEF Paragraphs
<1>3. /\ Len(book.outline) \in Nat
      /\ \A n \in 1..Len(book.outline) :
           book.outline[n] \in [level : Nat, page : Nat, number : Nat, titles : SUBSET Nat]
  <2> DEFINE Entries == [level : Nat, page : Nat, number : Nat, titles : SUBSET Nat]
  <2>1. book.outline \in Seq(Entries)
    BY <1>1
  <2> HIDE DEF Entries
  <2>2. Len(book.outline) \in Nat /\ \A n \in 1..Len(book.outline) : book.outline[n] \in Entries
    BY <2>1
  <2> QED
    BY <2>2 DEF Entries
<1> QED
  BY <1>1, <1>2, <1>3

LEMMA MinIs ==
  ASSUME NEW S \in SUBSET Nat, S # {}
  PROVE  Min(S) \in S /\ \A x \in S : Min(S) <= x
<1>1. \E x \in S : \A y \in S : x <= y
  BY LeastNumber
<1> QED
  BY <1>1 DEF Min

\* An entry of the outline takes a paragraph that no entry before it took.
LEMMA MappedApart ==
  ASSUME book \in Manuscripts, NEW plans, Apart(plans), NEW entry,
         entry.page \in Nat, entry.number \in Nat
  PROVE  Apart(MappedOnto(plans, entry))
<1> DEFINE free == {i \in Paragraphs : /\ \A p \in plans : p.start # i
                                       /\ book.paragraphs[i].page >= entry.page}
           near == {i \in free : Cardinality({j \in free : j < i}) < 20}
           same == near \cap entry.titles
           from == IF same = {} THEN free ELSE same
           more == Plan(Min(from), entry.page, entry.number)
<1>1. CASE entry.level > 2 \/ free = {}
  BY <1>1 DEF MappedOnto
<1>2. CASE ~(entry.level > 2 \/ free = {})
  <2>1. MappedOnto(plans, entry) = plans \cup {more}
    BY <1>2 DEF MappedOnto
  <2>2. free \subseteq Paragraphs /\ Paragraphs \subseteq Nat
    BY BookIs
  <2>3. from # {} /\ from \subseteq free
    <3> HIDE DEF free
    <3> QED
      BY <1>2
  <2>4. Min(from) \in from
    <3> HIDE DEF from, free
    <3> QED
      BY <2>2, <2>3, MinIs
  <2>5. Min(from) \in Paragraphs /\ \A p \in plans : p.start # Min(from)
    <3> HIDE DEF from
    <3> QED
      BY <2>3, <2>4
  <2> HIDE DEF from
  <2>6. more \in Plans /\ more.start = Min(from)
    BY <2>2, <2>5 DEF Plan, Plans
  <2> HIDE DEF more, free
  <2> QED
    BY <2>1, <2>5, <2>6 DEF Apart
<1> QED
  BY <1>1, <1>2

\* The chapters that the first n entries of the outline give
MappedTo(mapped, n) ==
  mapped = [k \in 0..n |-> IF k = 0 THEN {} ELSE MappedOnto(mapped[k - 1], book.outline[k])]

LEMMA MappingExists ==
  ASSUME NEW n \in Nat
  PROVE  \E mapped : MappedTo(mapped, n)
<1> DEFINE Bad == {k \in 0..n : ~\E f : MappedTo(f, k)}
<1> SUFFICES ASSUME Bad # {} PROVE FALSE
  <2>1. n \in 0..n
    OBVIOUS
  <2> QED
    BY <2>1
<1>1. PICK k \in Bad : \A l \in Bad : k <= l
  <2>1. Bad \in SUBSET Nat
    OBVIOUS
  <2> QED
    BY <2>1, LeastNumber
<1>2. k \in 0..n /\ ~\E f : MappedTo(f, k)
  BY <1>1
<1>3. k # 0
  <2> DEFINE f == [l \in 0..0 |-> {}]
  <2>1. f = [l \in 0..0 |-> IF l = 0 THEN {} ELSE MappedOnto(f[l - 1], book.outline[l])]
    OBVIOUS
  <2>2. MappedTo(f, 0)
    BY <2>1 DEF MappedTo
  <2> QED
    BY <1>2, <2>2
<1>4. k - 1 \in 0..n /\ ~(k <= k - 1)
  BY <1>2, <1>3
<1>5. PICK f : MappedTo(f, k - 1)
  BY <1>1, <1>4
<1> DEFINE g == [l \in 0..k |-> IF l = k THEN MappedOnto(f[k - 1], book.outline[k]) ELSE f[l]]
<1>6. \A l \in 0..k : l # k => g[l] = f[l] /\ l \in 0..(k - 1)
  BY <1>2
<1>7. g[k] = MappedOnto(f[k - 1], book.outline[k])
  BY <1>2
<1>8. g = [l \in 0..k |-> g[l]]
  OBVIOUS
<1> HIDE DEF g
<1>9. ASSUME NEW l \in 0..k
      PROVE  g[l] = IF l = 0 THEN {} ELSE MappedOnto(g[l - 1], book.outline[l])
  <2>1. l # 0 => l - 1 \in 0..k /\ l - 1 # k /\ g[l - 1] = f[l - 1]
    BY <1>2, <1>6
  <2>2. CASE l = k
    BY <1>3, <1>7, <2>1, <2>2
  <2>3. CASE l # k
    <3>1. f[l] = IF l = 0 THEN {} ELSE MappedOnto(f[l - 1], book.outline[l])
      BY <1>5, <1>6, <2>3 DEF MappedTo
    <3> QED
      BY <1>6, <2>1, <2>3, <3>1
  <2> QED
    BY <2>2, <2>3
<1>10. MappedTo(g, k)
  BY <1>8, <1>9 DEF MappedTo
<1> QED
  BY <1>2, <1>10

LEMMA OutlineApart ==
  ASSUME book \in Manuscripts
  PROVE  Apart(FromOutline)
<1> DEFINE last == Len(book.outline)
           f == CHOOSE f : MappedTo(f, last)
<1>1. last \in Nat /\ \A n \in 1..last : book.outline[n].page \in Nat /\ book.outline[n].number \in Nat
  BY BookIs
<1>2. FromOutline = f[last]
  BY DEF FromOutline, MappedTo
<1>3. MappedTo(f, last)
  BY <1>1, MappingExists
<1> HIDE DEF f, last
<1> DEFINE Bad == {k \in 0..last : ~Apart(f[k])}
<1>4. ASSUME Bad # {} PROVE FALSE
  <2>1. PICK k \in Bad : \A l \in Bad : k <= l
    <3>1. Bad \in SUBSET Nat
      OBVIOUS
    <3> HIDE DEF Bad
    <3> QED
      BY <1>4, <3>1, LeastNumber
  <2>2. k \in 0..last /\ ~Apart(f[k])
    BY <2>1
  <2>3. f[k] = IF k = 0 THEN {} ELSE MappedOnto(f[k - 1], book.outline[k])
    BY <1>3, <2>2 DEF MappedTo
  <2>4. k # 0
    <3>1. Apart({})
      BY DEF Apart
    <3> QED
      BY <2>2, <2>3, <3>1
  <2>5. k - 1 \in 0..last /\ ~(k <= k - 1) /\ k \in 1..last
    BY <1>1, <2>2, <2>4
  <2>6. Apart(f[k - 1])
    BY <2>1, <2>5
  <2>7. Apart(MappedOnto(f[k - 1], book.outline[k]))
    BY <1>1, <2>5, <2>6, MappedApart
  <2> QED
    BY <2>2, <2>3, <2>4, <2>7
<1>5. last \in 0..last
  BY <1>1
<1>6. Apart(f[last])
  BY <1>4, <1>5
<1> QED
  BY <1>2, <1>6

\* A heading gives one chapter, at its own paragraph.
LEMMA PlansAtApart ==
  ASSUME book \in Manuscripts, NEW places \in SUBSET Paragraphs
  PROVE  Apart({PlanAt(i) : i \in places})
<1>1. \A i \in places : PlanAt(i) \in Plans /\ PlanAt(i).start = i /\ i \in Paragraphs
  <2>1. ASSUME NEW i \in places PROVE PlanAt(i) \in Plans /\ PlanAt(i).start = i
    <3>1. i \in Nat /\ book.paragraphs[i] \in Paragraph
      BY BookIs
    <3> QED
      BY <3>1 DEF PlanAt, Plan, Plans, Paragraph
  <2> QED
    BY <2>1
<1> QED
  BY <1>1 DEF Apart

LEMMA FoundApart ==
  ASSUME book \in Manuscripts
  PROVE  Apart(Found)
<1>1. Apart(FromPatterns)
  <2>1. {i \in Paragraphs : book.paragraphs[i].marked} \in SUBSET Paragraphs
    OBVIOUS
  <2> QED
    BY <2>1, PlansAtApart DEF FromPatterns
<1>2. Apart(FromHeadings)
  <2> DEFINE S == {i \in Paragraphs : Heading(book.paragraphs[i])}
             top == {n \in DOMAIN Headings : HeadingLevels[n] = Min(ToSet(HeadingLevels))}
             places == {Headings[n] : n \in top}
  <2>1. S \in SUBSET Int /\ IsFiniteSet(S)
    <3>1. Paragraphs = 1..Len(book.paragraphs) /\ Len(book.paragraphs) \in Nat
      BY BookIs
    <3>2. IsFiniteSet(Paragraphs)
      BY <3>1, FS_Interval
    <3>3. S \in SUBSET Paragraphs
      OBVIOUS
    <3> HIDE DEF S
    <3>4. IsFiniteSet(S)
      BY <3>2, <3>3, FS_Subset
    <3> QED
      BY <3>1, <3>3, <3>4
  <2>2. \A n \in DOMAIN Headings : Headings[n] \in S
    <3>1. Headings = InOrder(S)
      BY DEF Headings
    <3> HIDE DEF S
    <3>2. InOrder(S) \in [1..Cardinality(S) -> S]
      BY <2>1, InOrderIs
    <3> QED
      BY <3>1, <3>2
  <2>3. places \in SUBSET Paragraphs
    <3> HIDE DEF top
    <3>1. top \subseteq DOMAIN Headings
      BY DEF top
    <3> QED
      BY <2>2, <3>1
  <2>4. FromHeadings = {PlanAt(i) : i \in places}
    BY DEF FromHeadings
  <2> HIDE DEF places
  <2> QED
    BY <2>3, <2>4, PlansAtApart
<1> QED
  BY <1>1, <1>2, OutlineApart DEF Found

\* Chapters that start at different paragraphs, the first at the first; none
\* when there is no paragraph.
Divided(plans) ==
  /\ Len(plans) \in Nat /\ plans \in [1..Len(plans) -> Plans]
  /\ \A c \in 1..Len(plans) : c <= plans[c].start /\ plans[c].start <= Len(book.paragraphs)
  /\ \A c, d \in 1..Len(plans) : c < d => plans[c].start < plans[d].start
  /\ Paragraphs # {} => Len(plans) # 0 /\ plans[1].start = 1

LEMMA FrontMatterApart ==
  ASSUME book \in Manuscripts
  PROVE  LET plans == WithFrontMatter(Found) IN
         /\ Apart(plans)
         /\ Paragraphs # {} => \E p \in plans : p.start = 1
<1>1. Apart(Found)
  BY FoundApart
<1>2. CASE Paragraphs = {} \/ \E p \in Found : p.start = 1
  BY <1>1, <1>2 DEF WithFrontMatter
<1>3. CASE ~(Paragraphs = {} \/ \E p \in Found : p.start = 1)
  <2> DEFINE more == Plan(1, book.paragraphs[1].page, 0)
  <2>1. WithFrontMatter(Found) = Found \cup {more}
    BY <1>3 DEF WithFrontMatter
  <2>2. 1 \in Paragraphs /\ book.paragraphs[1] \in Paragraph
    BY <1>3, BookIs
  <2>3. more \in Plans /\ more.start = 1
    BY <2>2 DEF Plan, Plans, Paragraph
  <2> HIDE DEF more
  <2> QED
    BY <1>1, <1>3, <2>1, <2>2, <2>3 DEF Apart
<1> QED
  BY <1>2, <1>3

LEMMA DetectedDivides ==
  ASSUME book \in Manuscripts
  PROVE  Divided(Detected)
<1> DEFINE plans == WithFrontMatter(Found)
           before == Earlier(plans)
           found == Ranked(plans, before)
           N == Cardinality(plans)
<1>1. Apart(plans) /\ (Paragraphs # {} => \E p \in plans : p.start = 1)
  BY FrontMatterApart
<1>2. Detected = found
  BY DEF Detected
<1>3. \A p, q \in plans : <<p, q>> \in before <=> p.start < q.start
  BY DEF Earlier
<1> HIDE DEF plans, before
<1>4. \A p \in plans : p \in Plans /\ p.start \in Paragraphs /\ p.start \in Nat
  BY <1>1 DEF Apart, Plans
<1>5. Orders(before, plans)
  BY <1>1, <1>3, <1>4 DEF Orders, Apart
<1>6. Len(book.paragraphs) \in Nat /\ Paragraphs = 1..Len(book.paragraphs)
  BY BookIs
<1>7. IsFiniteSet(plans)
  <2> DEFINE at == [p \in plans |-> p.start]
  <2>1. at \in Injection(plans, Paragraphs)
    <3>1. at \in [plans -> Paragraphs] /\ \A p, q \in plans : at[p] = at[q] => p = q
      BY <1>1, <1>4 DEF Apart
    <3> HIDE DEF at
    <3> QED
      BY <3>1 DEF Injection, IsInjective
  <2>2. IsFiniteSet(Paragraphs)
    BY <1>6, FS_Interval
  <2> QED
    BY <2>1, <2>2, FS_Injection
<1>8. /\ N \in Nat /\ found \in [1..N -> plans]
      /\ \A p \in plans : \E n \in 1..N : found[n] = p
      /\ \A m, n \in 1..N : m < n => <<found[m], found[n]>> \in before
  BY <1>5, <1>7, RankedIs
<1>9. Len(found) = N
  BY <1>8
<1> HIDE DEF found, N
<1>10. /\ \A c \in 1..N : found[c] \in Plans /\ found[c].start \in 1..Len(book.paragraphs)
       /\ \A c, d \in 1..N : c < d => found[c].start < found[d].start
  BY <1>3, <1>4, <1>6, <1>8
<1>11. \A c \in 1..N : c <= found[c].start
  <2> DEFINE Bad == {c \in 1..N : ~(c <= found[c].start)}
  <2>1. ASSUME Bad # {} PROVE FALSE
    <3>1. PICK c \in Bad : \A d \in Bad : c <= d
      <4>1. Bad \in SUBSET Nat
        OBVIOUS
      <4> HIDE DEF Bad
      <4> QED
        BY <2>1, <4>1, LeastNumber
    <3>2. c \in 1..N /\ ~(c <= found[c].start) /\ found[c].start \in 1..Len(book.paragraphs)
      BY <1>10, <3>1
    <3>3. c - 1 \in 1..N /\ c - 1 < c
      BY <1>8, <3>2
    <3>4. c - 1 <= found[c - 1].start /\ found[c - 1].start < found[c].start
          /\ found[c - 1].start \in Nat /\ found[c].start \in Nat
      BY <1>10, <3>1, <3>2, <3>3
    <3> QED
      BY <3>2, <3>4
  <2> QED
    BY <2>1
<1>12. ASSUME Paragraphs # {} PROVE N # 0 /\ found[1].start = 1
  <2>1. PICK n \in 1..N : found[n].start = 1
    BY <1>1, <1>8, <1>12
  <2>2. n = 1
    <3>1. ~(1 < n)
      BY <1>8, <1>10, <2>1
    <3> QED
      BY <3>1
  <2> QED
    BY <1>8, <2>1, <2>2
<1>13. found \in [1..N -> Plans]
  BY <1>8, <1>10
<1> QED
  BY <1>2, <1>6, <1>8, <1>9, <1>10, <1>11, <1>12, <1>13 DEF Divided

-----------------------------------------------------------------------------
(* The blocks of a book *)

LEMMA MaxIs ==
  ASSUME NEW n \in Nat, NEW S \in SUBSET (0..n), S # {}
  PROVE  Max(S) \in S /\ \A x \in S : x <= Max(S)
<1> DEFINE left == {n - x : x \in S}
<1>1. left \in SUBSET Nat /\ left # {}
  <2>1. \A x \in S : x \in 0..n
    OBVIOUS
  <2>2. \A x \in S : n - x \in Nat
    BY <2>1
  <2> QED
    BY <2>2
<1>2. PICK m \in left : \A y \in left : m <= y
  <2> HIDE DEF left
  <2> QED
    BY <1>1, LeastNumber
<1>3. PICK x \in S : m = n - x
  BY <1>2
<1>4. \A y \in S : y <= x
  <2>1. ASSUME NEW y \in S PROVE y <= x
    <3>1. n - x <= n - y
      BY <1>2, <1>3
    <3>2. x \in Int /\ y \in Int
      OBVIOUS
    <3> QED
      BY <3>1, <3>2
  <2> QED
    BY <2>1
<1> QED
  BY <1>4 DEF Max

\* A paragraph belongs to the last chapter that starts at or before it.
LEMMA HomeIs ==
  ASSUME book \in Manuscripts, NEW plans, Divided(plans), NEW i \in Paragraphs
  PROVE  /\ Home(plans, i) \in 1..Len(plans)
         /\ plans[Home(plans, i)].start <= i
         /\ Home(plans, i) < Len(plans) => i < plans[Home(plans, i) + 1].start
<1> DEFINE N == Len(plans)
           homes == {c \in DOMAIN plans : i \in ParagraphsOf(plans, c)}
           ends == {c \in 1..N : c < N => i < plans[c + 1].start}
<1>1. /\ N \in Nat /\ DOMAIN plans = 1..N /\ N # 0 /\ plans[1].start = 1
      /\ \A c \in 1..N : plans[c].start \in Nat
      /\ i \in Nat /\ 1 <= i
  BY BookIs DEF Divided, Plans
<1>2. homes = {c \in 1..N : plans[c].start <= i /\ (c < N => i < plans[c + 1].start)}
  BY <1>1 DEF ParagraphsOf
<1>3. homes # {}
  <2>1. N \in ends /\ ends \in SUBSET Nat
    BY <1>1
  <2>2. PICK c \in ends : \A d \in ends : c <= d
    <3> HIDE DEF ends
    <3> QED
      BY <2>1, LeastNumber
  <2>3. CASE c = 1
    BY <1>1, <1>2, <2>2, <2>3
  <2>4. CASE c # 1
    <3>1. c - 1 \in 1..N /\ ~(c <= c - 1)
      BY <1>1, <2>2, <2>4
    <3>2. c - 1 \notin ends
      BY <2>2, <3>1
    <3>3. ~(i < plans[c].start) /\ plans[c].start \in Nat
      BY <1>1, <2>2, <3>1, <3>2
    <3> QED
      BY <1>1, <1>2, <2>2, <3>3
  <2> QED
    BY <2>3, <2>4
<1>4. Max(homes) \in homes
  <2>1. homes \in SUBSET (0..N)
    BY <1>1, <1>2
  <2> HIDE DEF homes
  <2> QED
    BY <1>1, <1>3, <2>1, MaxIs
<1>5. Home(plans, i) = Max(homes)
  BY <1>3 DEF Home
<1> HIDE DEF homes
<1> QED
  BY <1>2, <1>4, <1>5

\* The chapters of the paragraphs are in order.
LEMMA HomesAscend ==
  ASSUME book \in Manuscripts, NEW plans, Divided(plans),
         NEW i \in Paragraphs, NEW j \in Paragraphs, i < j
  PROVE  Home(plans, i) <= Home(plans, j)
<1> DEFINE c == Home(plans, i)
           d == Home(plans, j)
<1>1. /\ c \in 1..Len(plans) /\ plans[c].start <= i
      /\ d \in 1..Len(plans) /\ (d < Len(plans) => j < plans[d + 1].start)
  BY HomeIs
<1>2. Len(plans) \in Nat /\ i \in Nat /\ j \in Nat
  BY BookIs DEF Divided
<1> HIDE DEF c, d
<1>3. ASSUME d < c PROVE FALSE
  <2>1. d + 1 \in 1..Len(plans) /\ d < Len(plans)
    BY <1>1, <1>2, <1>3
  <2>2. plans[d + 1].start \in Nat /\ plans[c].start \in Nat
    BY <1>1, <2>1 DEF Divided, Plans
  <2>3. plans[d + 1].start <= plans[c].start
    <3>1. d + 1 = c \/ d + 1 < c
      BY <1>1, <1>2, <1>3
    <3>2. d + 1 < c => plans[d + 1].start < plans[c].start
      BY <1>1, <2>1 DEF Divided
    <3> QED
      BY <2>2, <3>1, <3>2
  <2> QED
    BY <1>1, <1>2, <2>1, <2>2, <2>3
<1> QED
  BY <1>1, <1>2, <1>3 DEF c, d

\* A note belongs to a chapter, when there is one.
LEMMA NoteHomeIs ==
  ASSUME NEW plans, Divided(plans), NEW page \in Nat
  PROVE  IF Len(plans) = 0 THEN ChapterForPage(plans, page) = 0
         ELSE ChapterForPage(plans, page) \in 1..Len(plans)
<1> DEFINE before == {c \in DOMAIN plans : plans[c].page <= page}
<1>1. Len(plans) \in Nat /\ DOMAIN plans = 1..Len(plans) /\ plans \in Seq(Plans)
  BY DEF Divided
<1>2. CASE Len(plans) = 0
  <2>1. plans = <<>>
    BY <1>1, <1>2
  <2> QED
    BY <1>2, <2>1 DEF ChapterForPage
<1>3. CASE Len(plans) # 0
  <2>1. plans # <<>>
    BY <1>1, <1>3
  <2>2. ChapterForPage(plans, page) = IF before = {} THEN 1 ELSE Max(before)
    BY <2>1 DEF ChapterForPage
  <2>3. before \in SUBSET (0..Len(plans)) /\ before \in SUBSET (1..Len(plans))
    BY <1>1
  <2> HIDE DEF before
  <2>4. before # {} => Max(before) \in 1..Len(plans)
    BY <1>1, <2>3, MaxIs
  <2>5. 1 \in 1..Len(plans)
    BY <1>1, <1>3
  <2> QED
    BY <1>3, <2>2, <2>4, <2>5
<1> QED
  BY <1>2, <1>3

Block == [chapter : Nat, tokens : Nat]

\* What is extracted: the paragraphs in the order of their chapters, and after
\* them the notes, each in a chapter when there is one.
Extracted ==
  /\ Divided(chapters)
  /\ blocks \in Seq(Block) /\ Len(blocks) = Len(book.paragraphs) + Len(book.notes)
  /\ \A i \in 1..Len(blocks) :
       IF Len(chapters) = 0 THEN blocks[i].chapter = 0 ELSE blocks[i].chapter \in 1..Len(chapters)
  /\ \A i, j \in Paragraphs : i < j => blocks[i].chapter <= blocks[j].chapter

Arranged ==
  /\ book \in Manuscripts
  /\ (chapters = <<>> /\ blocks = <<>>) \/ Extracted

LEMMA ExtractArranges ==
  ASSUME Arranged, Extract
  PROVE  Arranged'
<1> DEFINE P == Len(book.paragraphs)
           Q == Len(book.notes)
           text == [i \in Paragraphs |-> [chapter |-> Home(chapters', i), tokens |-> book.paragraphs[i].tokens]]
           notes == [n \in DOMAIN book.notes |->
                       [chapter |-> ChapterForPage(chapters', book.notes[n].page),
                        tokens |-> book.notes[n].tokens]]
<1>1. book' = book /\ book \in Manuscripts /\ Divided(chapters') /\ blocks' = text \o notes
  BY DetectedDivides DEF Arranged, Extract, Built
<1>2. /\ P \in Nat /\ Q \in Nat /\ Paragraphs = 1..P
      /\ \A i \in Paragraphs : book.paragraphs[i] \in Paragraph
      /\ book.notes \in Seq([page : Nat, tokens : Nat])
      /\ DOMAIN book.notes = 1..Q
      /\ \A n \in 1..Q : book.notes[n].page \in Nat /\ book.notes[n].tokens \in Nat
  <2>1. /\ P \in Nat /\ Paragraphs = 1..P
        /\ \A i \in Paragraphs : book.paragraphs[i] \in Paragraph
        /\ book.notes \in Seq([page : Nat, tokens : Nat])
    BY <1>1, BookIs
  <2> DEFINE Note == [page : Nat, tokens : Nat]
  <2>2. Q \in Nat /\ DOMAIN book.notes = 1..Q /\ \A n \in 1..Q : book.notes[n] \in Note
    <3>1. book.notes \in Seq(Note)
      BY <2>1
    <3> HIDE DEF Note
    <3> QED
      BY <3>1
  <2> QED
    BY <2>1, <2>2
<1>3. Len(chapters') \in Nat
  BY <1>1 DEF Divided
<1>4. ASSUME NEW i \in 1..P
      PROVE  /\ text[i] \in Block /\ text[i].chapter = Home(chapters', i)
             /\ Len(chapters') # 0 /\ text[i].chapter \in 1..Len(chapters')
  <2>1. Home(chapters', i) \in 1..Len(chapters')
    BY <1>1, <1>2, HomeIs
  <2>2. book.paragraphs[i].tokens \in Nat
    BY <1>2 DEF Paragraph
  <2> QED
    BY <1>2, <1>3, <2>1, <2>2 DEF Block
<1>5. ASSUME NEW n \in 1..Q
      PROVE  /\ notes[n] \in Block
             /\ IF Len(chapters') = 0 THEN notes[n].chapter = 0
                ELSE notes[n].chapter \in 1..Len(chapters')
  <2>1. IF Len(chapters') = 0 THEN ChapterForPage(chapters', book.notes[n].page) = 0
        ELSE ChapterForPage(chapters', book.notes[n].page) \in 1..Len(chapters')
    BY <1>1, <1>2, NoteHomeIs
  <2>2. ChapterForPage(chapters', book.notes[n].page) \in Nat
    BY <1>3, <2>1
  <2> QED
    BY <1>2, <2>1, <2>2 DEF Block
<1>6. text \in Seq(Block) /\ Len(text) = P /\ notes \in Seq(Block) /\ Len(notes) = Q
  <2>1. text = [i \in 1..P |-> text[i]] /\ notes = [n \in 1..Q |-> notes[n]]
    BY <1>2
  <2> HIDE DEF text, notes, P, Q
  <2>2. text \in [1..P -> Block]
    BY <1>4, <2>1
  <2>3. notes \in [1..Q -> Block]
    BY <1>5, <2>1
  <2> QED
    BY <1>2, <2>2, <2>3, SequenceOf
<1> HIDE DEF text, notes, P, Q
<1>7. /\ blocks' \in Seq(Block) /\ Len(blocks') = P + Q
      /\ \A i \in 1..P : blocks'[i] = text[i]
      /\ \A i \in (P + 1)..(P + Q) : blocks'[i] = notes[i - P]
  BY <1>1, <1>6, OneAfterTheOther
<1>8. ASSUME NEW i \in 1..(P + Q)
      PROVE  IF Len(chapters') = 0 THEN blocks'[i].chapter = 0
             ELSE blocks'[i].chapter \in 1..Len(chapters')
  <2>1. CASE i \in 1..P
    BY <1>4, <1>7, <2>1
  <2>2. CASE i \notin 1..P
    <3>1. i \in (P + 1)..(P + Q) /\ i - P \in 1..Q
      BY <1>2, <2>2
    <3> QED
      BY <1>5, <1>7, <3>1
  <2> QED
    BY <2>1, <2>2
<1>9. ASSUME NEW i \in Paragraphs, NEW j \in Paragraphs, i < j
      PROVE  blocks'[i].chapter <= blocks'[j].chapter
  BY <1>1, <1>2, <1>4, <1>7, <1>9, HomesAscend
<1>10. Paragraphs' = Paragraphs /\ Len(book'.paragraphs) = P /\ Len(book'.notes) = Q
  BY <1>1 DEF P, Q, Paragraphs
<1>11. Divided(chapters)'
  BY <1>1, <1>10 DEF Divided
<1> QED
  BY <1>1, <1>7, <1>8, <1>9, <1>10, <1>11 DEF Arranged, Extracted

-----------------------------------------------------------------------------
(* What the renderers take *)

\* The contents of a chapter are its blocks, in order.
LEMMA ContentsAre ==
  ASSUME blocks \in Seq(Block), NEW c
  PROVE  /\ Contents(c) \in Seq(1..Len(blocks))
         /\ \A k \in 1..Len(Contents(c)) : blocks[Contents(c)[k]].chapter = c
         /\ \A i \in 1..Len(blocks) :
              blocks[i].chapter = c => \E k \in 1..Len(Contents(c)) : Contents(c)[k] = i
         /\ \A k, l \in 1..Len(Contents(c)) : k < l <=> Contents(c)[k] < Contents(c)[l]
<1> DEFINE S == {i \in DOMAIN blocks : blocks[i].chapter = c}
           N == Cardinality(S)
           ids == InOrder(S)
<1>1. Len(blocks) \in Nat /\ DOMAIN blocks = 1..Len(blocks)
  OBVIOUS
<1>2. S \in SUBSET (1..Len(blocks)) /\ S \in SUBSET Int /\ IsFiniteSet(S)
  <2>1. IsFiniteSet(1..Len(blocks))
    BY <1>1, FS_Interval
  <2>2. S \in SUBSET (1..Len(blocks)) /\ S \in SUBSET Int
    BY <1>1
  <2> HIDE DEF S
  <2> QED
    BY <2>1, <2>2, FS_Subset
<1>3. Contents(c) = ids
  BY DEF Contents
<1>4. \A i \in 1..Len(blocks) : i \in S <=> blocks[i].chapter = c
  BY <1>1
<1> HIDE DEF S
<1>5. /\ N \in Nat /\ ids \in [1..N -> S]
      /\ \A x \in S : \E n \in 1..N : ids[n] = x
      /\ \A m, n \in 1..N : m < n <=> ids[m] < ids[n]
  BY <1>2, InOrderIs
<1> HIDE DEF ids, N
<1>6. ids \in Seq(S) /\ Len(ids) = N
  BY <1>5, SequenceOf
<1>7. ids \in [1..N -> 1..Len(blocks)]
  BY <1>2, <1>5
<1>8. ids \in Seq(1..Len(blocks))
  BY <1>5, <1>7, SequenceOf
<1> QED
  BY <1>2, <1>3, <1>4, <1>5, <1>6, <1>8

\* A list without repetitions that holds all the numbers up to n has n of them.
LEMMA ListsAll ==
  ASSUME NEW n \in Nat, NEW list \in Seq(1..n),
         \A i \in 1..n : \E k \in 1..Len(list) : list[k] = i,
         \A k, l \in 1..Len(list) : k < l => list[k] # list[l]
  PROVE  Len(list) = n
<1>1. Len(list) \in Nat /\ list \in [1..Len(list) -> 1..n]
  BY SequenceIs
<1>2. \A k, l \in 1..Len(list) : list[k] = list[l] => k = l
  <2>1. ASSUME NEW k \in 1..Len(list), NEW l \in 1..Len(list), list[k] = list[l], k # l PROVE FALSE
    <3>1. k < l \/ l < k
      BY <1>1, <2>1
    <3> QED
      BY <2>1, <3>1
  <2> QED
    BY <2>1
<1>3. list \in Injection(1..Len(list), 1..n) /\ list \in Surjection(1..Len(list), 1..n)
  BY <1>1, <1>2 DEF Injection, IsInjective, Surjection
<1>4. /\ IsFiniteSet(1..n) /\ Cardinality(1..n) = n /\ Cardinality(1..Len(list)) = Len(list)
  BY <1>1, UpTo
<1> QED
  BY <1>3, <1>4, FS_Injection

LEMMA RenderedIs ==
  ASSUME Arranged
  PROVE  RenderedOnce
<1> SUFFICES ASSUME blocks # <<>> PROVE RenderedOnce
  BY DEF RenderedOnce
<1> DEFINE B == Len(blocks)
           K == Len(chapters)
           seqs == [c \in DOMAIN chapters |-> Contents(c)]
           all == FlattenSeq(seqs)
           rest == {i \in DOMAIN blocks : i \notin ToSet(all)}
<1>1. /\ Divided(chapters) /\ blocks \in Seq(Block) /\ B \in Nat /\ DOMAIN blocks = 1..B
      /\ B = Len(book.paragraphs) + Len(book.notes)
      /\ \A i \in 1..B : IF K = 0 THEN blocks[i].chapter = 0 ELSE blocks[i].chapter \in 1..K
      /\ \A i \in 1..B : blocks[i].chapter \in Nat
  <2>1. /\ Divided(chapters) /\ blocks \in Seq(Block)
        /\ B = Len(book.paragraphs) + Len(book.notes)
        /\ \A i \in 1..B : IF K = 0 THEN blocks[i].chapter = 0 ELSE blocks[i].chapter \in 1..K
    BY DEF Arranged, Extracted
  <2>2. B \in Nat /\ DOMAIN blocks = 1..B /\ \A i \in 1..B : blocks[i] \in Block
    BY <2>1, SequenceIs
  <2>3. \A i \in 1..B : blocks[i].chapter \in Nat
    BY <2>2 DEF Block
  <2> QED
    BY <2>1, <2>2, <2>3
<1>2. K \in Nat /\ DOMAIN chapters = 1..K
  BY <1>1 DEF Divided
<1>3. seqs \in Seq(Seq(1..B)) /\ Len(seqs) = K /\ \A c \in 1..K : seqs[c] = Contents(c)
  <2>1. seqs \in [1..K -> Seq(1..B)] /\ \A c \in 1..K : seqs[c] = Contents(c)
    BY <1>1, <1>2, ContentsAre
  <2> HIDE DEF seqs, K, B
  <2> QED
    BY <1>2, <2>1, SequenceOf
<1>4. Rendered = all \o InOrder(rest)
  BY DEF Rendered
<1>12. \A c \in 1..K :
        /\ seqs[c] = Contents(c) /\ seqs[c] \in Seq(1..B)
        /\ \A k \in 1..Len(seqs[c]) : seqs[c][k] \in 1..B /\ blocks[seqs[c][k]].chapter = c
        /\ \A i \in 1..B : blocks[i].chapter = c => \E k \in 1..Len(seqs[c]) : seqs[c][k] = i
        /\ \A k, l \in 1..Len(seqs[c]) : k < l <=> seqs[c][k] < seqs[c][l]
  <2> SUFFICES ASSUME NEW c \in 1..K
               PROVE  LET s == Contents(c) IN
                      /\ s \in Seq(1..B)
                      /\ \A k \in 1..Len(s) : s[k] \in 1..B /\ blocks[s[k]].chapter = c
                      /\ \A i \in 1..B : blocks[i].chapter = c => \E k \in 1..Len(s) : s[k] = i
                      /\ \A k, l \in 1..Len(s) : k < l <=> s[k] < s[l]
    BY <1>3
  <2>1. /\ Contents(c) \in Seq(1..Len(blocks))
        /\ \A k \in 1..Len(Contents(c)) : blocks[Contents(c)[k]].chapter = c
        /\ \A i \in 1..Len(blocks) :
             blocks[i].chapter = c => \E k \in 1..Len(Contents(c)) : Contents(c)[k] = i
        /\ \A k, l \in 1..Len(Contents(c)) : k < l <=> Contents(c)[k] < Contents(c)[l]
    BY <1>1, ContentsAre
  <2>2. \A k \in 1..Len(Contents(c)) : Contents(c)[k] \in 1..Len(blocks)
    BY <2>1, SequenceIs
  <2> QED
    BY <2>1, <2>2
<1> HIDE DEF seqs, K, B
<1>5. PICK part, place : Laid(part, place, all, seqs, K)
  BY <1>3, FlattenPlaces
<1>6. all \in Seq(1..B)
  BY <1>3, FlattenPlaces
<1>7. InOrder({}) = <<>>
  BY FS_EmptySet DEF InOrder
<1> HIDE DEF all
<1>8. /\ part \in [1..Len(all) -> 1..K] /\ place \in [1..Len(all) -> Nat]
      /\ \A i \in 1..Len(all) : place[i] \in 1..Len(seqs[part[i]]) /\ all[i] = seqs[part[i]][place[i]]
      /\ \A p \in 1..K : \A k \in 1..Len(seqs[p]) : \E i \in 1..Len(all) : part[i] = p /\ place[i] = k
      /\ \A i, j \in 1..Len(all) : i < j =>
           part[i] < part[j] \/ (part[i] = part[j] /\ place[i] < place[j])
  BY <1>5 DEF Laid
<1>9. \A i \in 1..Len(all) : blocks[all[i]].chapter = part[i]
  <2> SUFFICES ASSUME NEW i \in 1..Len(all) PROVE blocks[all[i]].chapter = part[i]
    OBVIOUS
  <2>1. /\ part[i] \in 1..K /\ place[i] \in 1..Len(seqs[part[i]])
        /\ all[i] = seqs[part[i]][place[i]]
    BY <1>8
  <2>2. \A k \in 1..Len(seqs[part[i]]) : blocks[seqs[part[i]][k]].chapter = part[i]
    BY <1>12, <2>1
  <2> QED
    BY <2>1, <2>2
<1>10. CASE K # 0
  <2>1. ASSUME NEW i \in 1..B PROVE \E k \in 1..Len(all) : all[k] = i
    <3> DEFINE c == blocks[i].chapter
    <3>1. c \in 1..K
      BY <1>1, <1>10, <2>1 DEF K
    <3>2. PICK k \in 1..Len(seqs[c]) : seqs[c][k] = i
      BY <1>12, <3>1
    <3> HIDE DEF c
    <3>3. PICK n \in 1..Len(all) : part[n] = c /\ place[n] = k
      BY <1>8, <3>1, <3>2
    <3> QED
      BY <1>8, <3>2, <3>3
  <2>2. ToSet(all) = 1..B
    <3>1. DOMAIN all = 1..Len(all) /\ \A i \in 1..Len(all) : all[i] \in 1..B
      BY <1>6, SequenceIs
    <3> QED
      BY <2>1, <3>1 DEF ToSet
  <2>3. rest = {}
    BY <1>1, <2>2
  <2>4. Rendered = all
    <3>1. \A s \in Seq(1..B) : s \o <<>> = s
      OBVIOUS
    <3> QED
      BY <1>4, <1>6, <1>7, <2>3, <3>1
  <2>5. ASSUME NEW k \in 1..Len(all), NEW l \in 1..Len(all), k < l
        PROVE  all[k] # all[l] /\ part[k] <= part[l]
    <3>1. part[k] \in 1..K /\ part[l] \in 1..K
      BY <1>8
    <3>2. CASE part[k] < part[l]
      <4>1. blocks[all[k]].chapter = part[k] /\ blocks[all[l]].chapter = part[l]
        BY <1>9
      <4> QED
        BY <1>2, <3>1, <3>2, <4>1
    <3>3. CASE part[k] = part[l] /\ place[k] < place[l]
      <4> DEFINE s == seqs[part[k]]
      <4>1. all[k] = s[place[k]] /\ all[l] = s[place[l]]
            /\ place[k] \in 1..Len(s) /\ place[l] \in 1..Len(s)
        BY <1>8, <3>3
      <4>2. s[place[k]] < s[place[l]] /\ s[place[k]] \in 1..B /\ s[place[l]] \in 1..B
        BY <1>12, <3>1, <3>3, <4>1
      <4> HIDE DEF s
      <4> QED
        BY <1>1, <1>2, <3>1, <3>3, <4>1, <4>2
    <3> QED
      BY <1>8, <2>5, <3>2, <3>3
  <2>6. Len(all) = B
    BY <1>1, <1>6, <2>1, <2>5, ListsAll
  <2>7. ASSUME NEW i \in 1..Len(all) \ {1}
        PROVE  blocks[all[i - 1]].chapter <= blocks[all[i]].chapter
    <3>1. i \in 1..Len(all) /\ i # 1 /\ Len(all) \in Nat
      BY <1>6, SequenceIs
    <3>2. i - 1 \in 1..Len(all) /\ i - 1 < i
      BY <3>1
    <3> QED
      BY <1>9, <2>5, <3>1, <3>2
  <2>8. DOMAIN all = 1..Len(all)
    BY <1>6
  <2> QED
    BY <1>1, <2>2, <2>4, <2>6, <2>7, <2>8 DEF RenderedOnce
<1>11. CASE K = 0
  <2>1. all = <<>>
    <3>1. Len(all) = 0
      <4>1. Len(all) \in Nat
        BY <1>6
      <4>2. ASSUME 1 \in 1..Len(all) PROVE FALSE
        <5>1. part[1] \in 1..K
          BY <1>8, <4>2
        <5> QED
          BY <1>11, <5>1
      <4> QED
        BY <4>1, <4>2
    <3> QED
      BY <1>6, <3>1
  <2>2. rest = 1..B
    BY <1>1, <2>1 DEF ToSet
  <2> DEFINE ids == InOrder(1..B)
  <2>9. B \in Nat
    BY <1>1
  <2>3. IsFiniteSet(1..B) /\ Cardinality(1..B) = B /\ 1..B \in SUBSET Int
    <3>1. IsFiniteSet(1..B) /\ Cardinality(1..B) = B
      BY <2>9, UpTo
    <3>2. 1..B \in SUBSET Int
      BY <2>9
    <3> QED
      BY <3>1, <3>2
  <2>4. /\ ids \in [1..B -> 1..B] /\ \A x \in 1..B : \E n \in 1..B : ids[n] = x
    BY <2>3, InOrderIs
  <2> HIDE DEF ids
  <2>5. ids \in Seq(1..B) /\ Len(ids) = B /\ DOMAIN ids = 1..B
    <3> DEFINE T == 1..B
    <3>1. ids \in [1..B -> T]
      BY <2>4
    <3> HIDE DEF T
    <3>2. ids \in Seq(T) /\ Len(ids) = B /\ DOMAIN ids = 1..B
      BY <2>9, <3>1, SequenceOf
    <3> QED
      BY <3>2 DEF T
  <2>6. Rendered = ids
    <3>1. \A s \in Seq(1..B) : <<>> \o s = s
      OBVIOUS
    <3> QED
      BY <1>4, <2>1, <2>2, <2>5, <3>1 DEF ids
  <2>7. ToSet(ids) = 1..B
    BY <2>4, <2>5 DEF ToSet
  <2>8. ASSUME NEW i \in 1..B \ {1}
        PROVE  blocks[ids[i - 1]].chapter <= blocks[ids[i]].chapter
    <3>1. i \in 1..B /\ i - 1 \in 1..B
      BY <2>9
    <3>3. ids[i - 1] \in 1..B /\ ids[i] \in 1..B
      BY <2>4, <3>1
    <3>2. blocks[ids[i - 1]].chapter = 0 /\ blocks[ids[i]].chapter = 0
      BY <1>1, <1>11, <3>3
    <3> QED
      BY <3>2
  <2> QED
    BY <1>1, <2>5, <2>6, <2>7, <2>8 DEF RenderedOnce
<1> QED
  BY <1>10, <1>11

-----------------------------------------------------------------------------
(* What a selection gives the loop *)

LEMMA Selected ==
  ASSUME Arranged, NEW selected \in SUBSET (DOMAIN chapters)
  PROVE  LET T == Translatable(selected)  ids == InOrder(T)  doc == UnitsFor(selected)
         IN /\ T \in SUBSET (1..Len(blocks)) /\ IsFiniteSet(T) /\ Cardinality(T) \in Nat
            /\ ids \in [1..Cardinality(T) -> T]
            /\ \A x \in T : \E n \in 1..Cardinality(T) : ids[n] = x
            /\ \A m, n \in 1..Cardinality(T) : m < n <=> ids[m] < ids[n]
            /\ doc \in Seq(Unit) /\ Len(doc) = Cardinality(T)
            /\ \A n \in 1..Cardinality(T) :
                 /\ doc[n].block = ids[n] /\ doc[n].chapter = blocks[ids[n]].chapter
                 /\ doc[n].tokens = blocks[ids[n]].tokens
<1> DEFINE T == Translatable(selected)
           ids == InOrder(T)
           doc == UnitsFor(selected)
           N == Cardinality(T)
<1>1. Len(blocks) \in Nat /\ DOMAIN blocks = 1..Len(blocks)
      /\ \A i \in 1..Len(blocks) : blocks[i] \in Block
  <2>1. blocks = <<>> \/ blocks \in Seq(Block)
    BY DEF Arranged, Extracted
  <2>2. blocks \in Seq(Block)
    <3>1. <<>> \in Seq(Block)
      OBVIOUS
    <3> QED
      BY <2>1, <3>1, Zenon
  <2> QED
    BY <2>2, SequenceIs
<1>2. T \in SUBSET (1..Len(blocks)) /\ T \in SUBSET Int
  BY <1>1 DEF Translatable
<1>3. \A i \in T : blocks[i].chapter \in selected /\ blocks[i].tokens > 0
  BY DEF Translatable
<1>4. \A i \in T : i \in BlockIds /\ blocks[i].chapter \in ChapterIds /\ blocks[i].tokens \in Nat
  <2> SUFFICES ASSUME NEW i \in T
               PROVE  i \in BlockIds /\ blocks[i].chapter \in ChapterIds /\ blocks[i].tokens \in Nat
    OBVIOUS
  <2>1. i \in 1..Len(blocks)
    BY <1>2
  <2>2. Extracted /\ book \in Manuscripts
    BY <1>1, <2>1 DEF Arranged
  <2>3. i \in BlockIds
    BY <2>1, <2>2, BookIs DEF Extracted
  <2>4. blocks[i].tokens \in Nat
    BY <1>1, <2>1 DEF Block
  <2> DEFINE c == blocks[i].chapter
  <2>5. c \in DOMAIN chapters
    BY <1>3
  <2> HIDE DEF c
  <2>6. c \in 1..Len(chapters) /\ Len(chapters) \in Nat
    BY <2>2, <2>5 DEF Extracted, Divided
  <2>7. c <= chapters[c].start /\ chapters[c].start <= Len(book.paragraphs) /\ chapters[c].start \in Nat
    BY <2>2, <2>6 DEF Extracted, Divided, Plans
  <2>8. c \in Paragraphs /\ \A p \in Paragraphs : p \in ChapterIds
    BY <2>2, <2>6, <2>7, BookIs
  <2> QED
    BY <2>3, <2>4, <2>8 DEF c
<1>5. doc = [n \in DOMAIN ids |-> [chapter |-> blocks[ids[n]].chapter,
                                  tokens |-> blocks[ids[n]].tokens, block |-> ids[n]]]
  BY DEF UnitsFor
<1> HIDE DEF T
<1>6. IsFiniteSet(T)
  <2>1. IsFiniteSet(1..Len(blocks))
    BY <1>1, UpTo
  <2> QED
    BY <1>2, <2>1, FS_Subset
<1>7. /\ N \in Nat /\ ids \in [1..N -> T]
      /\ \A x \in T : \E n \in 1..N : ids[n] = x
      /\ \A m, n \in 1..N : m < n <=> ids[m] < ids[n]
  BY <1>2, <1>6, InOrderIs
<1> HIDE DEF ids, N, doc
<1>8. \A n \in 1..N :
        /\ doc[n].block = ids[n] /\ doc[n].chapter = blocks[ids[n]].chapter
        /\ doc[n].tokens = blocks[ids[n]].tokens
        /\ doc[n] \in Unit
  BY <1>4, <1>5, <1>7 DEF Unit
<1>9. doc \in [1..N -> Unit]
  <2>1. doc = [n \in 1..N |-> doc[n]]
    BY <1>5, <1>7
  <2> QED
    BY <1>8, <2>1
<1>10. doc \in Seq(Unit) /\ Len(doc) = N
  BY <1>7, <1>9, SequenceOf
<1> QED
  BY <1>2, <1>6, <1>7, <1>8, <1>10 DEF T, ids, N, doc

\* What is grouped is what was selected of what was extracted.
Placed ==
  /\ Arranged
  /\ wanted \subseteq DOMAIN chapters
  /\ IF wanted = {} THEN NoUnits /\ earlier = {} ELSE units = UnitsFor(wanted)

LEMMA PlacedInit ==
  ASSUME Init
  PROVE  Placed
BY DEF Init, Placed, Arranged

\* With chapters there are blocks.
LEMMA ChaptersHaveBlocks ==
  ASSUME Arranged, NEW c \in DOMAIN chapters
  PROVE  blocks # <<>> /\ Extracted
<1>1. Extracted /\ book \in Manuscripts
  BY DEF Arranged
<1>2. c \in 1..Len(chapters)
  BY <1>1 DEF Extracted, Divided
<1>3. c <= chapters[c].start /\ chapters[c].start <= Len(book.paragraphs) /\ chapters[c].start \in Nat
  BY <1>1, <1>2 DEF Extracted, Divided, Plans
<1>4. Len(book.paragraphs) \in Nat /\ Len(book.notes) \in Nat
  <2>1. Len(book.paragraphs) \in Nat /\ book.notes \in Seq([page : Nat, tokens : Nat])
    BY <1>1, BookIs
  <2> QED
    BY <2>1, SequenceIs
<1>5. 1 <= Len(blocks)
  <2>1. 1 <= c /\ c \in Nat
    BY <1>1, <1>2 DEF Divided, Extracted
  <2>2. Len(blocks) = Len(book.paragraphs) + Len(book.notes)
    BY <1>1 DEF Extracted
  <2> DEFINE p == Len(book.paragraphs)
             q == Len(book.notes)
             s == chapters[c].start
  <2>3. c <= s /\ s <= p /\ s \in Nat /\ p \in Nat /\ q \in Nat /\ Len(blocks) = p + q
    BY <1>3, <1>4, <2>2
  <2> HIDE DEF p, q, s
  <2> QED
    BY <2>1, <2>3
<1> QED
  BY <1>1, <1>5

LEMMA PlacedExtract ==
  ASSUME Placed, Extract
  PROVE  Placed' /\ UNCHANGED vars
<1>1. wanted = {}
  BY ChaptersHaveBlocks DEF Placed, Extract
<1>2. Arranged'
  BY ExtractArranges DEF Placed
<1>3. UNCHANGED <<vars, wanted, earlier>>
  BY DEF Extract
<1>4. NoUnits'
  BY <1>1, <1>3 DEF Placed, NoUnits, vars, loop
<1> QED
  BY <1>1, <1>2, <1>3, <1>4 DEF Placed

\* A document keeps its chapters and blocks.
LEMMA DocumentKept ==
  ASSUME UNCHANGED document
  PROVE  /\ Arranged' <=> Arranged
         /\ \A selected : UnitsFor(selected)' = UnitsFor(selected)
         /\ \A selected : Translatable(selected)' = Translatable(selected)
<1>1. UNCHANGED <<book, chapters, blocks>>
  BY DEF document
<1> QED
  BY <1>1 DEF Arranged, Extracted, Divided, Paragraphs, UnitsFor, Translatable

LEMMA PlacedSelect ==
  ASSUME Placed, NEW numbers, Select(numbers)
  PROVE  Placed' /\ Regroup
<1>1. /\ Matching(numbers) # {} /\ wanted' = Matching(numbers) /\ Begin(UnitsFor(wanted'))
      /\ UNCHANGED document /\ Grouped
  BY DEF Select
<1>2. wanted' \in SUBSET (DOMAIN chapters) /\ wanted' # {}
  BY <1>1 DEF Matching
<1>3. UnitsFor(wanted') \in Seq(Unit)
  BY <1>2, Selected DEF Placed
<1>4. Regroup
  BY <1>1, <1>3 DEF Regroup
<1>5. UNCHANGED <<book, chapters, blocks>>
  BY <1>1 DEF document
<1>6. Arranged' /\ units' = UnitsFor(wanted)'
  <2>1. Arranged'
    BY <1>1, DocumentKept DEF Placed
  <2>2. units' = UnitsFor(wanted')
    BY <1>1 DEF Begin
  <2>3. UnitsFor(wanted)' = UnitsFor(wanted')
    BY <1>5 DEF UnitsFor, Translatable
  <2> QED
    BY <2>1, <2>2, <2>3
<1> QED
  BY <1>2, <1>4, <1>5, <1>6 DEF Placed

LEMMA PlacedGroup ==
  ASSUME Placed, GroupUnits
  PROVE  Placed' /\ Group
<1>1. Group /\ UNCHANGED <<document, wanted, earlier>>
  BY DEF GroupUnits
<1>2. UNCHANGED units
  BY <1>1 DEF Group, TakeOversized, OpenBatch, Join, Finish
<1>3. wanted # {}
  <2> SUFFICES ASSUME wanted = {} PROVE FALSE
    OBVIOUS
  <2>1. units = <<>> /\ position = 1 /\ open = 0
    BY DEF Placed, NoUnits
  <2>2. ~AtUnit
    BY <2>1 DEF AtUnit
  <2> QED
    BY <1>1, <2>1, <2>2 DEF Group, TakeOversized, OpenBatch, Join, Finish
<1>4. Arranged' /\ UnitsFor(wanted)' = UnitsFor(wanted)
  <2>1. UNCHANGED <<book, chapters, blocks, wanted>>
    BY <1>1 DEF document
  <2>2. UnitsFor(wanted)' = UnitsFor(wanted)
    BY <2>1 DEF UnitsFor, Translatable
  <2> QED
    BY <1>1, <2>2, DocumentKept DEF Placed
<1>5. UNCHANGED <<chapters, wanted, earlier>>
  BY <1>1 DEF document
<1> QED
  BY <1>1, <1>2, <1>3, <1>4, <1>5 DEF Placed

LEMMA PlacedStutter ==
  ASSUME Placed, UNCHANGED bookVars
  PROVE  Placed' /\ UNCHANGED vars
<1>1. UNCHANGED <<vars, document, wanted, earlier>>
  BY DEF bookVars
<1>2. UNCHANGED <<book, chapters, blocks, wanted, earlier, units, position, open, batches>>
  BY <1>1 DEF document, vars, loop
<1> QED
  BY <1>1, <1>2, DocumentKept DEF Placed, NoUnits, UnitsFor, Translatable

LEMMA PlacedSteps ==
  ASSUME Placed, [Next]_bookVars
  PROVE  Placed' /\ [Group \/ Regroup]_vars
BY PlacedExtract, PlacedSelect, PlacedGroup, PlacedStutter DEF Next

\* What is extracted, selected and grouped belongs together, for every
\* manuscript and every selection.
THEOREM BooksArePlaced == Spec => []Placed
<1>1. Init => Placed
  BY PlacedInit
<1>2. Placed /\ [Next]_bookVars => Placed'
  BY PlacedSteps
<1> QED
  BY <1>1, <1>2, PTL DEF Spec

\* The loop groups the documents that selections make of a book, one after the
\* other: all that is said of its batches holds of the batches of books.
THEOREM BooksAreGrouped == Spec => GroupingSpec
<1>1. Init => NoUnits
  BY DEF Init
<1>2. Placed /\ [Next]_bookVars => [Group \/ Regroup]_vars
  BY PlacedSteps
<1> QED
  BY <1>1, <1>2, BooksArePlaced, PTL DEF Spec, GroupingSpec

\* Every paragraph and every note of every book reaches the renderers once, and
\* the chapters come out in order.
THEOREM BooksAreRenderedOnce == Spec => []RenderedOnce
<1>1. Placed => RenderedOnce
  BY RenderedIs DEF Placed
<1> QED
  BY <1>1, BooksArePlaced, PTL

\* The batches of every selection of every book tile what was selected, none
\* crosses a chapter, none is over the limits and none is wasted.
THEOREM BooksAreBatched == Spec => [](BatchesTile /\ OneChapter /\ WithinLimits /\ NoneWasted)
BY BooksAreGrouped, UnitsAreTiled, BatchesKeepToChapters, BatchesStayWithinLimits, NoBatchIsWasted, PTL

-----------------------------------------------------------------------------
(* Batches told by their first block *)

\* The blocks of a set from one to another
Piece(T, s, e) == {i \in T : s <= i /\ i <= e}

\* What the blocks of a book cost, tags included, up to each of them
StepCost(i) == IF blocks[i].tokens > 0 THEN blocks[i].tokens + TagTokens ELSE 0
Tally == CHOOSE sum : Sums(sum, [i \in 1..Len(blocks) |-> StepCost(i)], Len(blocks))

Fits(T, s, e) ==
  Tally[e] - Tally[s - 1] <= Budget /\ Cardinality(Piece(T, s, e)) <= MaxSegments

\* The pieces of sent are the blocks of T, each once, a piece goes no further
\* than fits and no piece could go further.
CutInto(T, sent) ==
  /\ \A b \in sent : \E s, e \in T :
       /\ s <= e /\ b = Piece(T, s, e) /\ blocks[s].chapter = blocks[e].chapter
       /\ s = e \/ Fits(T, s, e)
       /\ \A x \in T : e < x /\ blocks[x].chapter = blocks[s].chapter => ~Fits(T, s, x)
  /\ \A i \in T : \E b \in sent : i \in b
  /\ \A b, d \in sent : (\E i : i \in b /\ i \in d) => b = d

\* The blocks are in the order of their chapters.
Ordered == \A i, j \in 1..Len(blocks) : i < j => blocks[i].chapter <= blocks[j].chapter

LEMMA WithoutNotes ==
  ASSUME Arranged, book.notes = <<>>
  PROVE  /\ Ordered /\ Len(blocks) \in Nat /\ DOMAIN blocks = 1..Len(blocks)
         /\ \A i \in 1..Len(blocks) : blocks[i].chapter \in Nat /\ blocks[i].tokens \in Nat
<1>1. CASE blocks = <<>>
  BY <1>1 DEF Ordered
<1>2. CASE blocks # <<>>
  <2>1. Extracted /\ book \in Manuscripts
    BY <1>2 DEF Arranged
  <2>2. Len(book.paragraphs) \in Nat /\ Paragraphs = 1..Len(book.paragraphs)
    BY <2>1, BookIs
  <2>3. Len(book.notes) = 0
    OBVIOUS
  <2> DEFINE p == Len(book.paragraphs)
  <2>4. Len(blocks) = p
    <3>1. Len(blocks) = p + 0 /\ p \in Nat
      BY <2>1, <2>2, <2>3 DEF Extracted
    <3> HIDE DEF p
    <3> QED
      BY <3>1
  <2>5. blocks \in Seq(Block)
    BY <2>1 DEF Extracted
  <2>6. DOMAIN blocks = 1..Len(blocks) /\ \A i \in 1..Len(blocks) : blocks[i] \in Block
    BY <2>5, SequenceIs
  <2>7. Paragraphs = 1..Len(blocks) /\ Len(blocks) \in Nat
    BY <2>2, <2>4
  <2> HIDE DEF p
  <2>8. Ordered
    BY <2>1, <2>7 DEF Extracted, Ordered
  <2>9. \A i \in 1..Len(blocks) : blocks[i].chapter \in Nat /\ blocks[i].tokens \in Nat
    BY <2>6 DEF Block
  <2> QED
    BY <2>6, <2>7, <2>8, <2>9
<1> QED
  BY <1>1, <1>2

\* The numbers that an operator of this section needs of a book without notes
LEMMA TallyIs ==
  ASSUME Arranged, book.notes = <<>>
  PROVE  /\ \A k \in 0..Len(blocks) : Tally[k] \in Nat
         /\ \A k \in 1..Len(blocks) : Tally[k] = Tally[k - 1] + StepCost(k)
         /\ \A k \in 1..Len(blocks) : StepCost(k) \in Nat
         /\ \A i, j \in 0..Len(blocks) : i <= j => Tally[i] <= Tally[j]
         /\ \A i, j \in 0..Len(blocks) :
              i <= j /\ (\A k \in (i + 1)..j : blocks[k].tokens = 0) => Tally[i] = Tally[j]
<1> DEFINE n == Len(blocks)
           step == [i \in 1..n |-> StepCost(i)]
<1>1. n \in Nat /\ \A i \in 1..n : blocks[i].tokens \in Nat
  BY WithoutNotes
<1>2. \A i \in 1..n : StepCost(i) \in Nat /\ (blocks[i].tokens = 0 => StepCost(i) = 0)
  BY <1>1, SegmentationAssumption DEF StepCost, SegmentationAssumption
<1>3. Tally = CHOOSE sum : Sums(sum, step, n)
  BY DEF Tally
<1>4. step \in [1..n -> Nat] /\ \A i \in 1..n : step[i] = StepCost(i)
  BY <1>2
<1> HIDE DEF n, step
<1>5. Sums(Tally, step, n)
  BY <1>1, <1>3, SumsExist
<1>6. /\ \A k \in 0..n : Tally[k] \in Nat
      /\ \A k \in 1..n : Tally[k] = Tally[k - 1] + step[k]
      /\ \A i, j \in 0..n : i <= j => Tally[i] <= Tally[j]
      /\ \A i, j \in 0..n : i <= j /\ (\A k \in (i + 1)..j : step[k] = 0) => Tally[i] = Tally[j]
  <2>1. n \in Nat /\ step \in [1..n -> Nat] /\ Sums(Tally, step, n)
    BY <1>1, <1>4, <1>5
  <2>2. Growing(Tally, step, n)
    BY <2>1, SumsGrow
  <2> QED
    BY <2>2 DEF Growing
<1>7. ASSUME NEW i \in 0..n, NEW j \in 0..n, i <= j, \A k \in (i + 1)..j : blocks[k].tokens = 0
      PROVE  Tally[i] = Tally[j]
  <2>1. \A k \in (i + 1)..j : k \in 1..n
    BY <1>1
  <2>2. \A k \in (i + 1)..j : step[k] = 0
    BY <1>2, <1>4, <1>7, <2>1
  <2> QED
    BY <1>6, <1>7, <2>2
<1> QED
  BY <1>2, <1>4, <1>6, <1>7 DEF n

\* Two selections cut a chapter they share alike: a piece of the one is a piece
\* of the other.  The first piece that is not would begin inside a piece of the
\* other, whose first block begins a piece of both.
LEMMA PieceSurvives ==
  ASSUME Arranged, book.notes = <<>>, NEW W, NEW V,
         NEW sent, CutInto(Translatable(W), sent),
         NEW given, CutInto(Translatable(V), given),
         NEW b \in sent, \A i \in b : blocks[i].chapter \in V
  PROVE  b \in given
<1> DEFINE T == Translatable(W)
           U == Translatable(V)
           B == 1..Len(blocks)
           ch(i) == blocks[i].chapter
           starts(d, s) == \E e \in T :
             /\ s <= e /\ d = Piece(T, s, e) /\ ch(s) = ch(e) /\ (s = e \/ Fits(T, s, e))
             /\ \A x \in T : e < x /\ ch(x) = ch(s) => ~Fits(T, s, x)
           Bad == {s \in B : s \in T /\ ch(s) \in V /\ \E d \in sent : starts(d, s) /\ d \notin given}
<1>1. /\ Len(blocks) \in Nat /\ DOMAIN blocks = B
      /\ \A i \in B : ch(i) \in Nat /\ blocks[i].tokens \in Nat
      /\ \A i, j \in B : i < j => ch(i) <= ch(j)
  BY WithoutNotes DEF Ordered
<1>2. /\ \A i : i \in T <=> i \in B /\ blocks[i].tokens > 0 /\ ch(i) \in W
      /\ \A i : i \in U <=> i \in B /\ blocks[i].tokens > 0 /\ ch(i) \in V
  BY <1>1 DEF Translatable
<1>3. /\ \A d \in sent : \E s \in T : starts(d, s)
      /\ \A i \in T : \E d \in sent : i \in d
      /\ \A d, f \in sent : (\E i : i \in d /\ i \in f) => d = f
  BY DEF CutInto
<1>4. /\ \A d \in given : \E s, e \in U :
           /\ s <= e /\ d = Piece(U, s, e) /\ ch(s) = ch(e)
           /\ s = e \/ Fits(U, s, e)
           /\ \A x \in U : e < x /\ ch(x) = ch(s) => ~Fits(U, s, x)
      /\ \A i \in U : \E d \in given : i \in d
  BY DEF CutInto
<1> HIDE DEF T, U
<1>5. \A s, x \in B : ch(s) = ch(x) /\ ch(s) \in V /\ ch(s) \in W => Piece(T, s, x) = Piece(U, s, x)
  <2>1. ASSUME NEW s \in B, NEW x \in B, ch(s) = ch(x), ch(s) \in V, ch(s) \in W,
               NEW i \in B, s <= i, i <= x
        PROVE  ch(i) = ch(s)
    <3>1. s \in Nat /\ x \in Nat /\ i \in Nat
      BY <1>1
    <3>2. s = i \/ s < i
      BY <2>1, <3>1
    <3>3. x = i \/ i < x
      BY <2>1, <3>1
    <3>4. ch(s) <= ch(i) \/ s = i
      BY <1>1, <3>2
    <3>5. ch(i) <= ch(x) \/ x = i
      BY <1>1, <3>3
    <3>6. ch(s) \in Nat /\ ch(i) \in Nat /\ ch(x) \in Nat
      BY <1>1
    <3> HIDE DEF ch
    <3> QED
      BY <2>1, <3>4, <3>5, <3>6
  <2> HIDE DEF ch, B
  <2> QED
    BY <1>2, <2>1 DEF Piece
<1>6. ASSUME Bad # {} PROVE FALSE
  <2>1. PICK s \in Bad : \A r \in Bad : s <= r
    <3>1. Bad \in SUBSET Nat
      BY <1>1
    <3> HIDE DEF Bad
    <3> QED
      BY <1>6, <3>1, LeastNumber
  <2>2. PICK d \in sent : starts(d, s) /\ d \notin given
    BY <2>1
  <2>3. s \in B /\ s \in T /\ ch(s) \in V /\ ch(s) \in W /\ s \in U
    BY <1>2, <2>1
  <2>4. PICK e \in T : /\ s <= e /\ d = Piece(T, s, e) /\ ch(s) = ch(e) /\ (s = e \/ Fits(T, s, e))
                       /\ \A x \in T : e < x /\ ch(x) = ch(s) => ~Fits(T, s, x)
    BY <2>2
  <2>5. PICK g \in given : s \in g
    BY <1>4, <2>3
  <2>6. PICK r \in U, f \in U : /\ r <= f /\ g = Piece(U, r, f) /\ ch(r) = ch(f)
                                /\ r = f \/ Fits(U, r, f)
                                /\ \A x \in U : f < x /\ ch(x) = ch(r) => ~Fits(U, r, x)
    BY <1>4, <2>5
  <2>7. r <= s /\ s <= f /\ r \in B /\ f \in B /\ e \in B
    BY <1>2, <2>4, <2>5, <2>6 DEF Piece
  <2>8. s \in Nat /\ e \in Nat /\ r \in Nat /\ f \in Nat
    BY <1>1, <2>3, <2>7
  <2>9. ch(s) = ch(r) /\ ch(s) = ch(f)
    <3>1. r = s \/ ch(r) <= ch(s)
      BY <1>1, <2>3, <2>7, <2>8
    <3>2. f = s \/ ch(s) <= ch(f)
      BY <1>1, <2>3, <2>7, <2>8
    <3>3. ch(s) \in Nat /\ ch(r) \in Nat /\ ch(f) \in Nat
      BY <1>1, <2>3, <2>7
    <3> HIDE DEF ch
    <3> QED
      BY <2>6, <3>1, <3>2, <3>3
  <2>10. r \in T /\ f \in T /\ e \in U
    BY <1>2, <2>3, <2>4, <2>6, <2>9
  <2>11. r = s
    <3> SUFFICES ASSUME r # s PROVE FALSE
      OBVIOUS
    <3>1. r < s
      BY <2>7, <2>8
    <3>2. PICK h \in sent : r \in h
      BY <1>3, <2>10
    <3>3. PICK q \in T : starts(h, q)
      BY <1>3, <3>2
    <3>4. PICK z \in T : q <= z /\ h = Piece(T, q, z) /\ ch(q) = ch(z)
      BY <3>3
    <3>5. q <= r /\ r <= z /\ q \in B /\ z \in B
      BY <1>2, <3>2, <3>4 DEF Piece
    <3>6. q \in Nat /\ z \in Nat
      BY <1>1, <3>5
    <3>7. ch(q) = ch(r)
      <4>1. q = r \/ ch(q) <= ch(r)
        BY <1>1, <2>7, <2>8, <3>5, <3>6
      <4>2. z = r \/ ch(r) <= ch(z)
        BY <1>1, <2>7, <2>8, <3>5, <3>6
      <4>3. ch(q) \in Nat /\ ch(r) \in Nat /\ ch(z) \in Nat
        BY <1>1, <2>7, <3>5
      <4> HIDE DEF ch
      <4> QED
        BY <3>4, <4>1, <4>2, <4>3
    <3>8. q < s
      BY <2>8, <3>1, <3>5, <3>6
    <3>9. q \notin Bad
      BY <2>1, <2>8, <3>6, <3>8
    <3>10. h \in given
      BY <2>3, <2>9, <3>2, <3>3, <3>5, <3>7, <3>9
    <3>11. h = g
      <4>1. \A i, j \in given : (\E x : x \in i /\ x \in j) => i = j
        BY DEF CutInto
      <4>2. r \in g
        BY <2>6, <2>8 DEF Piece
      <4> QED
        BY <2>5, <3>2, <3>10, <4>1, <4>2
    <3>12. s \in d
      BY <2>3, <2>4, <2>8 DEF Piece
    <3>13. h = d
      BY <1>3, <2>2, <2>5, <3>2, <3>11, <3>12
    <3> QED
      BY <2>2, <3>10, <3>13
  <2>12. \A x \in B : ch(x) = ch(s) => (Fits(T, s, x) <=> Fits(U, s, x))
    <3>1. \A x \in B : ch(x) = ch(s) => Piece(T, s, x) = Piece(U, s, x)
      BY <1>5, <2>3
    <3> QED
      BY <3>1 DEF Fits
  <2>13. e = f
    <3>1. ASSUME e < f PROVE FALSE
      <4>1. ~Fits(T, s, f)
        BY <2>4, <2>9, <2>10, <3>1
      <4>2. Fits(U, s, f)
        BY <2>4, <2>6, <2>8, <2>11, <3>1
      <4> QED
        BY <2>7, <2>9, <2>12, <4>1, <4>2
    <3>2. ASSUME f < e PROVE FALSE
      <4>1. ~Fits(U, s, e)
        BY <2>4, <2>6, <2>10, <2>11, <3>2
      <4>2. Fits(T, s, e)
        BY <2>4, <2>7, <2>8, <3>2
      <4> QED
        BY <2>4, <2>7, <2>12, <4>1, <4>2
    <3> QED
      BY <2>8, <3>1, <3>2
  <2>14. d = g
    BY <1>5, <2>3, <2>4, <2>6, <2>7, <2>11, <2>13
  <2> QED
    BY <2>2, <2>5, <2>14
<1>7. PICK s \in T : starts(b, s)
  BY <1>3
<1>8. s \in b /\ s \in B
  <2>1. s \in B /\ s \in Nat
    BY <1>1, <1>2
  <2> QED
    BY <1>7, <2>1 DEF Piece
<1> QED
  BY <1>6, <1>7, <1>8

-----------------------------------------------------------------------------
(* The batches of a selection cut it *)

\* Batches that tile the units before end follow one another and hold them all.
LEMMA TilingCovers ==
  ASSUME NEW seq \in Seq(BatchType), NEW end \in Nat, TiledTo(seq, end)
  PROVE  /\ \A i, j \in DOMAIN seq : i < j => seq[i].last < seq[j].first
         /\ \A i \in DOMAIN seq : /\ 1 <= seq[i].first /\ seq[i].first <= seq[i].last
                                  /\ seq[i].last < end
                                  /\ i < Len(seq) => seq[i + 1].first = seq[i].last + 1
                                  /\ i = Len(seq) => end = seq[i].last + 1
         /\ \A n \in 1..(end - 1) : \E i \in DOMAIN seq : seq[i].first <= n /\ n <= seq[i].last
<1>1. Len(seq) \in Nat /\ DOMAIN seq = 1..Len(seq) /\ \A i \in 1..Len(seq) : seq[i] \in BatchType
  BY SequenceIs
<1>2. /\ \A i \in 1..Len(seq) :
           /\ seq[i].first \in Nat /\ seq[i].last \in Nat /\ 1 <= seq[i].first
           /\ seq[i].first <= seq[i].last
      /\ \A i \in 1..Len(seq) : i # 1 => i - 1 \in 1..Len(seq) /\ seq[i].first = seq[i - 1].last + 1
      /\ 1 \in 1..Len(seq) => seq[1].first = 1
      /\ Len(seq) # 0 => end = seq[Len(seq)].last + 1 /\ Len(seq) \in 1..Len(seq)
      /\ Len(seq) = 0 => end = 1
  <2>1. \A i \in 1..Len(seq) : seq[i].first \in Nat /\ seq[i].last \in Nat /\ 1 <= seq[i].first
    BY <1>1 DEF BatchType
  <2>2. \A i \in 1..Len(seq) : i # 1 => i - 1 \in 1..Len(seq)
    BY <1>1
  <2>3. seq = <<>> <=> Len(seq) = 0
    OBVIOUS
  <2>4. /\ \A i \in 1..Len(seq) :
             /\ seq[i].first <= seq[i].last
             /\ seq[i].first = IF i = 1 THEN 1 ELSE seq[i - 1].last + 1
        /\ end = IF Len(seq) = 0 THEN 1 ELSE seq[Len(seq)].last + 1
    BY <1>1, <2>3 DEF TiledTo
  <2>5. Len(seq) # 0 => Len(seq) \in 1..Len(seq)
    BY <1>1
  <2>6. \A i \in 1..Len(seq) : i # 1 => seq[i].first = seq[i - 1].last + 1
    BY <2>4
  <2>7. 1 \in 1..Len(seq) => seq[1].first = 1
    BY <2>4
  <2> QED
    BY <2>1, <2>2, <2>4, <2>5, <2>6, <2>7
<1>3. ASSUME NEW i \in 1..Len(seq), NEW j \in 1..Len(seq), i < j
      PROVE  seq[i].last < seq[j].first
  <2> DEFINE Bad == {k \in 1..Len(seq) : i < k /\ ~(seq[i].last < seq[k].first)}
  <2>1. ASSUME Bad # {} PROVE FALSE
    <3>1. PICK k \in Bad : \A l \in Bad : k <= l
      <4>1. Bad \in SUBSET Nat
        OBVIOUS
      <4> HIDE DEF Bad
      <4> QED
        BY <2>1, <4>1, LeastNumber
    <3>2. k \in 1..Len(seq) /\ i < k /\ k # 1 /\ k - 1 \in 1..Len(seq) /\ ~(k <= k - 1)
      BY <1>1, <1>2, <3>1
    <3>3. seq[k].first = seq[k - 1].last + 1 /\ seq[k - 1].first <= seq[k - 1].last
          /\ seq[k - 1].first \in Nat /\ seq[k - 1].last \in Nat /\ seq[i].last \in Nat
      BY <1>2, <3>2
    <3>4. i = k - 1 \/ i < k - 1
      BY <3>2
    <3>5. i < k - 1 => seq[i].last < seq[k - 1].first
      BY <3>1, <3>2
    <3> QED
      BY <3>1, <3>3, <3>4, <3>5
  <2> QED
    BY <1>3, <2>1
<1>4. ASSUME NEW i \in 1..Len(seq)
      PROVE  /\ seq[i].last < end
             /\ i < Len(seq) => seq[i + 1].first = seq[i].last + 1
             /\ i = Len(seq) => end = seq[i].last + 1
  <2>1. Len(seq) # 0 /\ Len(seq) \in 1..Len(seq) /\ (i = Len(seq) \/ i < Len(seq))
    <3>1. \A n \in Nat : \A k \in 1..n : n # 0 /\ n \in 1..n /\ (k = n \/ k < n)
      OBVIOUS
    <3> QED
      BY <1>1, <3>1
  <2>2. i < Len(seq) => i + 1 \in 1..Len(seq) /\ i + 1 # 1 /\ (i + 1) - 1 = i
    BY <1>1
  <2>3. i < Len(seq) => seq[i].last < seq[Len(seq)].first
    BY <1>3, <2>1
  <2>4. /\ seq[i].last \in Nat /\ seq[Len(seq)].last \in Nat /\ seq[Len(seq)].first \in Nat
        /\ seq[Len(seq)].first <= seq[Len(seq)].last /\ end = seq[Len(seq)].last + 1
    BY <1>2, <2>1
  <2>5. i < Len(seq) => seq[i + 1].first = seq[i].last + 1
    BY <1>2, <2>2
  <2> QED
    BY <2>1, <2>3, <2>4, <2>5
<1>5. ASSUME NEW n \in 1..(end - 1)
      PROVE  \E i \in 1..Len(seq) : seq[i].first <= n /\ n <= seq[i].last
  <2> DEFINE reach == {i \in 1..Len(seq) : n <= seq[i].last}
  <2>1. reach # {} /\ reach \in SUBSET Nat
    <3>1. Len(seq) # 0
      BY <1>2
    <3>2. Len(seq) \in reach
      BY <1>2, <3>1
    <3> QED
      BY <3>2
  <2>2. PICK i \in reach : \A j \in reach : i <= j
    <3> HIDE DEF reach
    <3> QED
      BY <2>1, LeastNumber
  <2>3. i \in 1..Len(seq) /\ n <= seq[i].last
    BY <2>2
  <2>4. seq[i].first <= n
    <3>1. CASE i = 1
      BY <1>2, <2>3, <3>1
    <3>2. CASE i # 1
      <4>1. i - 1 \in 1..Len(seq) /\ ~(i <= i - 1) /\ seq[i].first = seq[i - 1].last + 1
        BY <1>2, <2>3, <3>2
      <4>2. ~(n <= seq[i - 1].last) /\ seq[i - 1].last \in Nat
        BY <1>2, <2>2, <4>1
      <4> QED
        BY <4>1, <4>2
    <3> QED
      BY <3>1, <3>2
  <2> QED
    BY <2>3, <2>4
<1> QED
  BY <1>1, <1>2, <1>3, <1>4, <1>5

\* A batch is marked as oversized only for the block that makes it so.
Flagged == \A i \in DOMAIN batches : batches[i].oversized => IsOversized(units[batches[i].first])

FlaggedIn(seq) == \A i \in DOMAIN seq : seq[i].oversized => IsOversized(units[seq[i].first])

LEMMA ClosedFlagged ==
  ASSUME Inv, Flagged
  PROVE  FlaggedIn(Closed)
<1>1. CASE open = 0
  BY <1>1 DEF Flagged, FlaggedIn, Closed
<1>2. CASE open # 0
  <2> DEFINE b == Batch(open, position - 1, FALSE)
  <2>1. b \in BatchType /\ ~b.oversized
    BY <1>2, LoopFacts DEF Batch, BatchType
  <2>2. Closed = Append(batches, b)
    BY <1>2 DEF Closed
  <2> HIDE DEF b
  <2>3. /\ DOMAIN Closed = 1..(Len(batches) + 1) /\ Closed[Len(batches) + 1] = b
        /\ \A i \in DOMAIN batches : Closed[i] = batches[i]
        /\ DOMAIN batches = 1..Len(batches) /\ Len(batches) \in Nat
    BY <2>1, <2>2, AppendFacts, LoopFacts, SequenceIs
  <2>4. \A i \in DOMAIN Closed : i \in DOMAIN batches \/ i = Len(batches) + 1
    BY <2>3
  <2> QED
    BY <2>1, <2>3, <2>4 DEF Flagged, FlaggedIn
<1> QED
  BY <1>1, <1>2

LEMMA FlaggedTakeOversized ==
  ASSUME Inv, Flagged, TakeOversized
  PROVE  Flagged'
<1> DEFINE b == Batch(position, position, TRUE)
<1>1. b \in BatchType /\ b.first = position
  BY LoopFacts DEF Batch, BatchType
<1>2. batches' = Append(Closed, b) /\ UNCHANGED units /\ IsOversized(units[position])
  BY DEF TakeOversized
<1> HIDE DEF b
<1>3. Closed \in Seq(BatchType) /\ FlaggedIn(Closed)
  BY ClosedTiles, ClosedFlagged
<1>4. /\ DOMAIN batches' = 1..(Len(Closed) + 1) /\ batches'[Len(Closed) + 1] = b
      /\ \A i \in DOMAIN Closed : batches'[i] = Closed[i]
      /\ DOMAIN Closed = 1..Len(Closed) /\ Len(Closed) \in Nat
  BY <1>1, <1>2, <1>3, AppendFacts, SequenceIs
<1>5. \A i \in DOMAIN batches' : i \in DOMAIN Closed \/ i = Len(Closed) + 1
  BY <1>4
<1> QED
  BY <1>1, <1>2, <1>3, <1>4, <1>5 DEF Flagged, FlaggedIn, IsOversized

\* No batch is marked as oversized whose first block is within the budget, so that
\* what made build_batches close the batch before it can be told from the batch.
THEOREM BatchesAreFlagged == GroupingSpec => []Flagged
<1>1. NoUnits => Flagged
  BY DEF NoUnits, Flagged
<1>2. Flagged /\ Regroup => Flagged'
  BY DEF Regroup, Begin, Flagged
<1>3. Inv /\ Flagged /\ (OpenBatch \/ Finish) => Flagged'
  BY ClosedFlagged DEF OpenBatch, Finish, Flagged, FlaggedIn
<1>4. Flagged /\ (Join \/ UNCHANGED vars) => Flagged'
  BY DEF Join, vars, loop, Flagged
<1>5. Inv /\ Flagged /\ [Group \/ Regroup]_vars => Flagged'
  BY <1>2, <1>3, <1>4, FlaggedTakeOversized DEF Group
<1> QED
  BY <1>1, <1>5, GroupingInvariant, PTL DEF GroupingSpec

\* The blocks of the units from m to n
LEMMA PieceIs ==
  ASSUME Arranged, NEW selected \in SUBSET (DOMAIN chapters),
         NEW m \in 1..Cardinality(Translatable(selected)),
         NEW n \in 1..Cardinality(Translatable(selected)), m <= n
  PROVE  LET ids == InOrder(Translatable(selected))
             piece == Piece(Translatable(selected), ids[m], ids[n])
         IN piece = {ids[k] : k \in m..n} /\ Cardinality(piece) = n - m + 1
<1> DEFINE T == Translatable(selected)
           ids == InOrder(T)
           N == Cardinality(T)
           piece == Piece(T, ids[m], ids[n])
           f == [k \in m..n |-> ids[k]]
<1>1. /\ T \in SUBSET (1..Len(blocks)) /\ N \in Nat /\ ids \in [1..N -> T]
      /\ \A x \in T : \E k \in 1..N : ids[k] = x
      /\ \A k, l \in 1..N : k < l <=> ids[k] < ids[l]
  BY Selected
<1>2. \A x \in T : x \in Nat
  BY <1>1
<1>3. m \in 1..N /\ n \in 1..N /\ m \in Nat /\ n \in Nat /\ \A k \in m..n : k \in 1..N
  BY <1>1
<1> HIDE DEF T, ids, N
<1>4. \A k, l \in 1..N : k <= l <=> ids[k] <= ids[l]
  <2>1. \A k \in 1..N : ids[k] \in Nat /\ k \in Nat
    <3>1. \A k \in 1..N : ids[k] \in T
      BY <1>1
    <3>2. \A k \in 1..N : k \in Nat
      BY <1>1
    <3> QED
      BY <1>2, <3>1, <3>2
  <2>2. ASSUME NEW k \in 1..N, NEW l \in 1..N PROVE k <= l <=> ids[k] <= ids[l]
    <3>1. (k < l <=> ids[k] < ids[l]) /\ (l < k <=> ids[l] < ids[k])
      BY <1>1
    <3>2. k \in Nat /\ l \in Nat /\ ids[k] \in Nat /\ ids[l] \in Nat
      BY <2>1
    <3>3. k <= l <=> ~(l < k)
      BY <3>2
    <3>4. ids[k] <= ids[l] <=> ~(ids[l] < ids[k])
      BY <3>2
    <3> QED
      BY <3>1, <3>3, <3>4
  <2> QED
    BY <2>2
<1>5. \A x : x \in piece <=> \E k \in m..n : ids[k] = x
  <2>1. ASSUME NEW k \in m..n PROVE ids[k] \in piece
    <3>1. k \in 1..N /\ m <= k /\ k <= n
      BY <1>3
    <3> QED
      BY <1>1, <1>3, <1>4, <3>1 DEF Piece
  <2>2. ASSUME NEW x \in piece PROVE \E k \in m..n : ids[k] = x
    <3>1. x \in T /\ ids[m] <= x /\ x <= ids[n]
      BY DEF Piece
    <3>2. PICK k \in 1..N : ids[k] = x
      BY <1>1, <3>1
    <3>3. m <= k /\ k <= n
      BY <1>3, <1>4, <3>1, <3>2
    <3> QED
      BY <1>1, <1>3, <3>2, <3>3
  <2> QED
    BY <2>1, <2>2
<1>6. piece = {ids[k] : k \in m..n}
  <2> HIDE DEF piece
  <2> QED
    BY <1>5
<1> HIDE DEF piece
<1>7. f \in [m..n -> piece] /\ \A k \in m..n : f[k] = ids[k]
  BY <1>5
<1>8. \A k, l \in m..n : f[k] = f[l] => k = l
  <2>1. ASSUME NEW k \in m..n, NEW l \in m..n, ids[k] = ids[l] PROVE k = l
    <3>1. k \in 1..N /\ l \in 1..N /\ k \in Nat /\ l \in Nat
      BY <1>1, <1>3
    <3>2. ids[k] \in Nat
      BY <1>1, <1>2, <3>1
    <3>3. ~(k < l) /\ ~(l < k)
      BY <1>1, <2>1, <3>1, <3>2
    <3> QED
      BY <3>1, <3>3
  <2> QED
    BY <1>7, <2>1
<1> HIDE DEF f
<1>9. f \in Injection(m..n, piece) /\ f \in Surjection(m..n, piece)
  BY <1>5, <1>7, <1>8 DEF Injection, IsInjective, Surjection
<1>10. IsFiniteSet(m..n) /\ Cardinality(m..n) = n - m + 1
  <2>1. m \in Int /\ n \in Int /\ ~(m > n)
    BY <1>3
  <2> QED
    BY <2>1, FS_Interval
<1>11. Cardinality(piece) = n - m + 1
  BY <1>9, <1>10, FS_Surjection
<1> QED
  BY <1>6, <1>11 DEF piece, ids, T

\* What the units of one chapter cost is what their blocks cost, whatever else is
\* selected: the blocks between two of them are not translated.
LEMMA WireTallies ==
  ASSUME Placed, Inv, book.notes = <<>>, wanted # {},
         NEW m \in 1..Len(units), NEW n \in 1..Len(units), m <= n,
         \A k \in m..n : units[k].chapter = units[m].chapter
  PROVE  Wire(m, n) = Tally[units[n].block] - Tally[units[m].block - 1]
<1> DEFINE T == Translatable(wanted)
           N == Len(units)
           at(k) == units[k].block
           L == Len(blocks)
           c == units[m].chapter
<1>1. /\ units \in Seq(Unit) /\ N \in Nat /\ \A k \in 1..N : units[k] \in Unit
  BY LoopFacts, SequenceIs
<1>2. /\ \A k \in 1..N : at(k) \in T /\ units[k].chapter = blocks[at(k)].chapter
                         /\ units[k].tokens = blocks[at(k)].tokens
      /\ T \in SUBSET (1..L)
      /\ \A x \in T : \E k \in 1..N : at(k) = x
      /\ \A k, l \in 1..N : k < l <=> at(k) < at(l)
  <2>1. Arranged /\ wanted \in SUBSET (DOMAIN chapters) /\ units = UnitsFor(wanted)
    BY DEF Placed
  <2> DEFINE ids == InOrder(T)
             C == Cardinality(T)
  <2>2. /\ T \in SUBSET (1..L) /\ ids \in [1..C -> T]
        /\ \A x \in T : \E k \in 1..C : ids[k] = x
        /\ \A k, l \in 1..C : k < l <=> ids[k] < ids[l]
        /\ N = C
        /\ \A k \in 1..C : /\ at(k) = ids[k] /\ units[k].chapter = blocks[ids[k]].chapter
                           /\ units[k].tokens = blocks[ids[k]].tokens
    BY <2>1, Selected
  <2> HIDE DEF ids, C, T, N
  <2> QED
    BY <2>2
<1>3. /\ L \in Nat /\ \A i \in 1..L : blocks[i].chapter \in Nat /\ blocks[i].tokens \in Nat
      /\ \A i, j \in 1..L : i < j => blocks[i].chapter <= blocks[j].chapter
      /\ DOMAIN blocks = 1..L
  BY WithoutNotes DEF Placed, Ordered
<1>4. /\ \A k \in 0..L : Tally[k] \in Nat
      /\ \A k \in 1..L : Tally[k] = Tally[k - 1] + StepCost(k)
      /\ \A i, j \in 0..L : i <= j /\ (\A k \in (i + 1)..j : blocks[k].tokens = 0) => Tally[i] = Tally[j]
  BY TallyIs DEF Placed
<1>5. \A i : i \in T <=> i \in 1..L /\ blocks[i].tokens > 0 /\ blocks[i].chapter \in wanted
  BY <1>3 DEF Translatable
<1>6. \A k \in 1..N : /\ at(k) \in 1..L /\ units[k].tokens > 0
                      /\ StepCost(at(k)) = units[k].tokens + TagTokens
  BY <1>2, <1>5 DEF StepCost
<1>7. \A k \in m..n : k \in 1..N /\ units[k].chapter = c
  BY <1>1
<1> DEFINE Good(k) == Wire(m, k) = Tally[at(k)] - Tally[at(m) - 1]
           Bad == {k \in m..n : ~Good(k)}
<1>8. ASSUME Bad # {} PROVE FALSE
  <2>1. PICK k \in Bad : \A l \in Bad : k <= l
    <3>1. Bad \in SUBSET Nat
      BY <1>1
    <3> HIDE DEF Bad
    <3> QED
      BY <1>8, <3>1, LeastNumber
  <2>2. k \in m..n /\ ~Good(k) /\ k \in 1..N
    BY <1>7, <2>1
  <2>3. /\ at(k) \in 1..L /\ at(k) - 1 \in 0..L /\ at(m) \in 1..L /\ at(m) - 1 \in 0..L
        /\ Tally[at(k)] \in Nat /\ Tally[at(k) - 1] \in Nat /\ Tally[at(m) - 1] \in Nat
        /\ Tally[at(k)] = Tally[at(k) - 1] + (units[k].tokens + TagTokens)
        /\ units[k].tokens + TagTokens \in Nat
    <3>1. at(k) \in 1..L /\ at(m) \in 1..L
      BY <1>6, <2>2
    <3>2. at(k) - 1 \in 0..L /\ at(m) - 1 \in 0..L /\ at(k) \in 0..L
      BY <1>3, <3>1
    <3>3. units[k].tokens + TagTokens \in Nat
      BY <1>1, <2>2, SegmentationAssumption DEF Unit, SegmentationAssumption
    <3> HIDE DEF at
    <3> QED
      BY <1>4, <1>6, <2>2, <3>1, <3>2, <3>3
  <2>4. Wire(m, k) = Wire(m, k - 1) + (units[k].tokens + TagTokens)
    <3>1. m \in Nat \ {0} /\ k \in Nat /\ k >= m - 1 /\ k <= N /\ k >= m
      BY <1>1, <2>2
    <3>2. m - 1 \in Nat /\ k - 1 \in Nat /\ k - 1 >= m - 1 /\ k - 1 <= N
      BY <3>1
    <3>3. Wire(m, k) = Wire(m, k - 1) + units[k].tokens + TagTokens
      BY <1>1, <3>1, WireIs
    <3>4. Wire(m, k - 1) \in Nat
      BY <1>1, <3>1, <3>2, WireIs
    <3>5. units[k].tokens \in Nat /\ TagTokens \in Nat
      BY <1>1, <2>2, SegmentationAssumption DEF Unit, SegmentationAssumption
    <3> QED
      BY <3>3, <3>4, <3>5
  <2>5. CASE k = m
    <3>1. Wire(m, m - 1) = 0
      <4>1. m \in Nat \ {0} /\ m - 1 \in Nat /\ m - 1 >= m - 1 /\ m - 1 <= N
        BY <1>1
      <4> QED
        BY <1>1, <4>1, WireIs
    <3> HIDE DEF at
    <3> QED
      BY <2>2, <2>3, <2>4, <2>5, <3>1
  <2>6. CASE k # m
    <3>1. k - 1 \in m..n /\ k - 1 \in 1..N /\ ~(k <= k - 1) /\ k - 1 < k
      BY <1>1, <1>7, <2>2, <2>6
    <3>2. Good(k - 1)
      BY <2>1, <3>1
    <3>3. /\ at(k - 1) \in 1..L /\ at(k - 1) < at(k) /\ at(k) \in 1..L
          /\ blocks[at(k - 1)].chapter = c /\ blocks[at(k)].chapter = c
          /\ c \in wanted
      BY <1>2, <1>5, <1>6, <1>7, <2>2, <3>1
    <3>4. ASSUME NEW i \in (at(k - 1) + 1)..(at(k) - 1) PROVE blocks[i].tokens = 0
      <4>1. i \in 1..L /\ at(k - 1) < i /\ i < at(k)
        BY <1>3, <3>3
      <4>2. blocks[at(k - 1)].chapter <= blocks[i].chapter /\ blocks[i].chapter <= blocks[at(k)].chapter
        BY <1>3, <3>3, <4>1
      <4>3. blocks[i].chapter \in Nat /\ blocks[at(k)].chapter \in Nat
        BY <1>3, <3>3, <4>1
      <4>4. blocks[i].chapter = c
        <5> DEFINE u == blocks[i].chapter
        <5>1. u \in Nat /\ c \in Nat /\ c <= u /\ u <= c
          BY <3>3, <4>2, <4>3
        <5> HIDE DEF u
        <5>2. u = c
          BY <5>1
        <5> QED
          BY <5>2 DEF u
      <4>5. ASSUME i \in T PROVE FALSE
        <5>1. PICK l \in 1..N : at(l) = i
          BY <1>2, <4>5
        <5>2. k - 1 < l /\ l < k
          BY <1>2, <2>2, <3>1, <4>1, <5>1
        <5>3. k \in Int /\ l \in Int
          BY <1>1, <2>2
        <5> QED
          BY <5>2, <5>3
      <4>6. ~(blocks[i].tokens > 0) /\ blocks[i].tokens \in Nat
        BY <1>3, <1>5, <3>3, <4>1, <4>4, <4>5
      <4> QED
        BY <4>6
    <3>5. Tally[at(k - 1)] = Tally[at(k) - 1]
      <4>1. at(k - 1) \in 0..L /\ at(k) - 1 \in 0..L /\ at(k - 1) <= at(k) - 1
        BY <1>3, <3>3
      <4> HIDE DEF at
      <4> QED
        BY <1>4, <3>4, <4>1
    <3> HIDE DEF at
    <3>6. Wire(m, k - 1) = Tally[at(k) - 1] - Tally[at(m) - 1]
      BY <3>2, <3>5
    <3> DEFINE wire == Wire(m, k)   wired == Wire(m, k - 1)   cost == units[k].tokens + TagTokens
               upto == Tally[at(k)]   before == Tally[at(k) - 1]   start == Tally[at(m) - 1]
    <3>7. /\ upto \in Nat /\ before \in Nat /\ start \in Nat /\ cost \in Nat
          /\ upto = before + cost /\ wire = wired + cost /\ wired = before - start
      BY <2>3, <2>4, <3>6
    <3> HIDE DEF wire, wired, cost, upto, before, start
    <3>8. wire = upto - start
      BY <3>7
    <3>9. Wire(m, k) = Tally[at(k)] - Tally[at(m) - 1]
      BY <3>8 DEF wire, upto, start
    <3> QED
      BY <2>2, <3>9
  <2> QED
    BY <2>5, <2>6
<1>9. n \in m..n
  BY <1>1
<1>10. Good(n)
  BY <1>8, <1>9
<1> QED
  BY <1>10

Sent == {BlocksOf(batches[i]) : i \in DOMAIN batches}

\* When all is grouped the batches cut what was selected as far as fits, and
\* none could have been longer.
LEMMA BatchesCut ==
  ASSUME Placed, Inv, Costs, Flagged, Grouped, book.notes = <<>>, wanted # {}
  PROVE  CutInto(Translatable(wanted), Sent)
<1> DEFINE T == Translatable(wanted)
           N == Len(units)
           at(k) == units[k].block
           ch(k) == units[k].chapter
           L == Len(blocks)
           piece(k, l) == Piece(T, at(k), at(l))
<1>1. /\ units \in Seq(Unit) /\ N \in Nat /\ \A k \in 1..N : units[k] \in Unit
  BY LoopFacts, SequenceIs
<1>2. /\ \A k \in 1..N : at(k) \in T /\ ch(k) = blocks[at(k)].chapter
                         /\ units[k].tokens = blocks[at(k)].tokens
      /\ T \in SUBSET (1..L)
      /\ \A x \in T : \E k \in 1..N : at(k) = x
      /\ \A k, l \in 1..N : k < l <=> at(k) < at(l)
      /\ \A k, l \in 1..N : k <= l =>
           piece(k, l) = {at(i) : i \in k..l} /\ Cardinality(piece(k, l)) = l - k + 1
  <2>1. Arranged /\ wanted \in SUBSET (DOMAIN chapters) /\ units = UnitsFor(wanted)
    BY DEF Placed
  <2> DEFINE ids == InOrder(T)
             C == Cardinality(T)
  <2>2. /\ T \in SUBSET (1..L) /\ ids \in [1..C -> T] /\ C \in Nat
        /\ \A x \in T : \E k \in 1..C : ids[k] = x
        /\ \A k, l \in 1..C : k < l <=> ids[k] < ids[l]
        /\ N = C
        /\ \A k \in 1..C : /\ at(k) = ids[k] /\ ch(k) = blocks[ids[k]].chapter
                           /\ units[k].tokens = blocks[ids[k]].tokens
    BY <2>1, Selected
  <2>3. ASSUME NEW k \in 1..C, NEW l \in 1..C, k <= l
        PROVE  /\ Piece(T, ids[k], ids[l]) = {ids[i] : i \in k..l}
               /\ Cardinality(Piece(T, ids[k], ids[l])) = l - k + 1
    BY <2>1, <2>3, PieceIs
  <2>4. ASSUME NEW k \in 1..C, NEW l \in 1..C, k <= l
        PROVE  piece(k, l) = {at(i) : i \in k..l} /\ Cardinality(piece(k, l)) = l - k + 1
    <3>1. \A i \in k..l : i \in 1..C
      BY <2>2
    <3>2. at(k) = ids[k] /\ at(l) = ids[l] /\ \A i \in k..l : at(i) = ids[i]
      BY <2>2, <3>1
    <3> HIDE DEF ids, C, T, at
    <3>3. {ids[i] : i \in k..l} = {at(i) : i \in k..l}
      BY <3>2
    <3> QED
      BY <2>3, <2>4, <3>2, <3>3
  <2> HIDE DEF ids, C, T, N, at, ch
  <2>5. N = C
    BY <2>2
  <2>6. ASSUME NEW k \in 1..C
        PROVE  at(k) = ids[k] /\ at(k) \in T /\ ch(k) = blocks[at(k)].chapter
               /\ units[k].tokens = blocks[at(k)].tokens
    BY <2>2
  <2>7. \A x \in T : \E k \in 1..C : at(k) = x
    BY <2>2, <2>6
  <2>8. \A k, l \in 1..C : k < l <=> at(k) < at(l)
    BY <2>2, <2>6
  <2>9. \A k, l \in 1..C : k <= l =>
          piece(k, l) = {at(i) : i \in k..l} /\ Cardinality(piece(k, l)) = l - k + 1
    BY <2>4
  <2>10. T \in SUBSET (1..L)
    BY <2>2
  <2> HIDE DEF piece
  <2> QED
    BY <2>5, <2>6, <2>7, <2>8, <2>9, <2>10
<1>3. /\ L \in Nat /\ \A i \in 1..L : blocks[i].chapter \in Nat /\ blocks[i].tokens \in Nat
      /\ \A i, j \in 1..L : i < j => blocks[i].chapter <= blocks[j].chapter
  BY WithoutNotes DEF Placed, Ordered
<1>4. /\ \A k \in 0..L : Tally[k] \in Nat
      /\ \A k \in 1..L : Tally[k] = Tally[k - 1] + StepCost(k)
      /\ \A i, j \in 0..L : i <= j => Tally[i] <= Tally[j]
  BY TallyIs DEF Placed
<1>5. ASSUME NEW k \in 1..N
      PROVE  /\ at(k) \in 1..L /\ at(k) \in Nat /\ at(k) \in 0..L /\ at(k) - 1 \in 0..L
             /\ Tally[at(k)] \in Nat /\ Tally[at(k) - 1] \in Nat
             /\ Tally[at(k)] = Tally[at(k) - 1] + (units[k].tokens + TagTokens)
             /\ units[k].tokens + TagTokens \in Nat
             /\ ch(k) \in Nat
  <2>1. at(k) \in 1..L /\ blocks[at(k)].tokens > 0
    BY <1>2 DEF Translatable
  <2>2. at(k) - 1 \in 0..L /\ at(k) \in 0..L /\ at(k) \in Nat
    BY <1>3, <2>1
  <2>3. units[k].tokens + TagTokens \in Nat
    BY <1>1, SegmentationAssumption DEF Unit, SegmentationAssumption
  <2>4. StepCost(at(k)) = units[k].tokens + TagTokens
    BY <1>2, <2>1 DEF StepCost
  <2>5. ch(k) \in Nat
    BY <1>2, <1>3, <2>1
  <2> HIDE DEF at, ch
  <2> QED
    BY <1>4, <2>1, <2>2, <2>3, <2>4, <2>5
<1>6. \A k, l \in 1..N : k < l => ch(k) <= ch(l)
  <2> SUFFICES ASSUME NEW k \in 1..N, NEW l \in 1..N, k < l PROVE ch(k) <= ch(l)
    OBVIOUS
  <2>1. at(k) < at(l) /\ at(k) \in 1..L /\ at(l) \in 1..L
    BY <1>2, <1>5
  <2> QED
    BY <1>2, <1>3, <2>1
<1>7. ASSUME NEW k \in 1..N, NEW l \in 1..N, k <= l, \A i \in k..l : ch(i) = ch(k)
      PROVE  Wire(k, l) = Tally[at(l)] - Tally[at(k) - 1]
  BY <1>7, WireTallies
<1> HIDE DEF T, N, at, ch, L
<1>8. batches \in Seq(BatchType) /\ TiledTo(batches, N + 1)
  BY LoopFacts DEF Grouped, Inv, Uncovered, N
<1>9. /\ DOMAIN batches = 1..Len(batches) /\ Len(batches) \in Nat
      /\ \A i \in DOMAIN batches : batches[i].oversized \in BOOLEAN
                                   /\ batches[i].first \in Nat /\ batches[i].last \in Nat
  <2>1. DOMAIN batches = 1..Len(batches) /\ Len(batches) \in Nat
        /\ \A i \in DOMAIN batches : batches[i] \in BatchType
    BY <1>8, SequenceIs
  <2> QED
    BY <2>1 DEF BatchType
<1>10. /\ \A i, j \in DOMAIN batches : i < j => batches[i].last < batches[j].first
       /\ \A i \in DOMAIN batches :
            /\ 1 <= batches[i].first /\ batches[i].first <= batches[i].last
            /\ batches[i].last < N + 1
            /\ i < Len(batches) => batches[i + 1].first = batches[i].last + 1
            /\ i = Len(batches) => N + 1 = batches[i].last + 1
       /\ \A n \in 1..((N + 1) - 1) :
            \E i \in DOMAIN batches : batches[i].first <= n /\ n <= batches[i].last
  <2>1. N + 1 \in Nat
    BY <1>1 DEF N
  <2> QED
    BY <1>8, <2>1, TilingCovers
<1>11. N \in Nat /\ (N + 1) - 1 = N
  BY <1>1 DEF N
<1> DEFINE first(i) == batches[i].first
           last(i) == batches[i].last
<1>12. ASSUME NEW i \in DOMAIN batches
       PROVE  /\ first(i) \in 1..N /\ last(i) \in 1..N /\ first(i) <= last(i)
              /\ \A k \in first(i)..last(i) : k \in 1..N /\ ch(k) = ch(first(i))
              /\ last(i) - first(i) < MaxSegments
              /\ batches[i].oversized => first(i) = last(i) /\ IsOversized(units[first(i)])
              /\ batches[i].oversized \/ Wire(first(i), last(i)) <= Budget
              /\ BlocksOf(batches[i]) = {at(k) : k \in first(i)..last(i)}
  <2>1. Sound(batches[i]) /\ Affordable(batches[i])
    BY DEF Inv, Costs
  <2>2. first(i) \in 1..N /\ last(i) \in 1..N /\ first(i) <= last(i)
    BY <1>9, <1>10, <1>11
  <2>3. \A k \in first(i)..last(i) : k \in 1..N
    BY <1>11, <2>2
  <2>4. batches[i].oversized => IsOversized(units[first(i)])
    BY DEF Flagged
  <2>5. BlocksOf(batches[i]) = {at(k) : k \in first(i)..last(i)}
    BY DEF BlocksOf, at
  <2> QED
    BY <2>1, <2>2, <2>3, <2>4, <2>5 DEF Sound, Affordable, ch
<1> HIDE DEF first, last
<1>17. \A k, l \in 1..N : k < l <=> at(k) < at(l)
  BY <1>2
<1>13. ASSUME NEW i \in DOMAIN batches
       PROVE  \E s, e \in T :
                /\ s <= e /\ BlocksOf(batches[i]) = Piece(T, s, e)
                /\ blocks[s].chapter = blocks[e].chapter
                /\ s = e \/ Fits(T, s, e)
                /\ \A x \in T : e < x /\ blocks[x].chapter = blocks[s].chapter => ~Fits(T, s, x)
  <2> DEFINE m == first(i)
             n == last(i)
  <2>1. /\ m \in 1..N /\ n \in 1..N /\ m <= n
        /\ \A k \in m..n : k \in 1..N /\ ch(k) = ch(m)
        /\ n - m < MaxSegments
        /\ batches[i].oversized => m = n /\ IsOversized(units[m])
        /\ batches[i].oversized \/ Wire(m, n) <= Budget
        /\ BlocksOf(batches[i]) = {at(k) : k \in m..n}
    BY <1>12
  <2>2. m \in Nat /\ n \in Nat
    BY <1>11, <2>1
  <2>3. at(m) \in T /\ at(n) \in T /\ at(m) <= at(n)
    <3>1. m = n \/ m < n
      BY <2>1, <2>2
    <3>2. m < n => at(m) < at(n)
      BY <1>2, <2>1
    <3>3. at(m) \in Nat /\ at(n) \in Nat
      BY <1>5, <2>1
    <3>4. at(m) <= at(n)
      BY <3>1, <3>2, <3>3
    <3> QED
      BY <1>2, <2>1, <3>4
  <2>4. BlocksOf(batches[i]) = Piece(T, at(m), at(n))
    BY <1>2, <2>1
  <2>5. n \in m..n /\ ch(n) = ch(m) /\ ch(n) = blocks[at(n)].chapter /\ ch(m) = blocks[at(m)].chapter
    <3>1. n \in m..n
      BY <2>1, <2>2
    <3> QED
      BY <1>2, <2>1, <3>1
  <2>6. at(m) = at(n) \/ Fits(T, at(m), at(n))
    <3>1. CASE batches[i].oversized
      BY <2>1, <3>1
    <3>2. CASE ~batches[i].oversized
      <4>1. Tally[at(n)] - Tally[at(m) - 1] <= Budget
        BY <1>7, <2>1, <3>2
      <4>2. Cardinality(Piece(T, at(m), at(n))) = n - m + 1
        BY <1>2, <2>1
      <4>3. n - m + 1 <= MaxSegments
        BY <2>1, <2>2, SegmentationAssumption DEF SegmentationAssumption
      <4> QED
        BY <4>1, <4>2, <4>3 DEF Fits
    <3> QED
      BY <3>1, <3>2
  <2>7. ASSUME NEW x \in T, at(n) < x, blocks[x].chapter = blocks[at(m)].chapter
        PROVE  ~Fits(T, at(m), x)
    <3>1. PICK l \in 1..N : at(l) = x
      BY <1>2
    <3>2. n < l /\ l \in Nat
      <4>1. n < l <=> at(n) < at(l)
        BY <1>17, <2>1
      <4>2. l \in Nat
        BY <1>11
      <4> QED
        BY <2>7, <3>1, <4>1, <4>2
    <3> DEFINE y == n + 1
    <3>3. y \in 1..N /\ y <= l /\ n < y /\ m <= y /\ m <= l /\ m < y /\ y \in Nat
      BY <1>11, <2>1, <2>2, <3>2
    <3>4. ch(l) = ch(m)
      BY <1>2, <2>5, <2>7, <3>1
    <3>5. ch(y) = ch(m)
      <4>1. ch(n) <= ch(y)
        BY <1>6, <2>1, <3>3
      <4>2. y = l \/ ch(y) <= ch(l)
        BY <1>6, <3>3
      <4>3. ch(y) \in Nat /\ ch(m) \in Nat
        BY <1>5, <2>1, <3>3
      <4> QED
        <5> DEFINE u == ch(y)
                   v == ch(m)
        <5>1. v <= u /\ (u = v \/ u <= v) /\ u \in Nat /\ v \in Nat
          BY <2>5, <3>4, <4>1, <4>2, <4>3
        <5> HIDE DEF u, v
        <5>2. u = v
          BY <5>1
        <5> QED
          BY <5>2 DEF u, v
    <3>6. i < Len(batches)
      <4>1. i # Len(batches)
        BY <1>10, <1>11, <2>2, <3>2, <3>1 DEF last
      <4> QED
        BY <1>9, <4>1
    <3>7. i + 1 \in DOMAIN batches /\ i + 1 # 1 /\ (i + 1) - 1 = i /\ first(i + 1) = y
      BY <1>9, <1>10, <3>6 DEF first, last
    <3>8. batches[i + 1].oversized \/ Parted(batches[i], y)
      BY <3>7 DEF Costs, first
    <3>9. Tally[at(y)] <= Tally[x] /\ Tally[x] \in Nat /\ Tally[at(y) - 1] >= Tally[at(m)]
          /\ Tally[at(m)] <= Tally[x]
      <4>1. at(m) < at(y) /\ (y = l \/ at(y) < at(l)) /\ at(m) < at(l)
        <5>1. m < l /\ (y = l \/ y < l)
          BY <3>2, <3>3, <2>2
        <5> QED
          BY <1>17, <2>1, <3>3, <5>1
      <4>2. at(m) \in 0..L /\ at(y) \in 0..L /\ at(l) \in 0..L /\ at(y) - 1 \in 0..L
            /\ at(m) \in Nat /\ at(y) \in Nat /\ at(l) \in Nat
        BY <1>5, <2>1, <3>3
      <4>3. at(y) <= at(l) /\ at(m) <= at(y) - 1 /\ at(m) <= at(l)
        BY <4>1, <4>2
      <4> QED
        BY <1>4, <3>1, <4>2, <4>3
    <3>10. Tally[at(m) - 1] \in Nat /\ Tally[at(m)] \in Nat /\ Tally[at(y)] \in Nat /\ Tally[at(y) - 1] \in Nat
           /\ Tally[at(m)] = Tally[at(m) - 1] + (units[m].tokens + TagTokens)
           /\ Tally[at(y)] = Tally[at(y) - 1] + (units[y].tokens + TagTokens)
           /\ units[m].tokens + TagTokens \in Nat /\ units[y].tokens + TagTokens \in Nat
      BY <1>5, <2>1, <3>3
    <3>11. Budget \in Nat /\ MaxSegments \in Nat
      BY SegmentationAssumption DEF SegmentationAssumption
    <3> DEFINE end == Tally[x]   uptoM == Tally[at(m)]   uptoY == Tally[at(y)]
               beforeM == Tally[at(m) - 1]   beforeY == Tally[at(y) - 1]
               costM == units[m].tokens + TagTokens   costY == units[y].tokens + TagTokens
    <3>a. /\ end \in Nat /\ uptoM \in Nat /\ uptoY \in Nat /\ beforeM \in Nat /\ beforeY \in Nat
          /\ costM \in Nat /\ costY \in Nat /\ Budget \in Nat
          /\ uptoM = beforeM + costM /\ uptoY = beforeY + costY
          /\ uptoY <= end /\ uptoM <= beforeY /\ uptoM <= end
      BY <3>9, <3>10, <3>11
    <3>b. costM > Budget \/ costY > Budget => end - beforeM > Budget
      <4> HIDE DEF end, uptoM, uptoY, beforeM, beforeY, costM, costY
      <4> QED
        BY <3>a
    <3>12. CASE batches[i + 1].oversized
      <4>1. units[y].tokens + TagTokens > Budget
        BY <1>12, <3>7, <3>12 DEF IsOversized
      <4>2. Tally[x] - Tally[at(m) - 1] > Budget
        BY <3>b, <4>1
      <4> QED
        BY <3>9, <3>10, <3>11, <4>2 DEF Fits
    <3>13. CASE batches[i].oversized
      <4>1. units[m].tokens + TagTokens > Budget
        BY <2>1, <3>13 DEF IsOversized
      <4>2. Tally[x] - Tally[at(m) - 1] > Budget
        BY <3>b, <4>1
      <4> QED
        BY <3>9, <3>10, <3>11, <4>2 DEF Fits
    <3>14. CASE Wire(m, y) > Budget
      <4>1. \A k \in m..y : k \in m..n \/ k = y
        BY <2>2
      <4>2. \A k \in m..y : ch(k) = ch(m)
        BY <2>1, <3>5, <4>1
      <4>3. Wire(m, y) = Tally[at(y)] - Tally[at(m) - 1]
        BY <1>7, <2>1, <3>3, <4>2
      <4>4. Tally[x] - Tally[at(m) - 1] > Budget
        <5> DEFINE wire == Wire(m, y)
        <5>1. wire > Budget /\ wire = uptoY - beforeM
          BY <3>14, <4>3
        <5> HIDE DEF end, uptoM, uptoY, beforeM, beforeY, costM, costY, wire
        <5>2. end - beforeM > Budget
          BY <3>a, <5>1
        <5> QED
          BY <5>2 DEF end, beforeM
      <4> QED
        BY <3>9, <3>10, <3>11, <4>4 DEF Fits
    <3>15. CASE y - m >= MaxSegments
      <4>1. Cardinality(Piece(T, at(m), at(l))) = l - m + 1
        BY <1>2, <2>1, <3>3
      <4>2. l - m + 1 > MaxSegments
        BY <2>2, <3>2, <3>3, <3>11, <3>15
      <4> QED
        BY <2>2, <3>1, <3>2, <3>11, <4>1, <4>2 DEF Fits
    <3> QED
      BY <3>5, <3>8, <3>12, <3>13, <3>14, <3>15 DEF Parted, ch, first
  <2> QED
    BY <2>3, <2>4, <2>5, <2>6, <2>7
<1>14. ASSUME NEW x \in T PROVE \E b \in Sent : x \in b
  <2>1. PICK k \in 1..N : at(k) = x
    BY <1>2
  <2>2. PICK i \in DOMAIN batches : first(i) <= k /\ k <= last(i)
    BY <1>10, <1>11, <2>1 DEF first, last
  <2>3. k \in first(i)..last(i)
    BY <1>9, <2>2 DEF first, last
  <2>4. x \in BlocksOf(batches[i])
    BY <1>12, <2>1, <2>3
  <2> QED
    BY <2>4 DEF Sent
<1>15. ASSUME NEW b \in Sent, NEW d \in Sent, NEW x, x \in b, x \in d PROVE b = d
  <2>1. PICK i \in DOMAIN batches : b = BlocksOf(batches[i])
    BY DEF Sent
  <2>2. PICK j \in DOMAIN batches : d = BlocksOf(batches[j])
    BY DEF Sent
  <2>3. PICK k \in first(i)..last(i) : at(k) = x
    BY <1>12, <1>15, <2>1
  <2>4. PICK l \in first(j)..last(j) : at(l) = x
    BY <1>12, <1>15, <2>2
  <2>5. k \in 1..N /\ l \in 1..N
    BY <1>12, <2>3, <2>4
  <2>6. k = l
    <3>1. at(k) \in Nat /\ at(l) \in Nat /\ k \in Nat /\ l \in Nat
      BY <1>5, <1>11, <2>5
    <3>2. ~(k < l) /\ ~(l < k)
      BY <1>2, <2>3, <2>4, <2>5, <3>1
    <3> QED
      BY <3>1, <3>2
  <2>7. i = j
    <3>1. first(i) <= k /\ k <= last(i) /\ first(j) <= k /\ k <= last(j) /\ k \in Nat
          /\ first(i) \in Nat /\ last(i) \in Nat /\ first(j) \in Nat /\ last(j) \in Nat
      BY <1>11, <1>12, <2>3, <2>4, <2>5, <2>6
    <3>2. i < j => last(i) < first(j)
      BY <1>10 DEF first, last
    <3>3. j < i => last(j) < first(i)
      BY <1>10 DEF first, last
    <3>4. ~(i < j) /\ ~(j < i)
      BY <3>1, <3>2, <3>3
    <3>5. i \in Nat /\ j \in Nat
      BY <1>9
    <3> QED
      BY <3>4, <3>5
  <2> QED
    BY <2>1, <2>2, <2>7
<1>16. \A b \in Sent : \E i \in DOMAIN batches : b = BlocksOf(batches[i])
  BY DEF Sent
<1> QED
  BY <1>13, <1>14, <1>15, <1>16 DEF CutInto, T

-----------------------------------------------------------------------------
(* The batches of earlier selections *)

\* What was sent for a selection cuts what that selection holds of the book.
Remembered ==
  book.notes = <<>> =>
    \A other \in earlier :
      other.chapters \subseteq DOMAIN chapters /\ CutInto(Translatable(other.chapters), other.sent)

\* What is cut depends on the blocks alone.
LEMMA CutKept ==
  ASSUME UNCHANGED blocks
  PROVE  \A W, sent : CutInto(Translatable(W), sent)' <=> CutInto(Translatable(W), sent)
<1>1. \A W : Translatable(W)' = Translatable(W)
  BY DEF Translatable
<1>2. Tally' = Tally
  BY DEF Tally, StepCost
<1> SUFFICES ASSUME NEW W, NEW sent
             PROVE  CutInto(Translatable(W), sent)' <=> CutInto(Translatable(W), sent)
  OBVIOUS
<1> DEFINE T == Translatable(W)
<1>3. T' = T
  BY <1>1
<1> HIDE DEF T
<1>4. \A s, e : Piece(T, s, e)' = Piece(T, s, e)
  BY <1>3 DEF Piece
<1>5. \A s, e : Fits(T, s, e)' <=> Fits(T, s, e)
  BY <1>2, <1>4 DEF Fits
<1>6. CutInto(T, sent)' <=> CutInto(T, sent)
  BY <1>3, <1>4, <1>5 DEF CutInto
<1> QED
  BY <1>6 DEF T

LEMMA RememberedSelect ==
  ASSUME Placed, Inv, Costs, Flagged, Remembered, NEW numbers, Select(numbers)
  PROVE  Remembered'
<1> SUFFICES ASSUME book'.notes = <<>>, NEW other \in earlier'
             PROVE  /\ other.chapters \subseteq DOMAIN chapters'
                    /\ CutInto(Translatable(other.chapters), other.sent)'
  BY DEF Remembered
<1>1. UNCHANGED <<book, chapters, blocks>> /\ Grouped
  BY DEF Select, document
<1>2. book.notes = <<>>
  BY <1>1
<1>3. earlier' = IF wanted = {} THEN earlier
                 ELSE earlier \cup {[chapters |-> wanted, sent |-> Sent]}
  BY DEF Select, Sent
<1>4. /\ other.chapters \subseteq DOMAIN chapters
      /\ CutInto(Translatable(other.chapters), other.sent)
  <2>1. CASE other \in earlier
    BY <1>2, <2>1 DEF Remembered
  <2>2. CASE other \notin earlier
    <3>1. wanted # {} /\ other.chapters = wanted /\ other.sent = Sent
      BY <1>3, <2>2
    <3>2. CutInto(Translatable(wanted), Sent)
      BY <1>1, <1>2, <3>1, BatchesCut
    <3> QED
      BY <3>1, <3>2 DEF Placed
  <2> QED
    BY <2>1, <2>2
<1> QED
  BY <1>1, <1>4, CutKept

LEMMA RememberedKept ==
  ASSUME Remembered, UNCHANGED <<book, chapters, blocks, earlier>>
  PROVE  Remembered'
BY CutKept DEF Remembered

\* What was sent for every earlier selection cuts what it held.
THEOREM EarlierBatchesCut == Spec => []Remembered
<1>1. Init => Remembered
  BY DEF Init, Remembered
<1>2. ASSUME Placed, Inv, Costs, Flagged, Remembered, [Next]_bookVars
      PROVE  Remembered'
  <2>1. CASE Extract
    <3>1. wanted = {} /\ earlier' = earlier
      BY <1>2, <2>1, ChaptersHaveBlocks DEF Placed, Extract
    <3> QED
      BY <1>2, <3>1 DEF Placed, Remembered
  <2>2. CASE GroupUnits
    BY <1>2, <2>2, RememberedKept DEF GroupUnits, document
  <2>3. CASE \E numbers \in Selections : Select(numbers)
    BY <1>2, <2>3, RememberedSelect
  <2>4. CASE UNCHANGED bookVars
    BY <1>2, <2>4, RememberedKept DEF bookVars, document
  <2> QED
    BY <1>2, <2>1, <2>2, <2>3, <2>4 DEF Next
<1> QED
  BY <1>1, <1>2, BooksArePlaced, BooksAreGrouped, GroupingInvariant, GroupingCosts,
     BatchesAreFlagged, PTL DEF Spec

\* A chapter of a book without notes is cut into the same batches whatever is
\* selected with it, for every book, budget and pair of selections: a wider
\* selection finds the batches of the narrower one in the cache.
THEOREM BatchesSurvive == Spec => []BatchesSurviveSelection
<1>1. ASSUME Placed, Inv, Costs, Flagged, Remembered
      PROVE  BatchesSurviveSelection
  <2> SUFFICES ASSUME Grouped, book.notes = <<>>, NEW other \in earlier
               PROVE  LET both == {i \in DOMAIN blocks :
                                     blocks[i].chapter \in wanted \cap other.chapters}
                      IN {b \in Sent : b \subseteq both} = {b \in other.sent : b \subseteq both}
    BY DEF BatchesSurviveSelection, Sent
  <2> DEFINE both == {i \in DOMAIN blocks : blocks[i].chapter \in wanted \cap other.chapters}
  <2>1. wanted # {} /\ Arranged
    BY <1>1 DEF Placed
  <2>2. CutInto(Translatable(wanted), Sent)
    BY <1>1, <2>1, BatchesCut
  <2>3. CutInto(Translatable(other.chapters), other.sent)
    BY <1>1 DEF Remembered
  <2>4. \A i \in both : blocks[i].chapter \in wanted /\ blocks[i].chapter \in other.chapters
    OBVIOUS
  <2>5. ASSUME NEW b \in Sent, b \subseteq both PROVE b \in other.sent
    BY <2>1, <2>2, <2>3, <2>4, <2>5, PieceSurvives
  <2>6. ASSUME NEW b \in other.sent, b \subseteq both PROVE b \in Sent
    BY <2>1, <2>2, <2>3, <2>4, <2>6, PieceSurvives
  <2> QED
    BY <2>5, <2>6
<1> QED
  BY <1>1, BooksArePlaced, BooksAreGrouped, GroupingInvariant, GroupingCosts,
     BatchesAreFlagged, EarlierBatchesCut, PTL
=============================================================================
