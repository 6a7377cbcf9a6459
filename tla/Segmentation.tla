---------------------------- MODULE Segmentation ----------------------------
(***************************************************************************)
(* build_batches of segment.py: translation units into batches.            *)
(*                                                                         *)
(* One action per turn of the loop, by what it does with the unit.  The    *)
(* batch being filled is the run of units from "open" to the last one      *)
(* taken, so a batch is told by its first and its last unit.               *)
(***************************************************************************)
EXTENDS Integers, Sequences

CONSTANTS
  BlockIds, ChapterIds,
  Budget,       \* translation.batch_tokens
  TagTokens,    \* TAG_TOKENS: what one pair of tags costs
  MaxSegments   \* translation.max_batch_segments

ASSUME SegmentationAssumption ==
  /\ Budget \in Nat \ {0} /\ TagTokens \in Nat \ {0} /\ MaxSegments \in Nat \ {0}

\* A unit is a block with the tokens of its text.
Unit == [block : BlockIds, chapter : ChapterIds, tokens : Nat]

VARIABLES
  units,     \* what is to be grouped
  position,  \* the unit the loop is at
  open,      \* the first unit of "current", 0 when there is none
  batches    \* the batches put down

loop == <<position, open, batches>>
vars == <<units, loop>>

-----------------------------------------------------------------------------
\* Batch.wire_tokens of the units from i to j
Wire(i, j) ==
  LET upTo[k \in (i - 1)..j] ==
        IF k = i - 1 THEN 0 ELSE upTo[k - 1] + units[k].tokens + TagTokens
  IN upTo[j]

Batch(first, last, oversized) == [first |-> first, last |-> last, oversized |-> oversized]

\* Nothing to group yet.
NoUnits == units = <<>> /\ position = 1 /\ open = 0 /\ batches = <<>>

\* build_batches is called with the units of a document.
Begin(document) ==
  /\ units' = document
  /\ position' = 1 /\ open' = 0 /\ batches' = <<>>

\* Variant: the batch being filled is forgotten.
Forgotten == batches

\* The batches with the one being filled put down.
Closed == IF open = 0 THEN batches ELSE Append(batches, Batch(open, position - 1, FALSE))

\* An oversized block travels alone.
IsOversized(unit) == unit.tokens + TagTokens > Budget

\* Variant: a batch goes on into the next chapter.
NeverCrosses(unit) == FALSE

CrossesChapter(unit) == units[open].chapter # unit.chapter

\* Variants: the tags of the unit are forgotten; a budget that is met is
\* exceeded.
OverBudgetUntagged(unit) == Wire(open, position - 1) + unit.tokens > Budget
MeetsBudget(unit) == Wire(open, position - 1) + unit.tokens + TagTokens >= Budget

OverBudget(unit) == Wire(open, position - 1) + unit.tokens + TagTokens > Budget

TooMany == position - open >= MaxSegments

\* The unit does not go with those of the batch being filled.
NeedsNew(unit) ==
  open # 0 => CrossesChapter(unit) \/ OverBudget(unit) \/ TooMany

AtUnit == position <= Len(units)

TakeOversized ==
  /\ AtUnit /\ IsOversized(units[position])
  /\ batches' = Append(Closed, Batch(position, position, TRUE))
  /\ open' = 0
  /\ position' = position + 1
  /\ UNCHANGED units

OpenBatch ==
  /\ AtUnit /\ ~IsOversized(units[position]) /\ NeedsNew(units[position])
  /\ batches' = Closed
  /\ open' = position
  /\ position' = position + 1
  /\ UNCHANGED units

Join ==
  /\ AtUnit /\ ~IsOversized(units[position]) /\ ~NeedsNew(units[position])
  /\ position' = position + 1
  /\ UNCHANGED <<units, open, batches>>

\* After the loop the batch being filled is put down.
Finish ==
  /\ position = Len(units) + 1 /\ open # 0
  /\ batches' = Closed
  /\ open' = 0
  /\ UNCHANGED <<units, position>>

Group == TakeOversized \/ OpenBatch \/ Join \/ Finish

Grouped == position = Len(units) + 1 /\ open = 0

Regroup == Grouped /\ \E document \in Seq(Unit) : Begin(document)

\* One document after another, each grouped to the end.
GroupingSpec == NoUnits /\ [][Group \/ Regroup]_vars

-----------------------------------------------------------------------------
(* Properties *)

\* The loop stays within the units, and a batch being filled has some.
LoopTypeOK ==
  /\ units \in Seq(Unit)
  /\ position \in 1..(Len(units) + 1)
  /\ open \in 0..(position - 1)
  /\ batches \in Seq([first : Nat \ {0}, last : Nat \ {0}, oversized : BOOLEAN])

\* The first unit that no batch put down holds
Uncovered == IF open = 0 THEN position ELSE open

\* Every unit is in exactly one batch, in the order of the document: each batch
\* goes on where the one before it ended.
BatchesTile ==
  /\ \A i \in DOMAIN batches :
       /\ batches[i].first <= batches[i].last
       /\ batches[i].first = IF i = 1 THEN 1 ELSE batches[i - 1].last + 1
  /\ Uncovered = IF batches = <<>> THEN 1 ELSE batches[Len(batches)].last + 1

\* No batch crosses a chapter boundary, the one being filled no less.
OneChapter ==
  /\ \A i \in DOMAIN batches :
       \A k \in batches[i].first..batches[i].last :
         units[k].chapter = units[batches[i].first].chapter
  /\ open # 0 => \A k \in open..(position - 1) : units[k].chapter = units[open].chapter

\* A batch has at most MaxSegments units, and an oversized one a single unit.
FewSegments ==
  /\ \A i \in DOMAIN batches :
       /\ batches[i].last - batches[i].first < MaxSegments
       /\ batches[i].oversized => batches[i].first = batches[i].last
  /\ open # 0 => position - open <= MaxSegments

\* What goes over the wire is within the budget and the number of segments,
\* unless a single block is over the budget.
WithinLimits ==
  /\ FewSegments
  /\ \A i \in DOMAIN batches :
       batches[i].oversized \/ Wire(batches[i].first, batches[i].last) <= Budget

\* No call is wasted: two batches in a row are two because the first unit of
\* the second would not have gone with the first.
NoneWasted ==
  \A i \in DOMAIN batches \ {1} :
    LET this == batches[i]  before == batches[i - 1] IN
    \/ this.oversized \/ before.oversized
    \/ units[this.first].chapter # units[before.first].chapter
    \/ Wire(before.first, this.first) > Budget
    \/ this.first - before.first >= MaxSegments

=============================================================================
