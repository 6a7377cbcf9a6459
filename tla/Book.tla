-------------------------------- MODULE Book --------------------------------
(***************************************************************************)
(* From the cleaned paragraphs of a book to what a run of the translator   *)
(* is given: chapters (structure.detect_structure), blocks                 *)
(* (extract/pipeline.build_document), the chapters selected                *)
(* (chapters.apply_selection) and their batches (Segmentation); and the    *)
(* order the renderers take the blocks in (render/base.iter_chapters).     *)
(*                                                                         *)
(* A paragraph is a record with its page, its form (a scene break, a       *)
(* caption, an item of a list or other text), its size and whether it is   *)
(* bold, whether it is short and without a full stop, whether it has the   *)
(* pattern of a chapter's title, the chapter number its text gives (0 for  *)
(* none) and its tokens (0 for a scene break, which is not translated).    *)
(* An outline entry has a level, a page, a number and the paragraphs whose *)
(* text matches it; a note has a page and tokens.                          *)
(***************************************************************************)
EXTENDS Segmentation, Places, SequencesExt

CONSTANTS
  Manuscripts,   \* records with paragraphs, outline and notes
  Selections,    \* the sets of numbers --chapters may give
  HeadingSize,   \* the body's size times min_heading_size_ratio
  MaxSelections  \* bound: how often chapters are selected

Paragraph == [page : Nat, form : {"text", "item", "caption", "break"}, size : Nat, bold : BOOLEAN,
              short : BOOLEAN, marked : BOOLEAN, number : Nat, tokens : Nat]

\* The ids of blocks and chapters are their positions, and of both there are
\* enough.
ASSUME BookAssumption ==
  \A m \in Manuscripts :
    /\ m.paragraphs \in Seq(Paragraph)
    /\ m.outline \in Seq([level : Nat, page : Nat, number : Nat, titles : SUBSET Nat])
    /\ m.notes \in Seq([page : Nat, tokens : Nat])
    /\ 1..Len(m.paragraphs) \subseteq ChapterIds
    /\ 1..(Len(m.paragraphs) + Len(m.notes)) \subseteq BlockIds

VARIABLES
  book,     \* the manuscript
  chapters, \* Document.chapters; the id of one is its position
  blocks,   \* Document.blocks
  wanted,   \* the chapters selected
  earlier,  \* the batches of the selections before: chapters and blocks
  asked     \* how often chapters were selected

document == <<book, chapters, blocks>>
bookVars == <<vars, document, wanted, earlier, asked>>

Paragraphs == DOMAIN book.paragraphs

-----------------------------------------------------------------------------
(* detect_structure *)

\* classify_paragraph as far as it finds headings: a scene break, a caption and
\* an item of a list ("1. The Beginning") are none whatever they look like.
Heading(p) ==
  p.form = "text" /\ p.short /\ (p.size >= HeadingSize \/ p.marked \/ p.bold)

Headings == InOrder({i \in Paragraphs : Heading(book.paragraphs[i])})

\* The sizes of the headings, the largest first; below the sixth all are alike.
Rank(i) ==
  LET sizes == {book.paragraphs[j].size : j \in ToSet(Headings)}
  IN Min({6, Cardinality({z \in sizes : z >= book.paragraphs[i].size})})

\* assign_heading_levels: a level goes down one step at a time.
HeadingLevels ==
  FoldLeft(LAMBDA levels, i :
             Append(levels, IF levels = <<>> THEN Rank(i) ELSE Min({Rank(i), Last(levels) + 1})),
           <<>>, Headings)

Plan(start, page, number) == [start |-> start, page |-> page, number |-> number]

\* _chapters_from_outline for one entry: a heading that says the same among the
\* next twenty paragraphs, or else the next paragraph.
MappedOnto(plans, entry) ==
  LET free == {i \in Paragraphs : /\ \A p \in plans : p.start # i
                                  /\ book.paragraphs[i].page >= entry.page}
      near == {i \in free : Cardinality({j \in free : j < i}) < 20}
      same == near \cap entry.titles
  IN IF entry.level > 2 \/ free = {} THEN plans
     ELSE plans \cup {Plan(Min(IF same = {} THEN free ELSE same), entry.page, entry.number)}

FromOutline ==
  LET mapped[n \in 0..Len(book.outline)] ==
        IF n = 0 THEN {} ELSE MappedOnto(mapped[n - 1], book.outline[n])
  IN mapped[Len(book.outline)]

PlanAt(i) == Plan(i, book.paragraphs[i].page, book.paragraphs[i].number)

\* _chapters_from_headings, and the patterns when there are none
FromHeadings ==
  {PlanAt(Headings[n]) : n \in {n \in DOMAIN Headings : HeadingLevels[n] = Min(ToSet(HeadingLevels))}}
FromPatterns == {PlanAt(i) : i \in {i \in Paragraphs : book.paragraphs[i].marked}}

Found ==
  IF FromOutline # {} THEN FromOutline
  ELSE IF FromHeadings # {} THEN FromHeadings ELSE FromPatterns

\* Variant: what stands before the first chapter is left out.
WithoutFrontMatter(plans) == plans

\* What stands before the first chapter, or the whole book, is one more chapter.
WithFrontMatter(plans) ==
  IF Paragraphs = {} \/ \E p \in plans : p.start = 1 THEN plans
  ELSE plans \cup {Plan(1, book.paragraphs[1].page, 0)}

Earlier(plans) == {p \in plans \X plans : p[1].start < p[2].start}

Detected == LET plans == WithFrontMatter(Found) IN Ranked(plans, Earlier(plans))

\* paragraph_indices: up to the start of the next chapter
ParagraphsOf(plans, c) ==
  {i \in Paragraphs : plans[c].start <= i /\ (c < Len(plans) => i < plans[c + 1].start)}

-----------------------------------------------------------------------------
(* build_document *)

\* _chapter_for_page: the last chapter that starts at or before it, or else the
\* first; 0 when there is none
ChapterForPage(plans, page) ==
  LET before == {c \in DOMAIN plans : plans[c].page <= page}
  IN IF plans = <<>> THEN 0 ELSE IF before = {} THEN 1 ELSE Max(before)

\* index_to_chapter, 0 for a paragraph that no chapter has
Home(plans, i) ==
  LET homes == {c \in DOMAIN plans : i \in ParagraphsOf(plans, c)}
  IN IF homes = {} THEN 0 ELSE Max(homes)

\* The paragraphs, then all the notes
Built(plans) ==
  [i \in Paragraphs |-> [chapter |-> Home(plans, i), tokens |-> book.paragraphs[i].tokens]]
    \o [n \in DOMAIN book.notes |->
          [chapter |-> ChapterForPage(plans, book.notes[n].page),
           tokens |-> book.notes[n].tokens]]

\* Chapter.block_ids: the notes of a chapter end it.
Contents(c) == InOrder({i \in DOMAIN blocks : blocks[i].chapter = c})

\* iter_chapters: the chapters, then the blocks of none
Rendered ==
  LET all == FlattenSeq([c \in DOMAIN chapters |-> Contents(c)])
  IN all \o InOrder({i \in DOMAIN blocks : i \notin ToSet(all)})

-----------------------------------------------------------------------------
(* apply_selection *)

\* The number of a chapter, or its position when it has none
NumberOf(c) == IF chapters[c].number # 0 THEN chapters[c].number ELSE c

Matching(numbers) == {c \in DOMAIN chapters : NumberOf(c) \in numbers}

\* translatable_blocks of the document with the selection applied, in order
Translatable(selected) ==
  {i \in DOMAIN blocks : blocks[i].tokens > 0 /\ blocks[i].chapter \in selected}

UnitsFor(selected) ==
  LET ids == InOrder(Translatable(selected))
  IN [n \in DOMAIN ids |-> [chapter |-> blocks[ids[n]].chapter,
                            tokens |-> blocks[ids[n]].tokens, block |-> ids[n]]]

BlocksOf(batch) == {units[k].block : k \in batch.first..batch.last}

-----------------------------------------------------------------------------
Init ==
  /\ book \in Manuscripts /\ chapters = <<>> /\ blocks = <<>>
  /\ wanted = {} /\ earlier = {} /\ asked = 0
  /\ NoUnits

\* extract: the structure, then the document.
Extract ==
  /\ blocks = <<>>
  /\ chapters' = Detected
  /\ blocks' = Built(chapters')
  /\ UNCHANGED <<vars, book, wanted, earlier, asked>>

\* A command with --chapters; when no chapter matches it ends with an error.
Select(numbers) ==
  /\ Grouped /\ asked < MaxSelections
  /\ Matching(numbers) # {}
  /\ asked' = asked + 1
  /\ wanted' = Matching(numbers)
  /\ earlier' = IF wanted = {} THEN earlier
                ELSE earlier \cup {[chapters |-> wanted,
                                    sent |-> {BlocksOf(batches[i]) : i \in DOMAIN batches}]}
  /\ Begin(UnitsFor(wanted'))
  /\ UNCHANGED document

GroupUnits == Group /\ UNCHANGED <<document, wanted, earlier, asked>>

Next == Extract \/ GroupUnits \/ \E numbers \in Selections : Select(numbers)

Spec == Init /\ [][Next]_bookVars

-----------------------------------------------------------------------------
(* Properties *)

\* Every paragraph and every note reaches the renderers once, and the notes of
\* a chapter come after its paragraphs and before the next chapter.
RenderedOnce == blocks # <<>> =>
  /\ Len(Rendered) = Len(book.paragraphs) + Len(book.notes)
  /\ ToSet(Rendered) = DOMAIN blocks
  /\ \A i \in DOMAIN Rendered \ {1} :
       blocks[Rendered[i - 1]].chapter <= blocks[Rendered[i]].chapter

\* A chapter of a book without notes is cut into the same batches whatever is
\* selected with it: a wider selection finds the batches of the narrower one.
BatchesSurviveSelection ==
  Grouped /\ book.notes = <<>> =>
    \A other \in earlier :
      LET both == {i \in DOMAIN blocks : blocks[i].chapter \in wanted \cap other.chapters}
          sent == {BlocksOf(batches[i]) : i \in DOMAIN batches}
      IN {b \in sent : b \subseteq both} = {b \in other.sent : b \subseteq both}

=============================================================================
