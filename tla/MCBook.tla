------------------------------- MODULE MCBook -------------------------------
(***************************************************************************)
(* Instances of Book for TLC: four paragraphs over three pages.            *)
(***************************************************************************)
EXTENDS Book

Titles == {[n \in 1..4 |-> n \in heads] : heads \in {{}, {1}, {2}, {1, 3}, {2, 4}}}

\* A budget of 7 and tags of 1: 1 and 4 fill it, 1 and 5 are over it by a
\* tag, three of 1 would be within it, 7 is oversized.
Weights == {<<a, b, c, d>> : a, b \in {1, 4, 7}, c \in {1, 5}, d \in {1, 4}}
             \cup {<<1, 0, 1, 1>>, <<0, 1, 1, 4>>}

Entry(level, page, number, titles) ==
  [level |-> level, page |-> page, number |-> number, titles |-> titles]

Outlines ==
  {<<>>, <<Entry(1, 1, 1, {2}), Entry(2, 2, 2, {}), Entry(3, 3, 0, {})>>,
   <<Entry(1, 2, 7, {4}), Entry(1, 2, 0, {})>>}

Notes == {<<>>, <<[page |-> 1, tokens |-> 1], [page |-> 3, tokens |-> 1]>>}

Pages == <<1, 2, 2, 3>>

\* How the titles of a book are set: large, in sizes that grow smaller, in bold,
\* as items of a list of which one is bold text, or as sentences that only the
\* pattern tells.
Style(look, n) ==
  [form |-> IF look = "items" /\ n # 3 THEN "item" ELSE "text",
   size |-> CASE look = "large" -> 16 [] look = "smaller" -> 20 - 2 * n [] OTHER -> 10,
   bold |-> look \in {"bold", "items"}, short |-> look # "sentences",
   marked |-> look \in {"items", "sentences"}]

Plain == [form |-> "text", size |-> 10, bold |-> FALSE, short |-> FALSE, marked |-> FALSE]

Looks == {"large", "smaller", "bold", "items", "sentences"}

Manuscript(titles, look, weights, outline, notes) ==
  [paragraphs |-> [n \in 1..4 |->
     LET style == IF weights[n] = 0 THEN [Plain EXCEPT !.form = "break"]
                  ELSE IF titles[n] THEN Style(look, n) ELSE Plain
     IN [page |-> Pages[n], number |-> IF n = 3 THEN 0 ELSE n, tokens |-> weights[n],
         form |-> style.form, size |-> style.size, bold |-> style.bold, short |-> style.short,
         marked |-> style.marked]],
   outline |-> outline, notes |-> notes]

\* Every paragraph was stripped, and two notes were not.
OnlyNotes == [paragraphs |-> <<>>, outline |-> <<Entry(1, 1, 1, {})>>,
              notes |-> <<[page |-> 1, tokens |-> 1], [page |-> 3, tokens |-> 1]>>]

SomeManuscripts ==
  {Manuscript(t, k, w, o, n) :
     t \in Titles, k \in Looks, w \in Weights, o \in Outlines, n \in Notes}
    \cup {OnlyNotes}

SomeSelections == {{1}, {2}, {1, 2, 3, 4, 7}}

SomeBlocks == 1..6
SomeChapters == 1..5

=============================================================================
