------------------------------ MODULE Cleaning ------------------------------
(***************************************************************************)
(* clean_document of extract/clean.py: the lines an extractor found into   *)
(* paragraphs and notes, one action per pass, in the order of the code.    *)
(*                                                                         *)
(* A page has a number, a height and its lines in reading order.  A line   *)
(* has an id, its page and column, its box, its size in whole points (0    *)
(* when the extractor knows none), the size "cap" of a single letter it    *)
(* may begin with, and a text: the furniture key, the number of            *)
(* characters, the words and what the regular expressions say of it.  A    *)
(* word is a sequence of parts with hyphens between, a part a sequence of  *)
(* syllables, so that "well-being" is <<<<well>>, <<being>>>> and joined   *)
(* it is <<<<well, being>>>>.                                              *)
(***************************************************************************)
EXTENDS Places, SequencesExt

CONSTANTS
  Similar,          \* pairs of furniture keys that _similar takes for one
  MarginPercent,    \* cleaning.furniture_margin_fraction
  FurniturePercent, \* cleaning.header_page_fraction
  NotePercent,      \* cleaning.footnote_size_ratio
  GapTenths,        \* cleaning.paragraph_gap_multiple
  DropCapTenths     \* cleaning.drop_cap_size_ratio

ASSUME CleaningAssumption == FurniturePercent \in Nat

\* The switches of CleaningConfig.
Switches == {"heads", "numbers", "hyphens", "reflow", "caps", "notes"}

VARIABLES
  on,         \* the switches that are on
  pages,      \* RawDocument.pages
  pass,       \* the pass that comes next
  stripped,   \* CleaningAudit.stripped: lines and the reasons
  bodySize,   \* the modal size after the furniture is gone
  body,       \* body_lines
  notes,      \* footnote_paragraphs
  paragraphs, \* the paragraphs
  decisions   \* CleaningAudit.dehyphenations

cleaned == <<pass, stripped, bodySize, body, notes, paragraphs, decisions>>
cleanVars == <<on, pages, cleaned>>

Text ==
  [key : STRING, chars : Nat, bad : Nat, is : SUBSET STRING, words : Seq(Seq(Seq(STRING)))]

Line ==
  [id : Nat, page : Nat, column : Nat, left : Int, right : Int, top : Int, bottom : Int,
   size : Nat, cap : Nat, text : Text]

Is(line, what) == what \in line.text.is

\* The sum of what is counted of each element
SumOf(seq, count(_)) ==
  LET sum[i \in 0..Len(seq)] == IF i = 0 THEN 0 ELSE sum[i - 1] + count(seq[i])
  IN sum[Len(seq)]

LinesOf(ps) == FlattenSeq([p \in DOMAIN ps |-> ps[p].lines])

-----------------------------------------------------------------------------
(* Page furniture *)

\* RawDocument.body_size: the size most characters have, the first of equals
BodySize(ps) ==
  LET lines == LinesOf(ps)
      sizes == {lines[i].size : i \in DOMAIN lines}
      weight(s) == SumOf(lines, LAMBDA l : IF l.size = s THEN l.text.chars ELSE 0)
      modal == {s \in sizes : \A t \in sizes : weight(t) <= weight(s)}
  IN IF lines = <<>> THEN 0 ELSE lines[Min({i \in DOMAIN lines : lines[i].size \in modal})].size

\* In the outer parts of the page
InMargin(page, line) ==
  100 * line.top <= MarginPercent * page.height
    \/ 100 * line.bottom >= (100 - MarginPercent) * page.height

\* _furniture_candidate_indices: small type in the margins
Marginal(page, line, size) ==
  /\ InMargin(page, line)
  /\ size = 0 \/ line.size <= size

PagesWithLines == {p \in DOMAIN pages : pages[p].lines # <<>>}

\* The lines that may be furniture, as pages and positions
Sighted(size) ==
  {s \in UNION {{p} \X DOMAIN pages[p].lines : p \in DOMAIN pages} :
     LET line == pages[s[1]].lines[s[2]]
     IN Marginal(pages[s[1]], line, size) /\ line.text.key # ""}

KeyAt(s) == pages[s[1]].lines[s[2]].text.key

\* A line comes sooner than another.
Sooner(s, t) == s[1] < t[1] \/ (s[1] = t[1] /\ s[2] < t[2])

\* The candidates are taken in this order: the key seen most, then the one seen
\* first.
KeyBefore(k, l, sighted) ==
  LET Seen(m) == {s \in sighted : KeyAt(s) = m}
      more == Cardinality(Seen(k)) - Cardinality(Seen(l))
  IN more > 0 \/ (more = 0 /\ \E s \in Seen(k) : \A t \in Seen(l) : Sooner(s, t))

Alike(k, leader) == k = leader \/ <<k, leader>> \in Similar

\* "merged": the keys that lead a group of similar ones, those that are not like a
\* leader before them
Leaders(sighted) ==
  LET keys == {KeyAt(s) : s \in sighted}
      leads[k \in keys] ==
        ~\E l \in keys \ {k} : Alike(k, l) /\ KeyBefore(l, k, sighted) /\ leads[l]
  IN {k \in keys : leads[k]}

\* The first leader that a key is like
LeaderOf(k, leaders, sighted) ==
  CHOOSE l \in leaders :
    Alike(k, l) /\ \A m \in leaders : Alike(k, m) => m = l \/ KeyBefore(l, m, sighted)

\* Variant: it takes a page more.
ThresholdOver == Max({2, (Cardinality(PagesWithLines) * FurniturePercent) \div 100}) + 1

Threshold == Max({2, (Cardinality(PagesWithLines) * FurniturePercent) \div 100})

\* find_running_furniture: what is on enough pages of the book
Furniture(size) ==
  LET sighted == Sighted(size)
      leaders == Leaders(sighted)
      led == {[at |-> s, by |-> LeaderOf(KeyAt(s), leaders, sighted)] : s \in sighted}
      PagesOf(k) == {x.at[1] : x \in {y \in led : y.by = k}}
      often == {k \in leaders : Cardinality(PagesOf(k)) >= Threshold}
  IN IF Cardinality(PagesWithLines) < 4 THEN {}
     ELSE {pages[x.at[1]].lines[x.at[2]].id : x \in {y \in led : y.by \in often}}

\* The reason to strip a line, "kept" when there is none
Reason(page, line, size, furniture) ==
  IF line.id \in furniture
  THEN IF Is(line, "number") THEN "page-number" ELSE "running-head-or-foot"
  ELSE IF "numbers" \in on /\ Marginal(page, line, size) /\ Is(line, "number")
       THEN "page-number" ELSE "kept"

\* strip_furniture
Strip ==
  /\ pass = "strip"
  /\ LET size == BodySize(pages)
         furniture == IF "heads" \in on THEN Furniture(size) ELSE {}
         reason == [p \in DOMAIN pages |->
                      [i \in DOMAIN pages[p].lines |->
                         [line |-> pages[p].lines[i],
                          why |-> Reason(pages[p], pages[p].lines[i], size, furniture)]]]
         Written(p) == {i \in DOMAIN reason[p] : ~Is(reason[p][i].line, "blank")}
         Kept(p) == {i \in Written(p) : reason[p][i].why = "kept"}
     IN /\ pages' = [p \in DOMAIN pages |->
                       [pages[p] EXCEPT !.lines = At(pages[p].lines, Kept(p))]]
        /\ stripped' = FlattenSeq([p \in DOMAIN pages |-> At(reason[p], Written(p) \ Kept(p))])
  /\ pass' = "split"
  /\ UNCHANGED <<on, bodySize, body, notes, paragraphs, decisions>>

-----------------------------------------------------------------------------
(* Notes *)

\* A sequence cut before each of the positions in "starts"
Runs(seq, starts) ==
  LET cuts == InOrder(DOMAIN seq \cap ({1} \cup starts))
  IN [r \in DOMAIN cuts |->
        SubSeq(seq, cuts[r], IF r = Len(cuts) THEN Len(seq) ELSE cuts[r + 1] - 1)]

\* The small lines that nothing larger follows
SmallFoot(lines, small) == {i \in small : i..Len(lines) \subseteq small}

\* split_footnote_lines: how many lines at the foot of a page are notes
NoteLines(lines, size) ==
  LET small == {i \in DOMAIN lines : lines[i].size > 0 /\ 100 * lines[i].size <= NotePercent * size}
      foot == SmallFoot(lines, small)
      lone == Cardinality(foot) = 1 /\ Is(lines[Len(lines)], "short")
  IN IF "notes" \notin on \/ lone THEN 0 ELSE Cardinality(foot)

\* Variant: a line without a mark belongs to no note unless one has begun.
GroupMarked(lines) ==
  LET marks == {i \in DOMAIN lines : Is(lines[i], "mark")}
  IN IF marks = {} THEN <<>>
     ELSE Runs(SubSeq(lines, Min(marks), Len(lines)), {i - Min(marks) + 1 : i \in marks})

\* group_footnotes: a note begins at a mark
GroupNotes(lines) == Runs(lines, {i \in DOMAIN lines : Is(lines[i], "mark")})

Split ==
  /\ pass = "split"
  /\ bodySize' = BodySize(pages)
  /\ LET count == [p \in DOMAIN pages |-> NoteLines(pages[p].lines, bodySize')]
         Above(p) == SubSeq(pages[p].lines, 1, Len(pages[p].lines) - count[p])
         Foot(p) == SubSeq(pages[p].lines, Len(pages[p].lines) - count[p] + 1, Len(pages[p].lines))
     IN /\ body' = FlattenSeq([p \in DOMAIN pages |-> Above(p)])
        /\ notes' = FlattenSeq([p \in DOMAIN pages |-> GroupNotes(Foot(p))])
  /\ pass' = "reflow"
  /\ UNCHANGED <<on, pages, stripped, paragraphs, decisions>>

-----------------------------------------------------------------------------
(* Paragraphs *)

\* Twice the median of a sequence of numbers, 0 when there are none
TwiceMedian(values) ==
  LET ordered == SortSeq(values, <)
      n == Len(values)
  IN IF n = 0 THEN 0 ELSE ordered[(n + 1) \div 2] + ordered[(n \div 2) + 1]

Gap(previous, current) == current.top - previous.bottom

\* Twice the median height of the lines, of 12 when none has a height
TwiceHeight ==
  LET heights == [i \in DOMAIN body |-> body[i].bottom - body[i].top]
      twice == TwiceMedian(SelectSeq(heights, LAMBDA h : h > 0))
  IN IF twice = 0 THEN 24 ELSE twice

\* Twice the median gap between lines that follow one another in a column
TwiceGap(height) ==
  LET follows == SelectSeq([i \in DOMAIN body |-> i],
                   LAMBDA i : /\ i > 1
                              /\ body[i - 1].page = body[i].page
                              /\ body[i - 1].column = body[i].column
                              /\ -height < 2 * Gap(body[i - 1], body[i])
                              /\ 2 * Gap(body[i - 1], body[i]) < 4 * height)
  IN TwiceMedian([n \in DOMAIN follows |-> Gap(body[follows[n] - 1], body[follows[n]])])

Ends(line) == Is(line, "terminal")

\* A sentence goes on over the page.
Continues(previous, current) == ~Ends(previous) /\ Is(current, "lower")

\* Two lines of one column: a gap, an indent or a short line after the end of a
\* sentence, or a list begins.
BreaksOnPage(previous, current, gap, height, right) ==
  \/ gap >= 0 /\ 100 * Gap(previous, current) > GapTenths * Max({5 * gap, height})
  \/ 5 * (current.left - previous.left) > 2 * height /\ Ends(previous)
  \/ 4 * previous.right < 4 * right - 3 * height /\ Ends(previous)
  \/ Is(current, "bullet") /\ ~Is(previous, "bullet")

\* Variant: a page is looked at before a column.
PageBreaks(previous, current, gap, height, right) ==
  IF current.page # previous.page THEN ~Continues(previous, current)
  ELSE IF current.column # previous.column THEN TRUE
  ELSE BreaksOnPage(previous, current, gap, height, right)

\* should_break
ShouldBreak(previous, current, gap, height, right) ==
  IF current.column # previous.column THEN TRUE
  ELSE IF current.page # previous.page THEN ~Continues(previous, current)
  ELSE BreaksOnPage(previous, current, gap, height, right)

\* _join; the joints say how a line is tied to the one before it.
Paragraph(lines) ==
  [lines |-> lines, capped |-> FALSE,
   refs |-> IF {"notes", "reflow"} \subseteq on /\ bodySize > 0
            THEN {lines[i].id : i \in {j \in DOMAIN lines : Is(lines[j], "anchor")}} ELSE {},
   joints |-> [i \in 2..Len(lines) |-> IF Is(lines[i - 1], "hyphen") THEN "open" ELSE "space"]]

\* mark_footnote_anchors and group_paragraphs
Reflow ==
  /\ pass = "reflow"
  /\ LET height == TwiceHeight
         gap == TwiceGap(height)
         right == Max({0} \cup {body[i].right : i \in DOMAIN body})
         starts == IF "reflow" \notin on THEN DOMAIN body
                   ELSE {i \in DOMAIN body \ {1} :
                           ShouldBreak(body[i - 1], body[i], gap, height, right)}
         runs == Runs(body, starts)
     IN paragraphs' = [r \in DOMAIN runs |-> Paragraph(runs[r])]
  /\ pass' = "caps"
  /\ UNCHANGED <<on, pages, stripped, bodySize, body, notes, decisions>>

\* A large letter that begins a paragraph and is not all of it
HasDropCap(para) ==
  /\ para.lines[1].cap > 0
  /\ 10 * para.lines[1].cap >= DropCapTenths * bodySize
  /\ Len(para.lines) > 1 \/ para.lines[1].text.chars > 1

\* repair_drop_caps
RepairDropCaps ==
  /\ pass = "caps"
  /\ paragraphs' = [n \in DOMAIN paragraphs |->
       [paragraphs[n] EXCEPT !.capped =
          "caps" \in on /\ bodySize > 0 /\ HasDropCap(paragraphs[n])]]
  /\ pass' = "hyphens"
  /\ UNCHANGED <<on, pages, stripped, bodySize, body, notes, decisions>>

-----------------------------------------------------------------------------
(* Hyphens at the ends of lines *)

\* The words of two pieces of text: the last part of one and the first part of
\* the other become one part.
Welded(left, right) ==
  IF left = <<>> \/ right = <<>> THEN left \o right
  ELSE LET first == Last(left)  second == Head(right)
       IN Front(left) \o <<Front(first) \o <<Last(first) \o Head(second)>> \o Tail(second)>>
            \o Tail(right)

\* The same with the hyphen between them
Hyphenated(left, right) ==
  IF left = <<>> \/ right = <<>> THEN left \o right
  ELSE Front(left) \o <<Last(left) \o Head(right)>> \o Tail(right)

\* The words of a paragraph with its open joints welded or hyphenated
WordsOf(para, hyphen) ==
  FoldLeft(LAMBDA words, i :
             LET more == para.lines[i].text.words
             IN IF para.joints[i] # "open" THEN words \o more
                ELSE IF hyphen THEN Hyphenated(words, more) ELSE Welded(words, more),
           para.lines[1].text.words, [k \in 1..(Len(para.lines) - 1) |-> k + 1])

\* "corpus": each paragraph is counted once in either form.
Corpus ==
  FlattenSeq([n \in DOMAIN paragraphs |-> WordsOf(paragraphs[n], FALSE)])
    \o FlattenSeq([n \in DOMAIN paragraphs |-> WordsOf(paragraphs[n], TRUE)])

Count(word, words) == Len(SelectSeq(words, LAMBDA w : w = word))

\* Where the words on both sides of an open joint are letters
Resolvable(para, i) ==
  /\ para.joints[i] = "open"
  /\ para.lines[i - 1].text.words # <<>> /\ para.lines[i].text.words # <<>>

LeftHalf(para, i) == Last(Last(para.lines[i - 1].text.words))
RightHalf(para, i) == Head(Head(para.lines[i].text.words))

\* Variant: a tie keeps the hyphen.
JoinsOnlyIfMore(para, i, corpus) ==
  Count(<<LeftHalf(para, i) \o RightHalf(para, i)>>, corpus)
    > Count(<<LeftHalf(para, i), RightHalf(para, i)>>, corpus)

Joins(para, i, corpus) ==
  Count(<<LeftHalf(para, i) \o RightHalf(para, i)>>, corpus)
    >= Count(<<LeftHalf(para, i), RightHalf(para, i)>>, corpus)

\* What becomes of a joint.  With the switch off only the marker goes.
Resolved(para, i, corpus) ==
  CASE para.joints[i] # "open" -> para.joints[i]
    [] "hyphens" \in on /\ Resolvable(para, i) /\ Joins(para, i, corpus) -> "joined"
    [] OTHER -> "hyphen"

\* dehyphenate, for the paragraphs; the notes have no open joints.
Dehyphenate ==
  /\ pass = "hyphens"
  /\ LET corpus == Corpus IN
     paragraphs' = [n \in DOMAIN paragraphs |->
       [paragraphs[n] EXCEPT !.joints =
          [i \in DOMAIN @ |-> Resolved(paragraphs[n], i, corpus)]]]
  /\ decisions' = IF "hyphens" \notin on THEN {}
                  ELSE {d \in UNION {{n} \X DOMAIN paragraphs[n].joints : n \in DOMAIN paragraphs} :
                          Resolvable(paragraphs[d[1]], d[2])}
  /\ pass' = "clean"
  /\ UNCHANGED <<on, pages, stripped, bodySize, body, notes>>

Clean == Strip \/ Split \/ Reflow \/ RepairDropCaps \/ Dehyphenate

\* Nothing is to be cleaned yet.
NotCleaning ==
  /\ pass = "none" /\ stripped = <<>> /\ bodySize = 0 /\ body = <<>>
  /\ notes = <<>> /\ paragraphs = <<>> /\ decisions = {}

\* clean_document is called.
BeginCleaning ==
  /\ pass' = "strip" /\ stripped' = <<>> /\ bodySize' = 0 /\ body' = <<>>
  /\ notes' = <<>> /\ paragraphs' = <<>> /\ decisions' = {}

=============================================================================
