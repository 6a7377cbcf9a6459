----------------------------- MODULE Extraction -----------------------------
(***************************************************************************)
(* From a PDF to clean paragraphs: probe_pdf and select_extractor decide   *)
(* how to read the book, an extractor of extract/ reads its lines, the     *)
(* vision fallback reads the worst pages again, and Cleaning does the      *)
(* rest.  The commands that come here are "extract" (and estimate),        *)
(* "translate" of a book whose job has no ir.json yet, and "vision", which *)
(* is translate --vision-fallback.  The user may save another book under   *)
(* the same name between two of them.                                      *)
(*                                                                         *)
(* A book has a name for its contents, under which it is kept in Books,    *)
(* says whether its script has vowels to count, and has sheets. A sheet    *)
(* has its size, the lines of its text layer in the order of the file, the *)
(* counts of that text the probe takes, the lines pdftotext -layout prints *)
(* of it and the lines that an OCR engine or a model sees on its image.    *)
(***************************************************************************)
EXTENDS Cleaning

CONSTANTS
  Books,            \* the books the user has, by the names of their contents
  Replacements,     \* which is saved over which
  Requests,         \* the commands, with --extractor and --ocr-lang
  SwitchSets,       \* the cleaning configurations
  ToolSets,         \* what may be installed of pdftotext and ocrmypdf
  MaxCommands,      \* bound: commands in a behaviour
  SamplePages,      \* probe.sample_pages
  SkipPercent,      \* probe.sample_skip_front_fraction
  MinChars,         \* probe.min_chars_for_text_layer
  GarblePercent,    \* probe.garbling_replacement_ratio and garbling_control_ratio
  OddPercent,       \* probe.garbling_nonword_ratio
  GutterPercent,    \* probe.column_gap_fraction
  SharePercent,     \* probe.column_min_share
  VisionCap         \* extraction.vision_max_pages

Sheet ==
  [height : Nat, width : Nat, lines : Seq(Line), layout : Seq(Line), image : Seq(Line),
   counts : [chars : Nat, bad : Nat, odd : Nat, spaces : Nat, letters : Nat, vowels : Nat]]

\* The ids of what is read in one way, and of all that can be read on a sheet
IdsIn(lines) == {lines[i].id : i \in DOMAIN lines}
IdsOn(sheet) == IdsIn(sheet.lines) \cup IdsIn(sheet.layout) \cup IdsIn(sheet.image)

\* The places of the lines that have a text
WithText(lines) == {i \in DOMAIN lines : ~Is(lines[i], "blank")}

\* An id is that of one line of one sheet, however the sheet is read.  A text layer
\* has no lines without text, and what is seen on an image begins with one.
ASSUME ExtractionAssumption ==
  /\ VisionCap \in Nat
  /\ \A b \in DOMAIN Books :
       /\ Books[b] \in [alphabetic : BOOLEAN, sheets : Seq(Sheet)]
       /\ \A p \in DOMAIN Books[b].sheets :
            LET sheet == Books[b].sheets[p]
            IN /\ \A lines \in {sheet.lines, sheet.layout, sheet.image} :
                    \A i, j \in DOMAIN lines : i # j => lines[i].id # lines[j].id
               /\ \A i \in DOMAIN sheet.lines : ~Is(sheet.lines[i], "blank")
               /\ sheet.image # <<>> => ~Is(sheet.image[1], "blank")
               /\ \A q \in DOMAIN Books[b].sheets \ {p} :
                    IdsOn(sheet) \cap IdsOn(Books[b].sheets[q]) = {}

VARIABLES
  book, saved,      \* the file and its mtime
  clock,            \* file times
  ocred,            \* the *.ocr.pdf of each directory: its book and its mtime
  filed,            \* the books whose job has an ir.json
  tools,            \* what is installed
  commands,         \* commands so far
  request, stage,   \* the command and how far it has come
  used,             \* extractor_name
  handed,           \* the ids of the lines the cleaner was given
  asked,            \* page numbers transcribe_pages has still to read
  calls,            \* how many it has read
  answered, failed, \* VisionResult
  fallback, unread  \* what the report says of them

files == <<book, saved, ocred, filed, clock>>
vision == <<asked, calls, answered, failed, fallback, unread>>
vars == <<cleanVars, files, tools, commands, request, stage, used, handed, vision>>

NoRequest == [command |-> "none", extractor |-> "auto", lang |-> "none"]
NoLayer == [of |-> "none", made |-> 0]

-----------------------------------------------------------------------------
(* The probe *)

\* sample_page_numbers: spread over the pages behind the front matter
Sampled(n) ==
  LET wanted == Min({SamplePages, n})
      start == (n * SkipPercent) \div 100
      span == Max({n - start, 1})
  IN {Min({start + (span * (i + 1)) \div (wanted + 1), n - 1}) + 1 : i \in 0..(wanted - 1)}

Total(counts, what) ==
  FoldFunctionOnSet(LAMBDA c, n : n + c[what], 0, counts, DOMAIN counts)

\* score_garbling says "garbled".
Garbled(b) ==
  LET sampled == [p \in Sampled(Len(b.sheets)) |-> b.sheets[p].counts]
      chars == Total(sampled, "chars")
      letters == Total(sampled, "letters")
      Between(part, whole, low, high) == 100 * part \in (low * whole)..(high * whole)
      spaced == Between(Total(sampled, "spaces"), chars, 8, 30)
      voiced == letters > 0 /\ Between(Total(sampled, "vowels"), letters, 25, 60)
  IN /\ chars > 0
     /\ \/ 100 * Total(sampled, "bad") > GarblePercent * chars
        \/ 100 * Total(sampled, "odd") > OddPercent * chars
        \/ b.alphabetic /\ ~spaced /\ ~voiced

HasTextLayer(b) ==
  Total([p \in Sampled(Len(b.sheets)) |-> b.sheets[p].counts], "chars") >= MinChars

\* _recommend
Recommended(b) == IF ~HasTextLayer(b) \/ Garbled(b) THEN "ocr" ELSE "pymupdf"

\* build_extractor and available
Available(name) ==
  CASE name = "poppler" -> "pdftotext" \in tools
    [] name = "ocr" -> "ocrmypdf" \in tools
    [] OTHER -> TRUE

-----------------------------------------------------------------------------
(* The extractors *)

\* Text away from the margins, whose lines decide whether there are two columns
Inside(sheet) ==
  {i \in DOMAIN sheet.lines :
     /\ 100 * sheet.lines[i].top > MarginPercent * sheet.height
     /\ 100 * sheet.lines[i].bottom < (100 - MarginPercent) * sheet.height}

Extent(lines, is) == Max({lines[i].bottom : i \in is}) - Min({lines[i].top : i \in is})

\* The lines right of a gutter that is wide enough and has enough on either
\* side; none when there is one column (assign_columns)
RightOfGutter(sheet) ==
  LET in == Inside(sheet)
      starts == {sheet.lines[i].left : i \in in}
      gaps == {g \in starts \X starts : g[1] < g[2] /\ ~\E x \in starts : g[1] < x /\ x < g[2]}
      widest == {g \in gaps : \A h \in gaps : h[2] - h[1] <= g[2] - g[1]}
      from == Min({g[2] : g \in widest})
      right == {i \in in : sheet.lines[i].left >= from}
      left == in \ right
      minority == IF Cardinality(left) <= Cardinality(right) THEN left ELSE right
  IN IF /\ Cardinality(in) >= 6
        /\ \E g \in widest : 100 * (g[2] - g[1]) >= GutterPercent * sheet.width
        /\ Cardinality(minority) >= 3
        /\ 100 * Cardinality(minority) >= SharePercent * Cardinality(in)
        /\ 4 * Extent(sheet.lines, minority) >= Extent(sheet.lines, in)
     THEN right ELSE {}

\* Variant: rows across both columns.
AcrossColumns(l, m) == l.top < m.top \/ (l.top = m.top /\ l.left < m.left)

\* _sort_reading_order
ReadBefore(l, m) ==
  \/ l.column < m.column
  \/ l.column = m.column /\ (l.top < m.top \/ (l.top = m.top /\ l.left < m.left))

\* PyMuPDFExtractor._page_to_raw
PyMuPdfLines(sheet) ==
  LET right == RightOfGutter(sheet)
      columned == [i \in DOMAIN sheet.lines |->
                     [sheet.lines[i] EXCEPT !.column = IF i \in right THEN 1 ELSE 0]]
      before == {p \in (DOMAIN columned) \X (DOMAIN columned) :
                   \/ ReadBefore(columned[p[1]], columned[p[2]])
                   \/ p[1] < p[2] /\ ~ReadBefore(columned[p[2]], columned[p[1]])}
      order == Ranked(DOMAIN columned, before)
  IN [n \in DOMAIN order |-> columned[order[n]]]

\* PopplerExtractor._text_to_document: rows of plain text
PopplerLines(sheet) ==
  At([i \in DOMAIN sheet.layout |->
        [sheet.layout[i] EXCEPT !.top = 12 * (i - 1), !.bottom = 12 * i, !.size = 0,
                                !.cap = 0, !.text.is = @ \ {"anchor"}]],
     WithText(sheet.layout))

\* The pages of a RawDocument
RawPages(b, extractor) ==
  [p \in DOMAIN b.sheets |->
     [number |-> p, height |-> IF extractor = "poppler" THEN 792 ELSE b.sheets[p].height,
      lines |-> IF extractor = "poppler" THEN PopplerLines(b.sheets[p])
                ELSE PyMuPdfLines(b.sheets[p]),
      extractor |-> extractor]]

\* A PDF with the text layer that ocrmypdf gives it
WithImageText(b) ==
  [b EXCEPT !.sheets = [p \in DOMAIN b.sheets |->
     [b.sheets[p] EXCEPT !.lines = At(b.sheets[p].image, WithText(b.sheets[p].image))]]]

\* The directory for the OCR layer: the one of the job, named for the book, only
\* when prepare_job is the caller
OcrDir == IF request.command = "translate" THEN book ELSE "beside"

\* Variant: a layer once made is good for ever.
AnyLayer(layer) == layer # NoLayer

Reusable(layer) == layer # NoLayer /\ layer.made >= saved

-----------------------------------------------------------------------------
(* The pages that went wrong *)

Chars(page) == SumOf(page.lines, LAMBDA l : l.text.chars)
Bad(page) == SumOf(page.lines, LAMBDA l : l.text.bad)
\* len(text), the line breaks included
TextLength(page) == Chars(page) + Max({Len(page.lines) - 1, 0})

Sludge(page) == 100 * Bad(page) > GarblePercent * TextLength(page)

\* Length of a typical page: the upper median of those with text
Typical(ps) ==
  LET lengths == SortSeq(SelectSeq([p \in DOMAIN ps |-> Chars(ps[p])], LAMBDA n : n > 0), <)
  IN IF lengths = <<>> THEN 0 ELSE lengths[(Len(lengths) \div 2) + 1]

\* The pages with sludge, and the short ones
Suspects(ps) ==
  {p \in DOMAIN ps : Sludge(ps[p]) \/ 100 * Chars(ps[p]) < Max({15 * Typical(ps), 4000})}

\* Sludge first, then the emptiest, of equals the later page
Worse(p, q) ==
  IF Sludge(p) # Sludge(q) THEN Sludge(p)
  ELSE LET by == IF Sludge(p) THEN Bad(q) * TextLength(p) - Bad(p) * TextLength(q)
                 ELSE Chars(p) - Chars(q)
       IN by < 0 \/ (by = 0 /\ p.number > q.number)

\* find_bad_pages: the worst of them, worst first, no page twice.  There is one
\* such list.
BadPages(ps) ==
  IF Typical(ps) = 0 THEN {<<>>}
  ELSE {worst \in [1..Min({VisionCap, Cardinality(Suspects(ps))}) -> Suspects(ps)] :
          \A n \in DOMAIN worst :
            /\ \A m \in 1..(n - 1) : worst[m] # worst[n]
            /\ \A p \in Suspects(ps) \ {worst[m] : m \in 1..n} : Worse(ps[worst[n]], ps[p])}

\* The lines of a transcription: text in the body size, one below the other, with
\* a space where the answer has an empty line
Transcribed(sheet, size) ==
  At([i \in DOMAIN sheet.image |->
        [sheet.image[i] EXCEPT !.size = size, !.cap = 0, !.column = 0, !.left = 0,
           !.right = (11 * size * sheet.image[i].text.chars) \div 20,
           !.top = ((i - 1) * size * 6) \div 5, !.bottom = (i * size * 6) \div 5,
           !.text.is = @ \ {"anchor"}]],
     WithText(sheet.image))

-----------------------------------------------------------------------------
(* Commands *)

Idle == stage \in {"idle", "done", "error"}

Init ==
  /\ on \in SwitchSets /\ pages = <<>> /\ NotCleaning
  /\ book \in DOMAIN Books /\ saved = 0 /\ clock = 0
  /\ ocred = [dir \in DOMAIN Books \cup {"beside"} |-> NoLayer]
  /\ filed = {} /\ tools \in ToolSets /\ commands = 0
  /\ request = NoRequest /\ stage = "idle" /\ used = "none" /\ handed = {}
  /\ asked = <<>> /\ calls = 0 /\ answered = {} /\ failed = {} /\ fallback = {} /\ unread = {}

\* What a command kept in memory is gone.
Forgotten ==
  /\ pages' = <<>> /\ pass' = "none" /\ stripped' = <<>> /\ bodySize' = 0 /\ body' = <<>>
  /\ notes' = <<>> /\ paragraphs' = <<>> /\ decisions' = {} /\ used' = "none" /\ handed' = {}
  /\ asked' = <<>> /\ calls' = 0 /\ answered' = {} /\ failed' = {} /\ fallback' = {} /\ unread' = {}

\* The user saves another book over this one.
Replace ==
  /\ Idle /\ commands < MaxCommands
  /\ book' \in {b \in DOMAIN Books : <<book, b>> \in Replacements}
  /\ clock' = clock + 1 /\ saved' = clock'
  /\ stage' = "idle" /\ request' = NoRequest /\ Forgotten
  /\ UNCHANGED <<on, ocred, filed, tools, commands>>

\* A command that extracts; translate does not when the job has an ir.json.
Call ==
  /\ Idle /\ commands < MaxCommands
  /\ request' \in {r \in Requests : r.command = "translate" => book \notin filed}
  /\ commands' = commands + 1 /\ stage' = "probe" /\ Forgotten
  /\ UNCHANGED <<on, files, tools>>

\* An ExtractionError
Fail(at) ==
  /\ stage = at /\ stage' = "error"
  /\ UNCHANGED <<cleanVars, files, tools, commands, request, used, handed, vision>>

\* probe_pdf and select_extractor.  The fallback to PyMuPDF is out of reach: the
\* probe recommends nothing else but OCR, which is not replaced.
Select ==
  LET name == IF request.extractor = "auto" THEN Recommended(Books[book]) ELSE request.extractor
  IN IF ~Available(name) THEN Fail("probe")
     ELSE /\ stage = "probe" /\ stage' = "extract" /\ used' = name
          /\ UNCHANGED <<cleanVars, files, tools, commands, request, handed, vision>>

\* The cleaner gets the pages.
Hand(ps) == handed' = {l.id : l \in ToSet(LinesOf(ps))} /\ BeginCleaning

\* extract_raw is given the pages; without a line it raises.
Extracted(ps) ==
  /\ pages' = ps
  /\ CASE LinesOf(ps) = <<>> -> stage' = "error" /\ UNCHANGED <<cleaned, handed>>
       [] LinesOf(ps) # <<>> /\ request.command = "vision" ->
            stage' = "suspect" /\ UNCHANGED <<cleaned, handed>>
       [] OTHER -> stage' = "clean" /\ Hand(ps)

\* PyMuPDFExtractor.extract and PopplerExtractor.extract
ExtractText ==
  /\ stage = "extract" /\ used \in {"pymupdf", "poppler"}
  /\ Extracted(RawPages(Books[book], used))
  /\ UNCHANGED <<on, files, tools, commands, request, used, vision>>

\* pdftotext fails or runs out of time, and so does ocrmypdf; OCRExtractor is
\* given no language.
ExtractorFails ==
  /\ used = "poppler" \/ (used = "ocr" /\ (request.lang = "none" \/ ~Reusable(ocred[OcrDir])))
  /\ Fail("extract")

\* OCRExtractor.extract: the layer made before, or a new one
ExtractOcr ==
  /\ stage = "extract" /\ used = "ocr" /\ request.lang # "none"
  /\ IF Reusable(ocred[OcrDir]) THEN UNCHANGED <<ocred, clock>>
     ELSE /\ clock' = clock + 1
          /\ ocred' = [ocred EXCEPT ![OcrDir] = [of |-> book, made |-> clock']]
  /\ Extracted(RawPages(WithImageText(Books[ocred'[OcrDir].of]), used))
  /\ UNCHANGED <<on, book, saved, filed, tools, commands, request, used, vision>>

-----------------------------------------------------------------------------
(* extract_document_with_vision *)

\* find_bad_pages, and without one the pages go to the cleaner as they are.
Suspect ==
  /\ stage = "suspect"
  /\ asked' \in BadPages(pages)
  /\ IF asked' = <<>> THEN stage' = "clean" /\ Hand(pages)
     ELSE stage' = "vision" /\ UNCHANGED <<cleaned, handed>>
  /\ UNCHANGED <<on, pages, files, tools, commands, request, used,
                 calls, answered, failed, fallback, unread>>

\* transcribe_pages: one page, read or not
Transcribe ==
  /\ stage = "vision" /\ asked # <<>>
  /\ asked' = Tail(asked) /\ calls' = calls + 1
  /\ \/ /\ Books[book].sheets[Head(asked)].image # <<>>
        /\ answered' = answered \cup {Head(asked)} /\ UNCHANGED failed
     \/ failed' = failed \cup {Head(asked)} /\ UNCHANGED answered
  /\ UNCHANGED <<cleanVars, files, tools, commands, request, stage, used, handed, fallback, unread>>

\* rasterize_page fails outside the try, and with it the command.
RasterizeFails == asked # <<>> /\ Fail("vision")

\* The size of a line the model has read
NewSize == IF BodySize(pages) = 0 THEN 10 ELSE BodySize(pages)

\* Variant: the report is left to the caller.
ReportNothing(done, missed) == fallback' = {} /\ unread' = {}

\* What the report says; nothing at all when no page was read
Report(done, missed) ==
  /\ fallback' = done
  /\ unread' = IF done = {} THEN {} ELSE missed

\* apply_transcriptions
Apply ==
  /\ stage = "vision" /\ asked = <<>>
  /\ pages' = [p \in DOMAIN pages |->
       IF pages[p].number \notin answered THEN pages[p]
       ELSE [pages[p] EXCEPT !.lines = Transcribed(Books[book].sheets[p], NewSize), !.extractor = "vision"]]
  /\ Report(answered, failed)
  /\ stage' = "clean" /\ Hand(pages')
  /\ UNCHANGED <<on, files, tools, commands, request, used, asked, calls, answered, failed>>

CleanPass ==
  /\ stage = "clean" /\ Clean
  /\ UNCHANGED <<files, tools, commands, request, stage, used, handed, vision>>

\* build_extraction_result returns; prepare_job saves ir.json.
Finish ==
  /\ stage = "clean" /\ pass = "clean"
  /\ stage' = "done"
  /\ filed' = IF request.command = "extract" THEN filed ELSE filed \cup {book}
  /\ UNCHANGED <<cleanVars, book, saved, ocred, clock, tools, commands, request, used, handed, vision>>

Next ==
  \/ Replace \/ Call \/ Select \/ ExtractText \/ ExtractOcr \/ ExtractorFails
  \/ Suspect \/ Transcribe \/ RasterizeFails \/ Apply \/ CleanPass \/ Finish

Spec == Init /\ [][Next]_vars

-----------------------------------------------------------------------------
(* Properties *)

Ids(lines) == [i \in DOMAIN lines |-> lines[i].id]

\* Where the lines are that were not stripped
Placed ==
  CASE pass \in {"strip", "split"} -> LinesOf(pages)
    [] pass = "reflow" -> body \o FlattenSeq(notes)
    [] OTHER -> FlattenSeq([n \in DOMAIN paragraphs |-> paragraphs[n].lines]) \o FlattenSeq(notes)

\* The cleaner loses nothing and repeats nothing: after every pass each line it
\* was handed is in one place, stripped with a reason, waiting, in one paragraph
\* or in one note.
NothingLost ==
  stage = "clean" =>
    LET ids == Ids([n \in DOMAIN stripped |-> stripped[n].line]) \o Ids(Placed)
    IN IsInjective(ids) /\ ToSet(ids) = handed

\* The ids of the printed lines in a line of the body, left to right: its own, or
\* those of all that stand in the row when pdftotext printed it
PrintedIn(l) ==
  LET sheet == Books[book].sheets[l.page]
      rows == {i \in DOMAIN sheet.layout : sheet.layout[i].id = l.id}
      beside == {i \in DOMAIN sheet.lines : \E r \in rows : sheet.lines[i].top = sheet.layout[r].top}
      order == Ranked(beside, {p \in beside \X beside :
                                 sheet.lines[p[1]].left < sheet.lines[p[2]].left})
  IN IF pages[l.page].extractor # "poppler" THEN <<l.id>>
     ELSE [n \in DOMAIN order |-> sheet.lines[order[n]].id]

\* Lines are in the order of the print, which is that of the ids: the left column
\* before the right one, page after page.  Folios left in are not text.
AsPrinted(lines) ==
  LET text == SelectSeq(lines, LAMBDA l : ~Is(l, "number"))
      printed == FlattenSeq([n \in DOMAIN text |-> PrintedIn(text[n])])
  IN \A i \in 2..Len(printed) : printed[i - 1] < printed[i]

\* The line stands over two columns, those of some row of its sheet, and does not
\* begin where the left one does.
Astride(l) ==
  LET lines == ToSet(Books[book].sheets[l.page].lines)
  IN \E m, n \in lines :
       /\ m.top = n.top /\ m.right < n.left
       /\ m.left < l.left /\ l.left < m.right /\ n.left < l.right

\* A book is read in the order it is printed in, but for the rows that pdftotext
\* prints across the columns, and the headings in the middle over two columns,
\* which assign_columns may take for lines of the right one.
ReadingOrder ==
  pass = "clean" =>
    AsPrinted(SelectSeq(body, LAMBDA l : Len(PrintedIn(l)) <= 1 /\ ~Astride(l)))

\* The paragraphs, one after the other, are the text that was read, in its order,
\* and no paragraph goes over a column, or over a page unless a sentence does.
ParagraphsAreTheText ==
  pass \in {"caps", "hyphens", "clean"} =>
    /\ FlattenSeq([n \in DOMAIN paragraphs |-> paragraphs[n].lines]) = body
    /\ \A n \in DOMAIN paragraphs : \A i \in DOMAIN paragraphs[n].joints :
         LET l == paragraphs[n].lines[i - 1]  m == paragraphs[n].lines[i]
         IN l.column = m.column /\ (l.page # m.page => Continues(l, m))

Keys(sighted) == {KeyAt(s) : s \in sighted}

\* The pages with a line that has the key, and those with one that is like it
On(k, sighted) == {s[1] : s \in {u \in sighted : KeyAt(u) = k}}
Resembling(k, sighted) == {s[1] : s \in {u \in sighted : Alike(KeyAt(u), k)}}

\* The running heads are looked for.
LooksForHeads ==
  pass = "strip" /\ pass' = "split" /\ "heads" \in on /\ Cardinality(PagesWithLines) >= 4

IdAt(s) == pages[s[1]].lines[s[2]].id

\* What strip_furniture has taken out, for which reason
Gone(reasons) ==
  {stripped'[n].line.id : n \in {m \in DOMAIN stripped' : stripped'[m].why \in reasons}}

\* What stands in the margins of header_page_fraction of the pages or more, of two
\* at least, is stripped wherever it stands there; and what is stripped as a running
\* head is like something on two pages at least, on so many that one more would be
\* above the fraction.
HeadsOfTheBook ==
  [][LooksForHeads =>
       LET sighted == Sighted(BodySize(pages))
           all == FurniturePercent * Cardinality(PagesWithLines)
       IN \A s \in sighted :
            /\ LET many == Cardinality(On(KeyAt(s), sighted))
               IN many >= 2 /\ 100 * many >= all
                    => IdAt(s) \in Gone({"running-head-or-foot", "page-number"})
            /\ IdAt(s) \in Gone({"running-head-or-foot"}) =>
                 \E k \in Keys(sighted) :
                   LET many == Cardinality(Resembling(k, sighted))
                   IN Alike(KeyAt(s), k) /\ many >= 2 /\ 100 * (many + 1) > all
    ]_vars

\* The joint before line i was a hyphen between letters.
Broken(para, i) ==
  /\ i \in DOMAIN para.joints /\ Is(para.lines[i - 1], "hyphen")
  /\ para.lines[i - 1].text.words # <<>> /\ para.lines[i].text.words # <<>>

\* The words of a line that no broken joint touches
Whole(para, i) ==
  LET words == para.lines[i].text.words
  IN SubSeq(words, IF Broken(para, i) THEN 2 ELSE 1,
            IF Broken(para, i + 1) THEN Len(words) - 1 ELSE Len(words))

\* The word broken before line i has two parts, one on either line.
TwoParts(para, i) ==
  LET before == para.lines[i - 1].text.words  after == para.lines[i].text.words
  IN /\ Len(Last(before)) = 1 /\ (Broken(para, i - 1) => Len(before) > 1)
     /\ Len(Head(after)) = 1 /\ (Broken(para, i + 1) => Len(after) > 1)

\* A two-part word broken at the end of a line gets the form that the lines of
\* the book have more often elsewhere, unbroken; joined when it is a tie.
HyphensFollowTheBook ==
  stage = "clean" /\ pass = "clean" /\ {"hyphens", "reflow"} \subseteq on =>
    LET whole == FlattenSeq([n \in DOMAIN paragraphs |->
                   FlattenSeq([i \in DOMAIN paragraphs[n].lines |-> Whole(paragraphs[n], i)])])
    IN \A n \in DOMAIN paragraphs : \A i \in DOMAIN paragraphs[n].joints :
         LET para == paragraphs[n] IN
         Broken(para, i) /\ TwoParts(para, i) =>
           (para.joints[i] = "joined" <=>
              Count(<<LeftHalf(para, i) \o RightHalf(para, i)>>, whole)
                >= Count(<<LeftHalf(para, i), RightHalf(para, i)>>, whole))

\* Extractors are never mixed without a word of it: the text of a page is the
\* model's if and only if the report names the page, and else the one extractor's
\* that was chosen; unless nothing was read at all it names the pages that were
\* asked for in vain too; and no more are asked for than the cap allows.
NeverSilentlyMixed ==
  /\ calls <= VisionCap
  /\ stage \in {"clean", "done"} =>
       /\ \A p \in DOMAIN pages : pages[p].extractor = IF pages[p].number \in fallback
                                                       THEN "vision" ELSE used
       /\ fallback # {} => unread = failed
       /\ Cardinality(fallback \cup failed) = calls

\* The text is that of the book the command was given, not of one that was there
\* before, and when the choice is the program's and the probe found the layer
\* empty or garbled, none of it is from that layer.
TextOfTheBook ==
  stage = "clean" =>
    LET sheets == Books[book].sheets
        printed == UNION {IdsIn(sheets[p].image) : p \in DOMAIN sheets}
    IN /\ handed \subseteq UNION {IdsOn(sheets[p]) : p \in DOMAIN sheets}
       /\ request.extractor = "auto" /\ Recommended(Books[book]) = "ocr" => handed \subseteq printed
=============================================================================
