-------------------------- MODULE ExtractionProofs --------------------------
(***************************************************************************)
(* Proofs about Extraction and its Cleaning, for every book, tool, switch, *)
(* threshold and order of commands: what a model has read is what the      *)
(* report names; the text is that of the book the command was given; the   *)
(* cleaner loses nothing; running heads are what the margins repeat; and   *)
(* the paragraphs are the text.                                            *)
(*                                                                         *)
(* The argument follows a command.  Until the answers are applied all      *)
(* pages are the chosen extractor's, nothing is reported, and a page is    *)
(* asked for once.  What is read off a sheet has ids of that sheet, each   *)
(* once, so that the cleaner is given each line once; each of its passes   *)
(* divides the lines it finds, at what it takes for a head, a note or the  *)
(* end of a paragraph, and what is divided is neither lost nor doubled.    *)
(***************************************************************************)
EXTENDS Extraction, SequenceFacts

\* The file is one of the books, and so is the one a layer was made of.
FilesKnown ==
  /\ book \in DOMAIN Books
  /\ DOMAIN ocred = DOMAIN Books \cup {"beside"}
  /\ \A dir \in DOMAIN ocred : ocred[dir] = NoLayer \/ ocred[dir].of \in DOMAIN Books

\* There are finitely many pages, and each says where its text is from.
PagesMade ==
  /\ IsFiniteSet(DOMAIN pages)
  /\ \A p \in DOMAIN pages : {"number", "lines", "extractor"} \subseteq DOMAIN pages[p]

\* Each page is asked for once, within the cap.
AskedOnce ==
  /\ asked \in Seq(DOMAIN pages)
  /\ calls \in Nat /\ calls + Len(asked) <= VisionCap
  /\ \A m, n \in DOMAIN asked : m # n => asked[m] # asked[n]
  /\ \A n \in DOMAIN asked : asked[n] \notin answered \cup failed
  /\ IsFiniteSet(answered \cup failed) /\ Cardinality(answered \cup failed) = calls

NothingAsked == asked = <<>> /\ calls = 0 /\ answered = {} /\ failed = {}

\* Nothing is reported before the answers are applied, and then all of it.
Told ==
  /\ stage \in {"idle", "probe", "extract", "suspect"} => NothingAsked
  /\ stage \in {"probe", "extract", "suspect", "vision"} => fallback = {}
  /\ stage \in {"suspect", "vision"} => \A p \in DOMAIN pages : pages[p].extractor = used
  /\ stage \in {"clean", "done"} =>
       /\ fallback = answered /\ (fallback # {} => unread = failed)
       /\ \A p \in DOMAIN pages :
            pages[p].extractor = IF pages[p].number \in fallback THEN "vision" ELSE used

Inv == FilesKnown /\ PagesMade /\ AskedOnce /\ Told

-----------------------------------------------------------------------------
\* A book has finitely many sheets, each with its lines.
LEMMA SheetsAre ==
  ASSUME NEW b \in DOMAIN Books
  PROVE  /\ "sheets" \in DOMAIN Books[b] /\ IsFiniteSet(DOMAIN Books[b].sheets)
         /\ Len(Books[b].sheets) \in Nat
         /\ DOMAIN Books[b].sheets = 1..Len(Books[b].sheets)
         /\ \A p \in DOMAIN Books[b].sheets :
              /\ Books[b].sheets[p] \in Sheet
              /\ Books[b].sheets[p].lines \in Seq(Line)
              /\ Books[b].sheets[p].layout \in Seq(Line)
              /\ Books[b].sheets[p].image \in Seq(Line)
<1> DEFINE sheets == Books[b].sheets
<1>1. Books[b] \in [alphabetic : BOOLEAN, sheets : Seq(Sheet)]
  BY ExtractionAssumption DEF ExtractionAssumption
<1>2. sheets \in Seq(Sheet) /\ "sheets" \in DOMAIN Books[b]
  BY <1>1
<1> HIDE DEF sheets
<1>3. Len(sheets) \in Nat /\ DOMAIN sheets = 1..Len(sheets) /\ \A p \in 1..Len(sheets) : sheets[p] \in Sheet
  BY <1>2, SequenceIs
<1>4. IsFiniteSet(DOMAIN sheets)
  BY <1>3, UpTo
<1>5. \A s \in Sheet : s.lines \in Seq(Line) /\ s.layout \in Seq(Line) /\ s.image \in Seq(Line)
  BY DEF Sheet
<1> QED
  BY <1>2, <1>3, <1>4, <1>5 DEF sheets

-----------------------------------------------------------------------------
(* What an extractor reads of a sheet *)

\* Lines with a text, each once, with ids of the given set
Read(lines, ids) ==
  /\ lines \in Seq(ToSet(lines))
  /\ \A i \in DOMAIN lines : lines[i].id \in ids /\ ~Is(lines[i], "blank")
  /\ \A i, j \in DOMAIN lines : lines[i].id = lines[j].id => i = j

\* Lines as Read has them, that are of the form the extractors give them
Given(lines) ==
  /\ lines \in Seq(Line)
  /\ \A i, j \in DOMAIN lines : lines[i].id = lines[j].id => i = j

LEMMA LineIs ==
  ASSUME NEW l \in Line
  PROVE  /\ l.left \in Int /\ l.top \in Int /\ l.column \in Int
         /\ {"id", "column", "left", "right", "top", "bottom", "size", "cap", "text"} \subseteq DOMAIN l
         /\ "is" \in DOMAIN l.text
BY DEF Line, Text

\* A sequence of lines that differ from the given ones in neither id nor blankness.
LEMMA ReadAs ==
  ASSUME NEW n \in Nat, NEW lines, DOMAIN lines = 1..n, lines = [i \in 1..n |-> lines[i]], NEW ids,
         \A i \in 1..n : lines[i].id \in ids /\ ~Is(lines[i], "blank"),
         \A i, j \in 1..n : lines[i].id = lines[j].id => i = j
  PROVE  Read(lines, ids)
<1>1. \A i \in 1..n : lines[i] \in ToSet(lines)
  BY DEF ToSet
<1> HIDE DEF ToSet
<1>2. lines \in [1..n -> ToSet(lines)]
  BY <1>1
<1>3. lines \in Seq(ToSet(lines))
  BY <1>2, SequenceOf
<1> QED
  BY <1>3 DEF Read

\* A sort by column, top and left, of equals the first in the file first
LEMMA ReadingIsAnOrder ==
  ASSUME NEW n \in Nat, NEW lines,
         \A i \in 1..n : lines[i].column \in Int /\ lines[i].top \in Int /\ lines[i].left \in Int
  PROVE  Orders({p \in (1..n) \X (1..n) :
                   \/ ReadBefore(lines[p[1]], lines[p[2]])
                   \/ p[1] < p[2] /\ ~ReadBefore(lines[p[2]], lines[p[1]])}, 1..n)
<1> DEFINE first(i, j) == \/ ReadBefore(lines[i], lines[j])
                          \/ i < j /\ ~ReadBefore(lines[j], lines[i])
           before == {p \in (1..n) \X (1..n) :
                        \/ ReadBefore(lines[p[1]], lines[p[2]])
                        \/ p[1] < p[2] /\ ~ReadBefore(lines[p[2]], lines[p[1]])}
<1>1. \A i, j \in 1..n : <<i, j>> \in before <=> first(i, j)
  OBVIOUS
<1> HIDE DEF before
<1>2. \A i \in 1..n : ~first(i, i)
  BY DEF ReadBefore
<1>3. ASSUME NEW i \in 1..n, NEW j \in 1..n, NEW k \in 1..n, first(i, j), first(j, k)
      PROVE  first(i, k)
  <2>1. /\ lines[i].column \in Int /\ lines[i].top \in Int /\ lines[i].left \in Int /\ i \in Int
        /\ lines[j].column \in Int /\ lines[j].top \in Int /\ lines[j].left \in Int /\ j \in Int
        /\ lines[k].column \in Int /\ lines[k].top \in Int /\ lines[k].left \in Int /\ k \in Int
    OBVIOUS
  <2> QED
    BY <1>3, <2>1 DEF ReadBefore
<1>4. ASSUME NEW i \in 1..n, NEW j \in 1..n, i # j PROVE first(i, j) \/ first(j, i)
  BY <1>4 DEF ReadBefore
<1> HIDE DEF first
<1>5. Orders(before, 1..n)
  BY <1>1, <1>2, <1>3, <1>4 DEF Orders
<1> QED
  BY <1>5 DEF before

\* _sort_reading_order loses no line and repeats none.
LEMMA PyMuPdfReads ==
  ASSUME NEW sheet, Given(sheet.lines),
         \A i \in DOMAIN sheet.lines : ~Is(sheet.lines[i], "blank")
  PROVE  Read(PyMuPdfLines(sheet), IdsIn(sheet.lines))
<1> DEFINE N == Len(sheet.lines)
           right == RightOfGutter(sheet)
           columned == [i \in DOMAIN sheet.lines |->
                          [sheet.lines[i] EXCEPT !.column = IF i \in right THEN 1 ELSE 0]]
           before == {p \in (DOMAIN columned) \X (DOMAIN columned) :
                        \/ ReadBefore(columned[p[1]], columned[p[2]])
                        \/ p[1] < p[2] /\ ~ReadBefore(columned[p[2]], columned[p[1]])}
           order == Ranked(DOMAIN columned, before)
           read == PyMuPdfLines(sheet)
<1>1. /\ N \in Nat /\ DOMAIN sheet.lines = 1..N
      /\ \A i \in 1..N : sheet.lines[i] \in Line
  BY SequenceIs DEF Given
<1>2. DOMAIN columned = 1..N
  BY <1>1
<1>3. read = [n \in DOMAIN order |-> columned[order[n]]]
  BY DEF PyMuPdfLines
<1> HIDE DEF N, right
<1>4. ASSUME NEW i \in 1..N
      PROVE  /\ columned[i].id = sheet.lines[i].id /\ columned[i].text = sheet.lines[i].text
             /\ columned[i].column \in Int /\ columned[i].top \in Int /\ columned[i].left \in Int
  <2>1. columned[i] = [sheet.lines[i] EXCEPT !.column = IF i \in right THEN 1 ELSE 0]
    BY <1>1
  <2>2. sheet.lines[i] \in Line
    BY <1>1
  <2> HIDE DEF columned
  <2> QED
    BY <2>1, <2>2 DEF Line
<1> HIDE DEF columned
<1>5. Orders(before, 1..N)
  BY <1>1, <1>2, <1>4, ReadingIsAnOrder
<1> HIDE DEF before, read
<1>6. IsFiniteSet(1..N) /\ Cardinality(1..N) = N
  BY <1>1, UpTo
<1>7. /\ order \in [1..N -> 1..N]
      /\ \A m, n \in 1..N : m < n => <<order[m], order[n]>> \in before
  <2>1. order = Ranked(1..N, before)
    BY <1>2
  <2> HIDE DEF order
  <2> QED
    BY <1>5, <1>6, <2>1, RankedIs
<1> HIDE DEF order
<1>8. ASSUME NEW m \in 1..N, NEW n \in 1..N, order[m] = order[n] PROVE m = n
  <2>1. <<order[m], order[m]>> \notin before /\ order[m] \in 1..N
    BY <1>5, <1>7 DEF Orders
  <2>2. m \in Int /\ n \in Int
    BY <1>1
  <2>3. ~(m < n) /\ ~(n < m)
    BY <1>7, <1>8, <2>1
  <2> QED
    BY <2>2, <2>3
<1>9. /\ DOMAIN read = 1..N /\ read = [n \in 1..N |-> read[n]]
      /\ \A n \in 1..N : /\ order[n] \in 1..N /\ read[n].id = sheet.lines[order[n]].id
                         /\ read[n].text = sheet.lines[order[n]].text
  BY <1>4, <1>3, <1>7
<1>10. \A n \in 1..N : read[n].id \in IdsIn(sheet.lines) /\ ~Is(read[n], "blank")
  BY <1>1, <1>9 DEF IdsIn, Is
<1>11. \A m, n \in 1..N : read[m].id = read[n].id => m = n
  BY <1>1, <1>8, <1>9 DEF Given
<1>12. Read(read, IdsIn(sheet.lines))
  BY <1>1, <1>9, <1>10, <1>11, ReadAs
<1> QED
  BY <1>12 DEF read

\* Of rows that are like the given lines in ids and blankness, those with a text
LEMMA WithTextRead ==
  ASSUME NEW lines, Given(lines), NEW rows,
         \A i \in DOMAIN lines : /\ rows[i].id = lines[i].id
                                 /\ Is(rows[i], "blank") => Is(lines[i], "blank")
  PROVE  /\ Read(At(rows, WithText(lines)), IdsIn(lines))
         /\ \A n \in DOMAIN At(rows, WithText(lines)) :
              \E i \in DOMAIN lines : At(rows, WithText(lines))[n] = rows[i]
<1> DEFINE N == Len(lines)
           places == WithText(lines)
           kept == InOrder(places)
           read == At(rows, places)
           K == Cardinality(places)
<1>1. N \in Nat /\ DOMAIN lines = 1..N
  BY SequenceIs DEF Given
<1>2. places \in SUBSET (1..N) /\ \A i \in places : ~Is(rows[i], "blank")
  BY <1>1 DEF WithText
<1>3. IsFiniteSet(places) /\ places \in SUBSET Int
  <2>1. IsFiniteSet(1..N)
    BY <1>1, UpTo
  <2> HIDE DEF places
  <2>2. IsFiniteSet(places)
    BY <1>2, <2>1, FS_Subset
  <2>3. \A i \in 1..N : i \in Int
    BY <1>1
  <2> QED
    BY <1>2, <2>2, <2>3
<1>4. /\ K \in Nat /\ kept \in [1..K -> places]
      /\ \A m, n \in 1..K : m < n <=> kept[m] < kept[n]
  <2> HIDE DEF places
  <2> QED
    BY <1>3, InOrderIs
<1>5. read = [n \in DOMAIN kept |-> rows[kept[n]]]
  BY DEF At
<1> HIDE DEF places, kept, read, K, N
<1>6. \A n \in 1..K : kept[n] \in places /\ kept[n] \in 1..N
  BY <1>2, <1>4
<1>7. /\ DOMAIN read = 1..K /\ read = [n \in 1..K |-> read[n]]
      /\ \A n \in 1..K : /\ read[n] = rows[kept[n]]
                         /\ read[n].id = lines[kept[n]].id /\ ~Is(read[n], "blank")
  BY <1>1, <1>2, <1>4, <1>5, <1>6
<1>8. \A n \in 1..K : read[n].id \in IdsIn(lines)
  BY <1>1, <1>6, <1>7 DEF IdsIn
<1>9. ASSUME NEW m \in 1..K, NEW n \in 1..K, read[m].id = read[n].id PROVE m = n
  <2>1. kept[m] = kept[n]
    BY <1>1, <1>6, <1>7, <1>9 DEF Given
  <2>2. m \in Int /\ n \in Int /\ kept[m] \in Int
    BY <1>1, <1>4, <1>6
  <2>3. ~(m < n) /\ ~(n < m)
    BY <1>4, <2>1, <2>2
  <2> QED
    BY <2>2, <2>3
<1>10. Read(read, IdsIn(lines))
  BY <1>4, <1>7, <1>8, <1>9, ReadAs
<1>11. \A n \in DOMAIN read : \E i \in DOMAIN lines : read[n] = rows[i]
  BY <1>1, <1>6, <1>7
<1> QED
  BY <1>10, <1>11 DEF read, places

\* pdftotext's rows are all there but for the empty ones.
LEMMA PopplerReads ==
  ASSUME NEW sheet, Given(sheet.layout)
  PROVE  Read(PopplerLines(sheet), IdsIn(sheet.layout))
<1> DEFINE lines == sheet.layout
           rows == [i \in DOMAIN lines |->
                      [lines[i] EXCEPT !.top = 12 * (i - 1), !.bottom = 12 * i, !.size = 0,
                                       !.cap = 0, !.text.is = @ \ {"anchor"}]]
<1>1. ASSUME NEW i \in DOMAIN lines
      PROVE  rows[i].id = lines[i].id /\ (Is(rows[i], "blank") => Is(lines[i], "blank"))
  <2> DEFINE row == lines[i]
  <2>1. rows[i] = [row EXCEPT !.top = 12 * (i - 1), !.bottom = 12 * i, !.size = 0,
                              !.cap = 0, !.text.is = @ \ {"anchor"}]
    OBVIOUS
  <2>2. /\ {"id", "column", "left", "right", "top", "bottom", "size", "cap", "text"} \subseteq DOMAIN row
        /\ "is" \in DOMAIN row.text
    BY SequenceIs, LineIs DEF Given
  <2> HIDE DEF rows, row
  <2>3. rows[i].id = row.id /\ rows[i].text.is = row.text.is \ {"anchor"}
    BY <2>1, <2>2
  <2> QED
    BY <2>3 DEF Is, row
<1>2. PopplerLines(sheet) = At(rows, WithText(lines))
  BY DEF PopplerLines
<1> HIDE DEF rows
<1>3. Read(At(rows, WithText(lines)), IdsIn(lines))
  BY <1>1, WithTextRead
<1> QED
  BY <1>2, <1>3

\* A transcription has every line of the answer but for the empty ones.
LEMMA TranscribedReads ==
  ASSUME NEW sheet, NEW size, Given(sheet.image)
  PROVE  Read(Transcribed(sheet, size), IdsIn(sheet.image))
<1> DEFINE lines == sheet.image
           wide(i) == (11 * size * lines[i].text.chars) \div 20
           high(i) == ((i - 1) * size * 6) \div 5
           low(i) == (i * size * 6) \div 5
           rows == [i \in DOMAIN lines |->
                      [lines[i] EXCEPT !.size = size, !.cap = 0, !.column = 0, !.left = 0,
                         !.right = wide(i), !.top = high(i), !.bottom = low(i),
                         !.text.is = @ \ {"anchor"}]]
<1>1. Transcribed(sheet, size) = At(rows, WithText(lines))
  BY DEF Transcribed
<1> HIDE DEF wide, high, low
<1>2. ASSUME NEW i \in DOMAIN lines
      PROVE  rows[i].id = lines[i].id /\ (Is(rows[i], "blank") => Is(lines[i], "blank"))
  <2> DEFINE row == lines[i]
  <2>1. rows[i] = [row EXCEPT !.size = size, !.cap = 0, !.column = 0, !.left = 0, !.right = wide(i),
                     !.top = high(i), !.bottom = low(i), !.text.is = @ \ {"anchor"}]
    OBVIOUS
  <2>2. /\ {"id", "column", "left", "right", "top", "bottom", "size", "cap", "text"} \subseteq DOMAIN row
        /\ "is" \in DOMAIN row.text
    BY SequenceIs, LineIs DEF Given
  <2> HIDE DEF rows, row
  <2>3. rows[i].id = row.id /\ rows[i].text.is = row.text.is \ {"anchor"}
    BY <2>1, <2>2
  <2> QED
    BY <2>3 DEF Is, row
<1> HIDE DEF rows
<1>3. Read(At(rows, WithText(lines)), IdsIn(lines))
  BY <1>2, WithTextRead
<1> QED
  BY <1>1, <1>3

\* The text layer that OCR makes of an image has its lines with a text.
LEMMA SeenIs ==
  ASSUME NEW image, Given(image)
  PROVE  LET seen == At(image, WithText(image))
         IN /\ Given(seen) /\ \A n \in DOMAIN seen : ~Is(seen[n], "blank")
            /\ IdsIn(seen) \subseteq IdsIn(image)
<1> DEFINE seen == At(image, WithText(image))
<1>1. /\ Read(seen, IdsIn(image))
      /\ \A n \in DOMAIN seen : \E i \in DOMAIN image : seen[n] = image[i]
  BY WithTextRead
<1> HIDE DEF seen
<1>2. \A n \in DOMAIN seen : seen[n] \in Line
  BY <1>1, SequenceIs DEF Given
<1>3. ToSet(seen) \subseteq Line
  BY <1>2 DEF ToSet
<1>4. seen \in Seq(ToSet(seen))
  BY <1>1 DEF Read
<1> HIDE DEF Line
<1>5. seen \in Seq(Line)
  BY <1>3, <1>4
<1>6. IdsIn(seen) \subseteq IdsIn(image)
  BY <1>1 DEF Read, IdsIn
<1> QED
  BY <1>1, <1>5, <1>6 DEF Read, Given, seen

-----------------------------------------------------------------------------
\* No more pages are the worst ones than the cap allows, and each is one once.
LEMMA BadPagesAre ==
  ASSUME IsFiniteSet(DOMAIN pages), NEW worst \in BadPages(pages)
  PROVE  /\ worst \in Seq(DOMAIN pages) /\ Len(worst) <= VisionCap
         /\ \A m, n \in DOMAIN worst : m # n => worst[m] # worst[n]
<1>1. CASE worst = <<>>
  <2>1. VisionCap \in Nat
    BY ExtractionAssumption DEF ExtractionAssumption
  <2> QED
    BY <1>1, <2>1
<1>2. CASE worst # <<>>
  <2> DEFINE bad == Suspects(pages)
             many == Min({VisionCap, Cardinality(bad)})
  <2>1. /\ worst \in [1..many -> bad]
        /\ \A n \in DOMAIN worst : \A m \in 1..(n - 1) : worst[m] # worst[n]
    BY <1>2 DEF BadPages
  <2>2. bad \subseteq DOMAIN pages
    BY DEF Suspects
  <2>3. Cardinality(bad) \in Nat
    BY <2>2, FS_Subset, FS_CardinalityType
  <2> HIDE DEF bad
  <2>4. many \in Nat /\ many <= VisionCap
    <3>1. VisionCap \in Nat
      BY ExtractionAssumption DEF ExtractionAssumption
    <3> QED
      BY <2>3, <3>1 DEF Min
  <2> HIDE DEF many
  <2>5. worst \in Seq(DOMAIN pages) /\ Len(worst) = many /\ DOMAIN worst = 1..many
    BY <2>1, <2>2, <2>4
  <2>6. ASSUME NEW m \in 1..many, NEW n \in 1..many, m # n
        PROVE  worst[m] # worst[n]
    BY <2>1, <2>5, <2>6
  <2> QED
    BY <2>4, <2>5, <2>6
<1> QED
  BY <1>1, <1>2

\* When nothing is asked for, nothing is asked for twice.
LEMMA NothingIsOnce == NothingAsked => AskedOnce
<1> SUFFICES ASSUME NothingAsked PROVE AskedOnce
  OBVIOUS
<1>1. /\ asked = <<>> /\ calls = 0 /\ answered \cup failed = {}
      /\ VisionCap \in Nat
  BY ExtractionAssumption DEF NothingAsked, ExtractionAssumption
<1>2. IsFiniteSet({}) /\ Cardinality({}) = 0
  BY FS_EmptySet
<1>3. IsFiniteSet(answered \cup failed) /\ Cardinality(answered \cup failed) = calls
  BY <1>1, <1>2, Zenon
<1>4. asked \in Seq(DOMAIN pages) /\ Len(asked) = 0 /\ DOMAIN asked = {}
  BY <1>1
<1> QED
  BY <1>1, <1>3, <1>4 DEF AskedOnce

\* The pages an extractor makes are as many as the sheets of the book.
LEMMA RawPagesAre ==
  ASSUME NEW b, IsFiniteSet(DOMAIN b.sheets), NEW extractor
  PROVE  /\ IsFiniteSet(DOMAIN RawPages(b, extractor))
         /\ \A p \in DOMAIN RawPages(b, extractor) :
              /\ {"number", "lines", "extractor"} \subseteq DOMAIN RawPages(b, extractor)[p]
              /\ RawPages(b, extractor)[p].extractor = extractor
BY DEF RawPages

LEMMA FilesKept == FilesKnown /\ UNCHANGED <<book, ocred>> => FilesKnown'
BY DEF FilesKnown

LEMMA Initially == Init => Inv
<1> SUFFICES ASSUME Init PROVE Inv
  OBVIOUS
<1>1. NothingAsked /\ fallback = {} /\ stage = "idle" /\ pages = <<>>
  BY DEF Init, NothingAsked
<1>2. IsFiniteSet(DOMAIN pages)
  BY <1>1, FS_EmptySet
<1>3. FilesKnown
  BY DEF Init, FilesKnown
<1> QED
  BY <1>1, <1>2, <1>3, NothingIsOnce DEF Inv, PagesMade, Told

\* A command starts from nothing, and so does a book that is saved.
LEMMA ForgottenKeeps ==
  FilesKnown' /\ Forgotten /\ stage' \in {"idle", "probe"} => Inv'
<1> SUFFICES ASSUME FilesKnown', Forgotten, stage' \in {"idle", "probe"} PROVE Inv'
  OBVIOUS
<1>1. NothingAsked' /\ fallback' = {} /\ pages' = <<>>
  BY DEF Forgotten, NothingAsked
<1>2. AskedOnce'
  BY <1>1, NothingIsOnce, PTL
<1>3. PagesMade'
  BY <1>1, FS_EmptySet DEF PagesMade
<1> QED
  BY <1>1, <1>2, <1>3 DEF Inv, Told

LEMMA ReplaceKeeps == Inv /\ Replace => Inv'
<1> SUFFICES ASSUME Inv, Replace PROVE Inv'
  OBVIOUS
<1>1. FilesKnown' /\ Forgotten /\ stage' = "idle"
  BY DEF Inv, FilesKnown, Replace
<1> QED
  BY <1>1, ForgottenKeeps

LEMMA CallKeeps == Inv /\ Call => Inv'
<1> SUFFICES ASSUME Inv, Call PROVE Inv'
  OBVIOUS
<1>1. FilesKnown' /\ Forgotten /\ stage' = "probe"
  BY FilesKept DEF Inv, Call, files
<1> QED
  BY <1>1, ForgottenKeeps

\* An error tells of nothing.
LEMMA FailKeeps == ASSUME NEW at, Inv, Fail(at) PROVE Inv'
<1>1. /\ UNCHANGED <<pages, book, ocred, used>> /\ stage' = "error"
      /\ UNCHANGED <<asked, calls, answered, failed, fallback, unread>>
  BY DEF Fail, vision, cleanVars, files
<1> QED
  BY <1>1, FilesKept DEF Inv, PagesMade, AskedOnce, Told

LEMMA ExtractorFailsKeeps == Inv /\ ExtractorFails => Inv'
BY FailKeeps DEF ExtractorFails

LEMMA RasterizeFailsKeeps == Inv /\ RasterizeFails => Inv'
BY FailKeeps DEF RasterizeFails

LEMMA SelectKeeps == Inv /\ Select => Inv'
<1> SUFFICES ASSUME Inv, Select PROVE Inv'
  OBVIOUS
<1>1. CASE Fail("probe")
  BY <1>1, FailKeeps
<1>2. CASE ~Fail("probe")
  <2>1. /\ stage = "probe" /\ stage' = "extract"
        /\ UNCHANGED <<pages, book, ocred, asked, calls, answered, failed, fallback, unread>>
    BY <1>2 DEF Select, vision, cleanVars, files
  <2> QED
    BY <2>1, FilesKept DEF Inv, PagesMade, AskedOnce, Told, NothingAsked
<1> QED
  BY <1>1, <1>2

\* What an extractor makes is all its own.
LEMMA ExtractedKeeps ==
  ASSUME Inv, FilesKnown', stage = "extract", NEW b, IsFiniteSet(DOMAIN b.sheets),
         Extracted(RawPages(b, used)), UNCHANGED <<used, vision>>
  PROVE  Inv'
<1>1. /\ NothingAsked /\ fallback = {}
      /\ UNCHANGED <<asked, calls, answered, failed, fallback, unread>>
  BY DEF Inv, Told, vision
<1>2. pages' = RawPages(b, used) /\ stage' \in {"error", "suspect", "clean"}
  BY DEF Extracted
<1>3. PagesMade' /\ \A p \in DOMAIN pages' : pages'[p].extractor = used'
  BY <1>2, RawPagesAre DEF PagesMade
<1>4. NothingAsked'
  BY <1>1 DEF NothingAsked
<1>5. AskedOnce'
  BY <1>4, NothingIsOnce, PTL
<1>6. Told'
  BY <1>1, <1>2, <1>3, <1>4 DEF Told, NothingAsked
<1> QED
  BY <1>3, <1>5, <1>6 DEF Inv

LEMMA ExtractTextKeeps == Inv /\ ExtractText => Inv'
<1> SUFFICES ASSUME Inv, ExtractText PROVE Inv'
  OBVIOUS
<1>1. /\ stage = "extract" /\ Extracted(RawPages(Books[book], used)) /\ UNCHANGED <<used, vision>>
      /\ UNCHANGED <<book, ocred>>
  BY DEF ExtractText, files
<1>2. IsFiniteSet(DOMAIN Books[book].sheets) /\ FilesKnown'
  BY <1>1, FilesKept, SheetsAre DEF Inv, FilesKnown
<1> QED
  BY <1>1, <1>2, ExtractedKeeps

\* The layer is of the book, or of one that was there before.
LEMMA ExtractOcrKeeps == Inv /\ ExtractOcr => Inv'
<1> SUFFICES ASSUME Inv, ExtractOcr PROVE Inv'
  OBVIOUS
<1> DEFINE b == WithImageText(Books[ocred'[OcrDir].of])
<1>1. stage = "extract" /\ Extracted(RawPages(b, used)) /\ UNCHANGED <<book, used, vision>>
  BY DEF ExtractOcr
<1>2. OcrDir \in DOMAIN ocred
  BY DEF OcrDir, Inv, FilesKnown
<1>3. FilesKnown' /\ ocred'[OcrDir].of \in DOMAIN Books
  <2>1. CASE Reusable(ocred[OcrDir])
    <3>1. UNCHANGED <<book, ocred>>
      BY <2>1 DEF ExtractOcr
    <3> QED
      BY <1>2, <2>1, <3>1, FilesKept DEF Reusable, Inv, FilesKnown
  <2>2. CASE ~Reusable(ocred[OcrDir])
    <3>1. ocred' = [ocred EXCEPT ![OcrDir] = [of |-> book, made |-> clock']] /\ UNCHANGED book
      BY <2>2 DEF ExtractOcr
    <3> QED
      BY <1>2, <3>1 DEF Inv, FilesKnown
  <2> QED
    BY <2>1, <2>2
<1>4. IsFiniteSet(DOMAIN b.sheets)
  <2>1. IsFiniteSet(DOMAIN Books[ocred'[OcrDir].of].sheets)
    BY <1>3, SheetsAre
  <2>2. "sheets" \in DOMAIN Books[ocred'[OcrDir].of]
    BY <1>3, SheetsAre
  <2> QED
    BY <2>1, <2>2 DEF WithImageText
<1> HIDE DEF b
<1> QED
  BY <1>1, <1>3, <1>4, ExtractedKeeps

-----------------------------------------------------------------------------
\* The worst pages are asked for, within the cap, or there are none.
LEMMA SuspectKeeps == Inv /\ Suspect => Inv'
<1> SUFFICES ASSUME Inv, Suspect PROVE Inv'
  OBVIOUS
<1>1. /\ stage = "suspect" /\ asked' \in BadPages(pages)
      /\ stage' \in {"clean", "vision"} /\ (stage' = "clean" => asked' = <<>>)
      /\ UNCHANGED <<pages, book, ocred, used, calls, answered, failed, fallback, unread>>
  BY DEF Suspect, files
<1>2. /\ calls = 0 /\ answered = {} /\ failed = {} /\ fallback = {}
      /\ \A p \in DOMAIN pages : pages[p].extractor = used
  BY <1>1 DEF Inv, Told, NothingAsked
<1>3. /\ asked' \in Seq(DOMAIN pages) /\ Len(asked') <= VisionCap
      /\ \A m, n \in DOMAIN asked' : m # n => asked'[m] # asked'[n]
  BY <1>1, BadPagesAre DEF Inv, PagesMade
<1>4. AskedOnce'
  <2>1. Len(asked') \in Nat /\ 0 + Len(asked') = Len(asked')
    BY <1>3
  <2>2. calls' + Len(asked') <= VisionCap
    BY <1>1, <1>2, <1>3, <2>1
  <2>3. /\ calls' = 0 /\ answered' \cup failed' = {}
        /\ asked' \in Seq(DOMAIN pages')
    BY <1>1, <1>2, <1>3
  <2>4. IsFiniteSet(answered' \cup failed') /\ Cardinality(answered' \cup failed') = calls'
    <3>1. IsFiniteSet({}) /\ Cardinality({}) = 0
      BY FS_EmptySet
    <3> QED
      BY <2>3, <3>1, Zenon
  <2> QED
    BY <1>3, <2>2, <2>3, <2>4 DEF AskedOnce
<1>5. PagesMade' /\ FilesKnown'
  BY <1>1, FilesKept DEF Inv, PagesMade
<1>6. Told'
  BY <1>1, <1>2 DEF Told, NothingAsked
<1> QED
  BY <1>4, <1>5, <1>6 DEF Inv

\* A page that was asked for is read or not, and is not asked for again.
LEMMA TranscribeKeeps == Inv /\ Transcribe => Inv'
<1> SUFFICES ASSUME Inv, Transcribe PROVE Inv'
  OBVIOUS
<1> DEFINE page == Head(asked)
           rest == Tail(asked)
           done == answered \cup failed
<1>1. /\ stage = "vision" /\ asked # <<>> /\ asked' = rest /\ calls' = calls + 1
      /\ UNCHANGED <<stage, pages, book, ocred, used, fallback, unread>>
  BY DEF Transcribe, cleanVars, files
<1>2. answered' \cup failed' = done \cup {page}
  <2>1. CASE answered' = answered \cup {page} /\ UNCHANGED failed
    BY <2>1
  <2>2. CASE failed' = failed \cup {page} /\ UNCHANGED answered
    BY <2>2
  <2> QED
    BY <2>1, <2>2 DEF Transcribe
<1>3. /\ asked \in Seq(DOMAIN pages) /\ calls \in Nat /\ calls + Len(asked) <= VisionCap
      /\ \A m, n \in DOMAIN asked : m # n => asked[m] # asked[n]
      /\ \A n \in DOMAIN asked : asked[n] \notin done
      /\ IsFiniteSet(done) /\ Cardinality(done) = calls
  BY DEF Inv, AskedOnce
<1>4. /\ Len(asked) \in Nat /\ Len(asked) >= 1 /\ DOMAIN asked = 1..Len(asked)
      /\ page = asked[1] /\ rest \in Seq(DOMAIN pages) /\ Len(rest) = Len(asked) - 1
      /\ DOMAIN rest = 1..(Len(asked) - 1)
      /\ \A n \in DOMAIN rest : rest[n] = asked[n + 1] /\ n + 1 \in DOMAIN asked /\ n + 1 # 1
  BY <1>1, <1>3
<1> HIDE DEF page, rest
<1>5. page \notin done /\ 1 \in DOMAIN asked
  BY <1>3, <1>4
<1>6. \A n \in DOMAIN rest : rest[n] \notin done \cup {page}
  BY <1>3, <1>4, <1>5
<1>7. \A m, n \in DOMAIN rest : m # n => rest[m] # rest[n]
  <2> SUFFICES ASSUME NEW m \in DOMAIN rest, NEW n \in DOMAIN rest, m # n
               PROVE  rest[m] # rest[n]
    OBVIOUS
  <2>1. m + 1 # n + 1
    BY <1>4
  <2> QED
    BY <1>3, <1>4, <2>1
<1> HIDE DEF done
<1>8. IsFiniteSet(done \cup {page}) /\ Cardinality(done \cup {page}) = calls + 1
  BY <1>3, <1>5, FS_AddElement
<1>9. AskedOnce'
  <2>1. calls + 1 \in Nat /\ calls + 1 + Len(rest) <= VisionCap
    BY <1>3, <1>4
  <2>2. \A n \in DOMAIN rest : rest[n] \notin answered' \cup failed'
    BY <1>2, <1>6
  <2>3. IsFiniteSet(answered' \cup failed') /\ Cardinality(answered' \cup failed') = calls + 1
    BY <1>2, <1>8
  <2> QED
    BY <1>1, <1>4, <1>7, <2>1, <2>2, <2>3 DEF AskedOnce
<1>10. PagesMade' /\ FilesKnown'
  BY <1>1, FilesKept DEF Inv, PagesMade
<1>11. Told'
  BY <1>1 DEF Inv, Told
<1> QED
  BY <1>9, <1>10, <1>11 DEF Inv

\* The answers are applied, and the report names them.
LEMMA ApplyKeeps == Inv /\ Apply => Inv'
<1> SUFFICES ASSUME Inv, Apply PROVE Inv'
  OBVIOUS
<1>1. /\ stage = "vision" /\ asked = <<>> /\ stage' = "clean"
      /\ fallback' = answered /\ unread' = IF answered = {} THEN {} ELSE failed
      /\ UNCHANGED <<book, ocred, used, asked, calls, answered, failed>>
  BY DEF Apply, Report, files
<1>2. /\ DOMAIN pages' = DOMAIN pages
      /\ \A p \in DOMAIN pages :
           pages'[p] = IF pages[p].number \notin answered THEN pages[p]
                       ELSE [pages[p] EXCEPT !.lines = Transcribed(Books[book].sheets[p], NewSize),
                                             !.extractor = "vision"]
  BY DEF Apply
<1>3. /\ IsFiniteSet(DOMAIN pages)
      /\ \A p \in DOMAIN pages : {"number", "lines", "extractor"} \subseteq DOMAIN pages[p]
      /\ \A p \in DOMAIN pages : pages[p].extractor = used
  BY <1>1 DEF Inv, PagesMade, Told
<1>4. ASSUME NEW p \in DOMAIN pages
      PROVE  /\ {"number", "lines", "extractor"} \subseteq DOMAIN pages'[p]
             /\ pages'[p].number = pages[p].number
             /\ pages'[p].extractor = IF pages[p].number \in answered THEN "vision" ELSE used
  BY <1>2, <1>3
<1>5. PagesMade' /\ FilesKnown'
  BY <1>1, <1>2, <1>3, <1>4, FilesKept DEF Inv, PagesMade
<1>6. AskedOnce'
  <2>1. AskedOnce
    BY <1>1 DEF Inv
  <2>2. /\ asked' = <<>> /\ asked = <<>> /\ calls' = calls /\ answered' = answered /\ failed' = failed
        /\ DOMAIN pages' = DOMAIN pages
    BY <1>1, <1>2
  <2> QED
    BY <2>1, <2>2 DEF AskedOnce
<1>7. Told'
  BY <1>1, <1>2, <1>4 DEF Told
<1> QED
  BY <1>5, <1>6, <1>7 DEF Inv

\* The cleaner takes lines from pages, whoever read them.
LEMMA CleanPassKeeps == Inv /\ CleanPass => Inv'
<1> SUFFICES ASSUME Inv, CleanPass PROVE Inv'
  OBVIOUS
<1>1. /\ stage = "clean"
      /\ UNCHANGED <<stage, book, ocred, used, asked, calls, answered, failed, fallback, unread>>
  BY DEF CleanPass, vision, files
<1>2. /\ DOMAIN pages' = DOMAIN pages
      /\ \A p \in DOMAIN pages : /\ DOMAIN pages'[p] = DOMAIN pages[p]
                                 /\ pages'[p].number = pages[p].number
                                 /\ pages'[p].extractor = pages[p].extractor
  <2>1. CASE Strip
    BY <2>1 DEF Strip, Inv, PagesMade
  <2>2. CASE UNCHANGED pages
    BY <2>2
  <2> QED
    BY <2>1, <2>2 DEF CleanPass, Clean, Split, Reflow, RepairDropCaps, Dehyphenate
<1>3. PagesMade' /\ FilesKnown'
  BY <1>1, <1>2, FilesKept DEF Inv, PagesMade
<1>4. AskedOnce'
  BY <1>1, <1>2 DEF Inv, AskedOnce
<1>5. Told'
  BY <1>1, <1>2 DEF Inv, Told
<1> QED
  BY <1>3, <1>4, <1>5 DEF Inv

LEMMA FinishKeeps == Inv /\ Finish => Inv'
<1> SUFFICES ASSUME Inv, Finish PROVE Inv'
  OBVIOUS
<1>1. /\ stage = "clean" /\ stage' = "done"
      /\ UNCHANGED <<pages, book, ocred, used, asked, calls, answered, failed, fallback, unread>>
  BY DEF Finish, vision, cleanVars
<1> QED
  BY <1>1, FilesKept DEF Inv, PagesMade, AskedOnce, Told

LEMMA StutterKeeps == Inv /\ UNCHANGED vars => Inv'
BY FilesKept DEF Inv, PagesMade, AskedOnce, Told, NothingAsked, vars, vision, cleanVars, files

\* In every state each page says where its text is from, each page was asked for
\* once, and what the report says is what was done.
THEOREM InvHolds == Spec => []Inv
<1>1. Inv /\ [Next]_vars => Inv'
  BY ReplaceKeeps, CallKeeps, SelectKeeps, ExtractTextKeeps, ExtractOcrKeeps, ExtractorFailsKeeps,
     SuspectKeeps, TranscribeKeeps, RasterizeFailsKeeps, ApplyKeeps, CleanPassKeeps, FinishKeeps, StutterKeeps
  DEF Next
<1> QED
  BY Initially, <1>1, PTL DEF Spec

\* Extractors are never mixed without a word of it, whatever fails, and no more
\* pages are sent to the model than vision_max_pages: transcribe_pages asks for
\* each of the worst pages once, and the report names the pages it read.
THEOREM MixingIsTold == Spec => []NeverSilentlyMixed
<1>1. Inv => NeverSilentlyMixed
  <2> SUFFICES ASSUME Inv PROVE NeverSilentlyMixed
    OBVIOUS
  <2>1. calls <= VisionCap
    BY ExtractionAssumption DEF Inv, AskedOnce, ExtractionAssumption
  <2>2. stage \in {"clean", "done"} => Cardinality(fallback \cup failed) = calls
    BY DEF Inv, Told, AskedOnce
  <2> QED
    BY <2>1, <2>2 DEF Inv, Told, NeverSilentlyMixed
<1> QED
  BY InvHolds, <1>1, PTL

-----------------------------------------------------------------------------
(* The text is that of the book *)

\* A layer that is at least as new as the file is of the book in the file.
LayersAre ==
  /\ saved \in Nat /\ clock \in Nat /\ saved <= clock
  /\ \A dir \in DOMAIN ocred : ocred[dir] # NoLayer =>
       /\ ocred[dir].made \in Nat /\ ocred[dir].made <= clock
       /\ ocred[dir].made >= saved => ocred[dir].of = book

\* An extractor chosen by the program is the one the probe recommends.
Chosen ==
  stage \in {"extract", "suspect", "vision", "clean"} /\ request.extractor = "auto" =>
    used = Recommended(Books[book])

\* The ids that may be read of a sheet
Legible(sheet) ==
  IF request.extractor = "auto" /\ Recommended(Books[book]) = "ocr"
  THEN IdsIn(sheet.image) ELSE IdsOn(sheet)

\* Pages that hold lines of the sheets of the book
ReadOff(ps) ==
  /\ DOMAIN ps = DOMAIN Books[book].sheets
  /\ \A p \in DOMAIN ps : /\ "lines" \in DOMAIN ps[p]
                          /\ Read(ps[p].lines, Legible(Books[book].sheets[p]))

\* What waits for the model is of the book, and so is what the cleaner was given.
OfTheBook ==
  /\ stage \in {"suspect", "vision"} => ReadOff(pages)
  /\ stage = "clean" =>
       handed \subseteq UNION {Legible(Books[book].sheets[p]) : p \in DOMAIN Books[book].sheets}

TextInv == LayersAre /\ Chosen /\ OfTheBook

\* Pages whose lines are each on one of them, once
PagesOnce(ps) ==
  \E n \in Nat : /\ DOMAIN ps = 1..n
                 /\ \A p \in 1..n : "lines" \in DOMAIN ps[p]
                 /\ EachOnce([p \in DOMAIN ps |-> ps[p].lines], n)

LinesOn(ps) == UNION {ToSet(ps[p].lines) : p \in DOMAIN ps}

LEMMA LinesOfPages ==
  ASSUME NEW ps, PagesOnce(ps)
  PROVE  Lists(LinesOf(ps), LinesOn(ps))
<1> DEFINE seqs == [p \in DOMAIN ps |-> ps[p].lines]
<1>1. PICK n \in Nat : DOMAIN ps = 1..n /\ EachOnce(seqs, n)
  BY DEF PagesOnce
<1>2. UNION {ToSet(seqs[p]) : p \in 1..n} = LinesOn(ps)
  BY <1>1 DEF LinesOn
<1>3. LinesOf(ps) = FlattenSeq(seqs)
  BY DEF LinesOf
<1> HIDE DEF seqs
<1> QED
  BY <1>1, <1>2, <1>3, FlattenOnce

LEMMA ReadIs ==
  ASSUME NEW lines, NEW ids, Read(lines, ids)
  PROVE  /\ Lists(lines, ToSet(lines))
         /\ \A l \in ToSet(lines) : l.id \in ids /\ ~Is(l, "blank")
         /\ \A l, m \in ToSet(lines) : l.id = m.id => l = m
<1>1. lines \in Seq(ToSet(lines))
  BY DEF Read
<1>2. Len(lines) \in Nat /\ DOMAIN lines = 1..Len(lines)
  BY <1>1, SequenceIs
<1>3. \A l \in ToSet(lines) : \E i \in 1..Len(lines) : l = lines[i]
  BY <1>2 DEF ToSet
<1>4. /\ \A i \in 1..Len(lines) : lines[i].id \in ids /\ ~Is(lines[i], "blank")
      /\ \A i, j \in 1..Len(lines) : lines[i].id = lines[j].id => i = j
  BY <1>2 DEF Read
<1>5. \A i, j \in 1..Len(lines) : lines[i] = lines[j] => i = j
  BY <1>4
<1> HIDE DEF ToSet
<1>6. Lists(lines, ToSet(lines))
  BY <1>1, <1>3, <1>5 DEF Lists
<1> QED
  BY <1>3, <1>4, <1>6

LEMMA LegibleIs == ASSUME NEW sheet PROVE Legible(sheet) \subseteq IdsOn(sheet)
BY DEF Legible, IdsOn

\* Pages read off a book hold each of their lines once, none without a text, and
\* no two with one id.
LEMMA ReadOffIs ==
  ASSUME book \in DOMAIN Books, NEW ps, ReadOff(ps)
  PROVE  /\ PagesOnce(ps)
         /\ \A l \in LinesOn(ps) : ~Is(l, "blank")
         /\ \A l, m \in LinesOn(ps) : l.id = m.id => l = m
         /\ {l.id : l \in LinesOn(ps)}
              \subseteq UNION {Legible(Books[book].sheets[p]) : p \in DOMAIN Books[book].sheets}
<1> DEFINE sheets == Books[book].sheets
           set(p) == ToSet(ps[p].lines)
<1>1. /\ Len(sheets) \in Nat /\ DOMAIN sheets = 1..Len(sheets) /\ DOMAIN ps = 1..Len(sheets)
      /\ \A p \in DOMAIN ps : "lines" \in DOMAIN ps[p] /\ Read(ps[p].lines, Legible(sheets[p]))
  BY SheetsAre DEF ReadOff
<1>2. ASSUME NEW p \in DOMAIN ps
      PROVE  /\ Lists(ps[p].lines, set(p))
             /\ \A l \in set(p) : l.id \in Legible(sheets[p]) /\ ~Is(l, "blank")
             /\ \A l, m \in set(p) : l.id = m.id => l = m
  <2>1. Read(ps[p].lines, Legible(sheets[p]))
    BY <1>1
  <2> QED
    BY <2>1, ReadIs
<1>3. ASSUME NEW p \in DOMAIN ps, NEW q \in DOMAIN ps, p # q, NEW l \in set(p), NEW m \in set(q)
      PROVE  l.id # m.id
  <2>1. IdsOn(sheets[p]) \cap IdsOn(sheets[q]) = {}
    BY <1>1, <1>3, ExtractionAssumption DEF ExtractionAssumption
  <2>2. l.id \in IdsOn(sheets[p]) /\ m.id \in IdsOn(sheets[q])
    BY <1>2, LegibleIs
  <2> QED
    BY <2>1, <2>2
<1>4. \A l \in LinesOn(ps) : \E p \in DOMAIN ps : l \in set(p)
  BY DEF LinesOn
<1>5. PagesOnce(ps)
  <2> DEFINE seqs == [p \in DOMAIN ps |-> ps[p].lines]
  <2>1. seqs = [p \in 1..Len(sheets) |-> seqs[p]] /\ \A p \in DOMAIN ps : seqs[p] = ps[p].lines
    BY <1>1
  <2> HIDE DEF sheets
  <2>2. \A p \in 1..Len(sheets) : Lists(ps[p].lines, set(p))
    BY <1>1, <1>2
  <2>3. \A p, q \in 1..Len(sheets) : p # q => set(p) \cap set(q) = {}
    BY <1>1, <1>3
  <2>4. EachOnce(seqs, Len(sheets))
    <3>1. \A p \in 1..Len(sheets) : seqs[p] = ps[p].lines
      BY <1>1, <2>1
    <3> HIDE DEF seqs
    <3> QED
      BY <2>1, <2>2, <2>3, <3>1 DEF EachOnce
  <2> QED
    BY <1>1, <2>4 DEF PagesOnce
<1> HIDE DEF set
<1>6. \A l \in LinesOn(ps) : ~Is(l, "blank")
  BY <1>2, <1>4
<1>7. ASSUME NEW l \in LinesOn(ps), NEW m \in LinesOn(ps), l.id = m.id PROVE l = m
  <2>1. PICK p \in DOMAIN ps : l \in set(p)
    BY <1>4
  <2>2. PICK q \in DOMAIN ps : m \in set(q)
    BY <1>4
  <2>3. p = q
    BY <1>3, <1>7, <2>1, <2>2
  <2> QED
    BY <1>2, <1>7, <2>1, <2>2, <2>3
<1>8. {l.id : l \in LinesOn(ps)} \subseteq UNION {Legible(sheets[p]) : p \in DOMAIN sheets}
  BY <1>1, <1>2, <1>4
<1> QED
  BY <1>5, <1>6, <1>7, <1>8

\* The cleaner is handed what is on the pages.
LEMMA HandIs ==
  ASSUME NEW ps, PagesOnce(ps), Hand(ps)
  PROVE  handed' = {l.id : l \in LinesOn(ps)}
<1>1. Lists(LinesOf(ps), LinesOn(ps))
  BY LinesOfPages
<1>2. ToSet(LinesOf(ps)) = LinesOn(ps)
  BY <1>1, ListsItself
<1> QED
  BY <1>2 DEF Hand

LEMMA ReadMore ==
  ASSUME NEW lines, NEW ids, NEW more, ids \subseteq more, Read(lines, ids)
  PROVE  Read(lines, more)
BY DEF Read

\* The three readings of a sheet
LEMMA SheetReads ==
  ASSUME book \in DOMAIN Books, NEW p \in DOMAIN Books[book].sheets
  PROVE  LET sheet == Books[book].sheets[p]
         IN /\ Given(sheet.lines) /\ Given(sheet.layout) /\ Given(sheet.image)
            /\ \A i \in DOMAIN sheet.lines : ~Is(sheet.lines[i], "blank")
<1> DEFINE sheet == Books[book].sheets[p]
<1>1. sheet.lines \in Seq(Line) /\ sheet.layout \in Seq(Line) /\ sheet.image \in Seq(Line)
  BY SheetsAre
<1>2. /\ \A lines \in {sheet.lines, sheet.layout, sheet.image} :
           \A i, j \in DOMAIN lines : i # j => lines[i].id # lines[j].id
      /\ \A i \in DOMAIN sheet.lines : ~Is(sheet.lines[i], "blank")
  BY ExtractionAssumption DEF ExtractionAssumption
<1> QED
  BY <1>1, <1>2 DEF Given

\* What an extractor makes of the book was read off it.
LEMMA RawPagesRead ==
  ASSUME book \in DOMAIN Books, NEW extractor \in {"pymupdf", "poppler"},
         request.extractor = "auto" => extractor = Recommended(Books[book])
  PROVE  ReadOff(RawPages(Books[book], extractor))
<1> DEFINE sheets == Books[book].sheets
           ps == RawPages(Books[book], extractor)
<1>1. /\ DOMAIN ps = DOMAIN sheets
      /\ \A p \in DOMAIN sheets :
           /\ "lines" \in DOMAIN ps[p]
           /\ ps[p].lines = IF extractor = "poppler" THEN PopplerLines(sheets[p])
                            ELSE PyMuPdfLines(sheets[p])
  BY DEF RawPages
<1>2. \A p \in DOMAIN sheets : Legible(sheets[p]) = IdsOn(sheets[p])
  BY DEF Legible
<1> HIDE DEF ps
<1>3. ASSUME NEW p \in DOMAIN sheets PROVE Read(ps[p].lines, IdsOn(sheets[p]))
  <2>1. CASE extractor = "poppler"
    <3>1. Read(ps[p].lines, IdsIn(sheets[p].layout))
      BY <1>1, <2>1, SheetReads, PopplerReads
    <3>2. IdsIn(sheets[p].layout) \subseteq IdsOn(sheets[p])
      BY DEF IdsOn
    <3> QED
      BY <3>1, <3>2, ReadMore
  <2>2. CASE extractor # "poppler"
    <3>1. Read(ps[p].lines, IdsIn(sheets[p].lines))
      BY <1>1, <2>2, SheetReads, PyMuPdfReads
    <3>2. IdsIn(sheets[p].lines) \subseteq IdsOn(sheets[p])
      BY DEF IdsOn
    <3> QED
      BY <3>1, <3>2, ReadMore
  <2> QED
    BY <2>1, <2>2
<1>4. ReadOff(ps)
  BY <1>1, <1>2, <1>3 DEF ReadOff
<1> QED
  BY <1>4 DEF ps

\* What OCR sees of the book may be read in any case.
LEMMA ImageRead ==
  ASSUME book \in DOMAIN Books
  PROVE  ReadOff(RawPages(WithImageText(Books[book]), "ocr"))
<1> DEFINE sheets == Books[book].sheets
           seen == WithImageText(Books[book]).sheets
           ps == RawPages(WithImageText(Books[book]), "ocr")
           text(p) == At(sheets[p].image, WithText(sheets[p].image))
<1>1. DOMAIN seen = DOMAIN sheets /\ \A p \in DOMAIN sheets : seen[p] = [sheets[p] EXCEPT !.lines = text(p)]
  BY SheetsAre DEF WithImageText
<1>2. \A p \in DOMAIN sheets : seen[p].lines = text(p)
  <2>1. \A p \in DOMAIN sheets : "lines" \in DOMAIN sheets[p]
    BY SheetsAre DEF Sheet
  <2> HIDE DEF sheets, seen, text
  <2> QED
    BY <1>1, <2>1
<1>3. /\ DOMAIN ps = DOMAIN seen
      /\ \A p \in DOMAIN seen : "lines" \in DOMAIN ps[p] /\ ps[p].lines = PyMuPdfLines(seen[p])
  BY DEF RawPages
<1> HIDE DEF ps, seen
<1>4. ASSUME NEW p \in DOMAIN sheets PROVE Read(ps[p].lines, Legible(sheets[p]))
  <2>1. /\ Given(seen[p].lines) /\ \A i \in DOMAIN seen[p].lines : ~Is(seen[p].lines[i], "blank")
        /\ IdsIn(seen[p].lines) \subseteq IdsIn(sheets[p].image)
    BY <1>2, SheetReads, SeenIs
  <2>2. Read(ps[p].lines, IdsIn(seen[p].lines))
    BY <1>1, <1>2, <1>3, <2>1, PyMuPdfReads
  <2>3. IdsIn(seen[p].lines) \subseteq Legible(sheets[p])
    BY <2>1 DEF Legible, IdsOn
  <2> QED
    BY <2>2, <2>3, ReadMore
<1>5. ReadOff(ps)
  BY <1>1, <1>3, <1>4 DEF ReadOff
<1> QED
  BY <1>5 DEF ps

\* The answers are read off the book as well.
LEMMA AppliedRead ==
  ASSUME book \in DOMAIN Books, ReadOff(pages), Apply
  PROVE  ReadOff(pages')
<1> DEFINE sheets == Books[book].sheets
<1>1. /\ DOMAIN pages = DOMAIN sheets
      /\ \A p \in DOMAIN pages : /\ "lines" \in DOMAIN pages[p]
                                 /\ Read(pages[p].lines, Legible(sheets[p]))
  BY DEF ReadOff
<1>2. /\ DOMAIN pages' = DOMAIN pages
      /\ \A p \in DOMAIN pages :
           pages'[p] = IF pages[p].number \notin answered THEN pages[p]
                       ELSE [pages[p] EXCEPT !.lines = Transcribed(sheets[p], NewSize), !.extractor = "vision"]
  BY DEF Apply
<1>3. ASSUME NEW p \in DOMAIN pages
      PROVE  "lines" \in DOMAIN pages'[p] /\ Read(pages'[p].lines, Legible(sheets[p]))
  <2>1. CASE pages[p].number \notin answered
    BY <1>1, <1>2, <2>1
  <2>2. CASE pages[p].number \in answered
    <3>1. "lines" \in DOMAIN pages'[p] /\ pages'[p].lines = Transcribed(sheets[p], NewSize)
      BY <1>1, <1>2, <2>2
    <3>2. Read(Transcribed(sheets[p], NewSize), IdsIn(sheets[p].image))
      <4>1. p \in DOMAIN sheets
        BY <1>1
      <4>2. Given(sheets[p].image)
        BY <4>1, SheetReads
      <4> HIDE DEF sheets
      <4> QED
        BY <4>2, TranscribedReads
    <3>3. IdsIn(sheets[p].image) \subseteq Legible(sheets[p])
      BY DEF Legible, IdsOn
    <3> QED
      BY <3>1, <3>2, <3>3, ReadMore
  <2> QED
    BY <2>1, <2>2
<1> QED
  BY <1>1, <1>2, <1>3 DEF ReadOff

-----------------------------------------------------------------------------
\* Nothing that bears on the text changes before the cleaner has it.
LEMMA LayersKept == LayersAre /\ UNCHANGED <<book, saved, clock, ocred>> => LayersAre'
BY DEF LayersAre

LEMMA ReadOffKept ==
  ASSUME NEW ps, ReadOff(ps), UNCHANGED <<book, request>>
  PROVE  ReadOff(ps)'
BY DEF ReadOff, Legible

LEMMA HandedKept ==
  OfTheBook /\ UNCHANGED <<book, request, handed>> /\ stage = "clean" /\ stage' = "clean" => OfTheBook'
BY DEF OfTheBook, Legible

LEMMA TextInitially == Init => TextInv
<1> SUFFICES ASSUME Init PROVE TextInv
  OBVIOUS
<1>1. LayersAre
  <2>1. saved = 0 /\ clock = 0 /\ ocred = [dir \in DOMAIN Books \cup {"beside"} |-> NoLayer]
    BY DEF Init
  <2>2. \A dir \in DOMAIN ocred : ocred[dir] = NoLayer
    BY <2>1
  <2> QED
    BY <2>1, <2>2 DEF LayersAre
<1> QED
  BY <1>1 DEF Init, TextInv, Chosen, OfTheBook

\* A book that is saved is newer than every layer.
LEMMA ReplaceKeepsText == TextInv /\ Replace => TextInv'
<1> SUFFICES ASSUME TextInv, Replace PROVE TextInv'
  OBVIOUS
<1>1. /\ clock' = clock + 1 /\ saved' = clock + 1 /\ stage' = "idle" /\ UNCHANGED ocred
      /\ saved \in Nat /\ clock \in Nat /\ saved <= clock
  BY DEF Replace, TextInv, LayersAre
<1>2. ASSUME NEW dir \in DOMAIN ocred, ocred[dir] # NoLayer
      PROVE  ocred[dir].made \in Nat /\ ocred[dir].made <= clock + 1 /\ ~(ocred[dir].made >= clock + 1)
  <2>1. ocred[dir].made \in Nat /\ ocred[dir].made <= clock
    BY <1>2 DEF TextInv, LayersAre
  <2> DEFINE made == ocred[dir].made
  <2> HIDE DEF made
  <2>2. made \in Nat /\ made <= clock => made <= clock + 1 /\ ~(made >= clock + 1)
    BY <1>1
  <2> QED
    BY <2>1, <2>2 DEF made
<1>3. LayersAre'
  <2>1. saved' \in Nat /\ clock' \in Nat /\ saved' <= clock'
    BY <1>1
  <2>2. \A dir \in DOMAIN ocred' : ocred'[dir] # NoLayer =>
          /\ ocred'[dir].made \in Nat /\ ocred'[dir].made <= clock'
          /\ ~(ocred'[dir].made >= saved')
    BY <1>1, <1>2
  <2> QED
    BY <2>1, <2>2 DEF LayersAre
<1> QED
  BY <1>1, <1>3 DEF TextInv, Chosen, OfTheBook

LEMMA CallKeepsText == TextInv /\ Call => TextInv'
<1> SUFFICES ASSUME TextInv, Call PROVE TextInv'
  OBVIOUS
<1>1. stage' = "probe" /\ UNCHANGED <<book, saved, clock, ocred>>
  BY DEF Call, files
<1> QED
  BY <1>1, LayersKept DEF TextInv, Chosen, OfTheBook

LEMMA FailKeepsText == ASSUME NEW at, TextInv, Fail(at) PROVE TextInv'
<1>1. stage' = "error" /\ UNCHANGED <<book, saved, clock, ocred>>
  BY DEF Fail, files
<1> QED
  BY <1>1, LayersKept DEF TextInv, Chosen, OfTheBook

LEMMA SelectKeepsText == TextInv /\ Select => TextInv'
<1> SUFFICES ASSUME TextInv, Select PROVE TextInv'
  OBVIOUS
<1>1. CASE Fail("probe")
  BY <1>1, FailKeepsText
<1>2. CASE ~Fail("probe")
  <2>1. /\ stage' = "extract" /\ UNCHANGED <<book, saved, clock, ocred, request>>
        /\ request.extractor = "auto" => used' = Recommended(Books[book])
    BY <1>2 DEF Select, files
  <2> QED
    BY <2>1, LayersKept DEF TextInv, Chosen, OfTheBook
<1> QED
  BY <1>1, <1>2

\* Pages read off the book go to the model or to the cleaner.
LEMMA ExtractedKeepsText ==
  ASSUME book \in DOMAIN Books, Chosen, stage = "extract", NEW ps, ReadOff(ps), Extracted(ps),
         UNCHANGED <<book, request, used>>
  PROVE  Chosen' /\ OfTheBook'
<1>1. pages' = ps /\ stage' \in {"error", "suspect", "clean"}
  BY DEF Extracted
<1>2. stage' = "clean" => Hand(ps)
  BY DEF Extracted
<1>3. Chosen'
  BY <1>1 DEF Chosen
<1>4. stage' = "suspect" => ReadOff(pages)'
  <2>1. ReadOff(pages')
    BY <1>1
  <2> QED
    BY <2>1 DEF ReadOff, Legible
<1>5. ASSUME stage' = "clean"
      PROVE  handed' \subseteq UNION {Legible(Books[book].sheets[p]) : p \in DOMAIN Books[book].sheets}
  <2>1. PagesOnce(ps) /\ Hand(ps)
    BY <1>2, <1>5, ReadOffIs
  <2>2. handed' = {l.id : l \in LinesOn(ps)}
    BY <2>1, HandIs
  <2> QED
    BY <2>2, ReadOffIs
<1>6. OfTheBook'
  BY <1>1, <1>4, <1>5 DEF OfTheBook, Legible
<1> QED
  BY <1>3, <1>6

LEMMA ExtractTextKeepsText == Inv /\ TextInv /\ ExtractText => TextInv'
<1> SUFFICES ASSUME Inv, TextInv, ExtractText PROVE TextInv'
  OBVIOUS
<1>1. /\ stage = "extract" /\ used \in {"pymupdf", "poppler"}
      /\ Extracted(RawPages(Books[book], used))
      /\ UNCHANGED <<book, saved, clock, ocred, request, used>>
  BY DEF ExtractText, files
<1>2. book \in DOMAIN Books
  BY DEF Inv, FilesKnown
<1>3. ReadOff(RawPages(Books[book], used))
  BY <1>1, <1>2, RawPagesRead DEF TextInv, Chosen
<1> QED
  BY <1>1, <1>2, <1>3, ExtractedKeepsText, LayersKept DEF TextInv

\* The layer that is read is that of the book: it is made now, or it is no older
\* than the file.
LEMMA ExtractOcrKeepsText == Inv /\ TextInv /\ ExtractOcr => TextInv'
<1> SUFFICES ASSUME Inv, TextInv, ExtractOcr PROVE TextInv'
  OBVIOUS
<1>1. /\ stage = "extract" /\ used = "ocr"
      /\ Extracted(RawPages(WithImageText(Books[ocred'[OcrDir].of]), used))
      /\ UNCHANGED <<book, saved, request, used>>
  BY DEF ExtractOcr
<1>2. book \in DOMAIN Books /\ OcrDir \in DOMAIN ocred
  BY DEF OcrDir, Inv, FilesKnown
<1>3. LayersAre' /\ ocred'[OcrDir].of = book
  <2>1. CASE Reusable(ocred[OcrDir])
    <3>1. UNCHANGED <<ocred, clock>>
      BY <2>1 DEF ExtractOcr
    <3>2. ocred[OcrDir].of = book
      BY <1>2, <2>1 DEF Reusable, TextInv, LayersAre
    <3> QED
      BY <1>1, <3>1, <3>2, LayersKept DEF TextInv
  <2>2. CASE ~Reusable(ocred[OcrDir])
    <3>1. /\ clock' = clock + 1
          /\ ocred' = [ocred EXCEPT ![OcrDir] = [of |-> book, made |-> clock']]
      BY <2>2 DEF ExtractOcr
    <3>2. /\ DOMAIN ocred' = DOMAIN ocred /\ ocred'[OcrDir] = [of |-> book, made |-> clock + 1]
          /\ \A dir \in DOMAIN ocred \ {OcrDir} : ocred'[dir] = ocred[dir]
      BY <1>2, <3>1
    <3>3. saved \in Nat /\ clock \in Nat /\ saved <= clock
      BY DEF TextInv, LayersAre
    <3>4. ASSUME NEW dir \in DOMAIN ocred, ocred'[dir] # NoLayer
          PROVE  /\ ocred'[dir].made \in Nat /\ ocred'[dir].made <= clock + 1
                 /\ ocred'[dir].made >= saved => ocred'[dir].of = book
      <4>1. CASE dir = OcrDir
        <5>1. ocred'[dir].made = clock + 1 /\ ocred'[dir].of = book
          BY <3>2, <4>1
        <5> QED
          BY <3>3, <5>1
      <4>2. CASE dir # OcrDir
        <5>1. /\ ocred'[dir] = ocred[dir] /\ ocred[dir].made \in Nat /\ ocred[dir].made <= clock
              /\ ocred[dir].made >= saved => ocred[dir].of = book
          BY <3>2, <3>4, <4>2 DEF TextInv, LayersAre
        <5> DEFINE made == ocred[dir].made
        <5> HIDE DEF made
        <5>2. made \in Nat /\ made <= clock => made <= clock + 1
          BY <3>3
        <5> QED
          BY <5>1, <5>2 DEF made
      <4> QED
        BY <4>1, <4>2
    <3>5. saved' \in Nat /\ clock' \in Nat /\ saved' <= clock'
      BY <1>1, <3>1, <3>3
    <3>6. LayersAre'
      BY <1>1, <3>1, <3>2, <3>4, <3>5 DEF LayersAre
    <3> QED
      BY <3>2, <3>6
  <2> QED
    BY <2>1, <2>2
<1>4. ReadOff(RawPages(WithImageText(Books[ocred'[OcrDir].of]), used))
  BY <1>1, <1>2, <1>3, ImageRead
<1> QED
  BY <1>1, <1>2, <1>3, <1>4, ExtractedKeepsText DEF TextInv

LEMMA SuspectKeepsText == Inv /\ TextInv /\ Suspect => TextInv'
<1> SUFFICES ASSUME Inv, TextInv, Suspect PROVE TextInv'
  OBVIOUS
<1>1. /\ stage = "suspect" /\ stage' \in {"clean", "vision"}
      /\ stage' = "clean" => Hand(pages)
      /\ UNCHANGED <<pages, book, saved, clock, ocred, request, used>>
  BY DEF Suspect, files
<1>2. ReadOff(pages) /\ book \in DOMAIN Books
  BY <1>1 DEF TextInv, OfTheBook, Inv, FilesKnown
<1>3. ReadOff(pages)'
  BY <1>1, <1>2 DEF ReadOff, Legible
<1>4. ASSUME stage' = "clean"
      PROVE  handed' \subseteq UNION {Legible(Books[book].sheets[p]) : p \in DOMAIN Books[book].sheets}
  <2>1. handed' = {l.id : l \in LinesOn(pages)}
    BY <1>1, <1>2, <1>4, ReadOffIs, HandIs
  <2> QED
    BY <1>2, <2>1, ReadOffIs
<1>5. OfTheBook'
  BY <1>1, <1>3, <1>4 DEF OfTheBook, Legible
<1> QED
  BY <1>1, <1>5, LayersKept DEF TextInv, Chosen

LEMMA TranscribeKeepsText == TextInv /\ Transcribe => TextInv'
<1> SUFFICES ASSUME TextInv, Transcribe PROVE TextInv'
  OBVIOUS
<1>1. /\ stage = "vision"
      /\ UNCHANGED <<stage, pages, book, saved, clock, ocred, request, used>>
  BY DEF Transcribe, cleanVars, files
<1>2. ReadOff(pages)'
  BY <1>1 DEF TextInv, OfTheBook, ReadOff, Legible
<1> QED
  BY <1>1, <1>2, LayersKept DEF TextInv, Chosen, OfTheBook

LEMMA ApplyKeepsText == Inv /\ TextInv /\ Apply => TextInv'
<1> SUFFICES ASSUME Inv, TextInv, Apply PROVE TextInv'
  OBVIOUS
<1>1. /\ stage = "vision" /\ stage' = "clean" /\ Hand(pages')
      /\ UNCHANGED <<book, saved, clock, ocred, request, used>>
  BY DEF Apply, files
<1>2. book \in DOMAIN Books /\ ReadOff(pages')
  BY <1>1, AppliedRead DEF TextInv, OfTheBook, Inv, FilesKnown
<1>3. handed' = {l.id : l \in LinesOn(pages')}
  BY <1>1, <1>2, ReadOffIs, HandIs
<1>4. handed' \subseteq UNION {Legible(Books[book].sheets[p]) : p \in DOMAIN Books[book].sheets}
  BY <1>2, <1>3, ReadOffIs
<1>5. OfTheBook'
  BY <1>1, <1>4 DEF OfTheBook, Legible
<1> QED
  BY <1>1, <1>5, LayersKept DEF TextInv, Chosen

LEMMA CleanKeepsText == TextInv /\ CleanPass => TextInv'
<1> SUFFICES ASSUME TextInv, CleanPass PROVE TextInv'
  OBVIOUS
<1>1. stage = "clean" /\ UNCHANGED <<stage, book, saved, clock, ocred, request, used, handed>>
  BY DEF CleanPass, files
<1> QED
  BY <1>1, LayersKept, HandedKept DEF TextInv, Chosen

LEMMA FinishKeepsText == TextInv /\ Finish => TextInv'
<1> SUFFICES ASSUME TextInv, Finish PROVE TextInv'
  OBVIOUS
<1>1. stage' = "done" /\ UNCHANGED <<book, saved, clock, ocred>>
  BY DEF Finish
<1> QED
  BY <1>1, LayersKept DEF TextInv, Chosen, OfTheBook

LEMMA StutterKeepsText == TextInv /\ UNCHANGED vars => TextInv'
BY DEF TextInv, LayersAre, Chosen, OfTheBook, ReadOff, Legible, vars, cleanVars, files

\* In every state a layer that may be used again is that of the book in the file,
\* and what was read is of that book.
THEOREM TextInvHolds == Spec => []TextInv
<1>1. Inv /\ TextInv /\ [Next]_vars => TextInv'
  BY ReplaceKeepsText, CallKeepsText, SelectKeepsText, ExtractTextKeepsText, ExtractOcrKeepsText,
     FailKeepsText, SuspectKeepsText, TranscribeKeepsText, ApplyKeepsText, CleanKeepsText,
     FinishKeepsText, StutterKeepsText
  DEF Next, ExtractorFails, RasterizeFails
<1> QED
  BY InvHolds, TextInitially, <1>1, PTL DEF Spec

\* The text is that of the book the command was given: a layer of OCR is taken
\* again only when it is no older than the file, and a book is newer than the
\* layers of the one it replaces.  When the choice is the program's, nothing is
\* taken of a layer the probe has found empty or garbled.
THEOREM TextIsOfTheBook == Spec => []TextOfTheBook
<1>1. TextInv => TextOfTheBook
  <2> SUFFICES ASSUME TextInv, stage = "clean"
               PROVE  LET sheets == Books[book].sheets
                          printed == UNION {IdsIn(sheets[p].image) : p \in DOMAIN sheets}
                      IN /\ handed \subseteq UNION {IdsOn(sheets[p]) : p \in DOMAIN sheets}
                         /\ request.extractor = "auto" /\ Recommended(Books[book]) = "ocr" =>
                              handed \subseteq printed
    BY DEF TextOfTheBook
  <2>1. handed \subseteq UNION {Legible(Books[book].sheets[p]) : p \in DOMAIN Books[book].sheets}
    BY DEF TextInv, OfTheBook
  <2>2. \A p \in DOMAIN Books[book].sheets :
          Legible(Books[book].sheets[p]) \subseteq IdsOn(Books[book].sheets[p])
    BY LegibleIs
  <2>3. request.extractor = "auto" /\ Recommended(Books[book]) = "ocr" =>
          \A p \in DOMAIN Books[book].sheets :
            Legible(Books[book].sheets[p]) = IdsIn(Books[book].sheets[p].image)
    BY DEF Legible
  <2> QED
    BY <2>1, <2>2, <2>3
<1> QED
  BY TextInvHolds, <1>1, PTL

-----------------------------------------------------------------------------
(* The cleaner loses nothing *)

ParagraphLines == [n \in DOMAIN paragraphs |-> paragraphs[n].lines]
StrippedLines == [n \in DOMAIN stripped |-> stripped[n].line]

\* The lines of the text: on the pages, in the body, then in the paragraphs
TextLines ==
  CASE pass \in {"strip", "split"} -> LinesOf(pages)
    [] pass = "reflow" -> body
    [] OTHER -> FlattenSeq(ParagraphLines)

\* Three sequences that hold each member of a set in one place
Parted(gone, text, below, S) ==
  \E G, T, N : /\ Lists(gone, G) /\ Lists(text, T) /\ Lists(below, N)
               /\ G \cap T = {} /\ G \cap N = {} /\ T \cap N = {}
               /\ S = G \cup T \cup N

\* The set of lines the cleaner was given
GivenLines(S) ==
  /\ handed = {l.id : l \in S}
  /\ \A l, m \in S : l.id = m.id => l = m

\* What each pass finds
Prepared ==
  /\ pass \in {"strip", "split", "reflow", "caps", "hyphens", "clean"}
  /\ pass \in {"strip", "split"} => PagesOnce(pages) /\ notes = <<>>
  /\ pass = "strip" => stripped = <<>> /\ \A l \in LinesOn(pages) : ~Is(l, "blank")
  /\ pass \in {"caps", "hyphens", "clean"} =>
       /\ \A n \in DOMAIN paragraphs : "lines" \in DOMAIN paragraphs[n]

\* Every line is stripped, or in the text, or in a note.
Accounted ==
  stage = "clean" =>
    /\ Prepared
    /\ \E S : GivenLines(S) /\ Parted(StrippedLines, TextLines, FlattenSeq(notes), S)

LEMMA NoLines == FlattenSeq(<<>>) = <<>>
BY DEF FlattenSeq

LEMMA PartedIs ==
  ASSUME NEW gone, NEW text, NEW below, NEW S, Parted(gone, text, below, S)
  PROVE  /\ Lists(gone, ToSet(gone)) /\ Lists(text, ToSet(text)) /\ Lists(below, ToSet(below))
         /\ ToSet(gone) \cap ToSet(text) = {} /\ ToSet(gone) \cap ToSet(below) = {}
         /\ ToSet(text) \cap ToSet(below) = {}
         /\ S = ToSet(gone) \cup ToSet(text) \cup ToSet(below)
<1>1. PICK G, T, N : /\ Lists(gone, G) /\ Lists(text, T) /\ Lists(below, N)
                     /\ G \cap T = {} /\ G \cap N = {} /\ T \cap N = {}
                     /\ S = G \cup T \cup N
  BY DEF Parted
<1>2. G = ToSet(gone) /\ T = ToSet(text) /\ N = ToSet(below)
  BY <1>1, ListsItself
<1> QED
  BY <1>1, <1>2

\* The ids of lines that are in one place each are as many as the lines.
LEMMA IdsOnce ==
  ASSUME NEW S, NEW a, NEW b, Lists(a \o b, S),
         NEW A, NEW B, Lists(a, A), Lists(b, B),
         \A l, m \in S : l.id = m.id => l = m
  PROVE  /\ IsInjective(Ids(a) \o Ids(b))
         /\ ToSet(Ids(a) \o Ids(b)) = {l.id : l \in S}
<1> DEFINE long == a \o b  ids == Ids(a) \o Ids(b)  I == {l.id : l \in A \cup B}
           L == Len(a)  M == Len(b)
<1>1. /\ L \in Nat /\ M \in Nat /\ DOMAIN a = 1..L /\ DOMAIN b = 1..M
      /\ \A i \in 1..L : a[i] \in A
      /\ \A i \in 1..M : b[i] \in B
  BY ListsIs
<1>2. /\ long \in Seq(A \cup B) /\ Len(long) = L + M
      /\ \A i \in 1..L : long[i] = a[i]
      /\ \A i \in (L + 1)..(L + M) : long[i] = b[i - L]
  <2>1. a \in Seq(A \cup B) /\ b \in Seq(A \cup B)
    BY DEF Lists
  <2> QED
    BY <2>1, OneAfterTheOther
<1>3. /\ Ids(a) \in Seq(I) /\ Len(Ids(a)) = L /\ Ids(b) \in Seq(I) /\ Len(Ids(b)) = M
      /\ \A i \in 1..L : Ids(a)[i] = a[i].id
      /\ \A i \in 1..M : Ids(b)[i] = b[i].id
  <2>1. Ids(a) = [i \in 1..L |-> a[i].id] /\ Ids(b) = [i \in 1..M |-> b[i].id]
    BY <1>1 DEF Ids
  <2> HIDE DEF L, M
  <2>2. Ids(a) \in [1..L -> I] /\ Ids(b) \in [1..M -> I]
    BY <1>1, <2>1
  <2> HIDE DEF I
  <2> QED
    BY <1>1, <2>1, <2>2, SequenceOf
<1>4. /\ Len(ids) = L + M /\ DOMAIN ids = 1..(L + M)
      /\ \A i \in 1..L : ids[i] = Ids(a)[i]
      /\ \A i \in (L + 1)..(L + M) : ids[i] = Ids(b)[i - L]
  <2> DEFINE first == Ids(a)  second == Ids(b)
  <2>1. first \in Seq(I) /\ second \in Seq(I)
    BY <1>3
  <2>2. Len(first) = L /\ Len(second) = M /\ ids = first \o second
    BY <1>3
  <2> HIDE DEF first, second, I, L, M, ids
  <2>3. /\ Len(first \o second) = Len(first) + Len(second)
        /\ DOMAIN (first \o second) = 1..(Len(first) + Len(second))
        /\ \A i \in 1..Len(first) : (first \o second)[i] = first[i]
        /\ \A i \in (Len(first) + 1)..(Len(first) + Len(second)) :
             (first \o second)[i] = second[i - Len(first)]
    BY <2>1, OneAfterTheOther
  <2>4. /\ Len(ids) = L + M /\ DOMAIN ids = 1..(L + M)
        /\ \A i \in 1..L : ids[i] = first[i]
        /\ \A i \in (L + 1)..(L + M) : ids[i] = second[i - L]
    BY <2>2, <2>3, Zenon
  <2> QED
    BY <2>4 DEF first, second
<1> HIDE DEF long, ids, I, L, M
<1>5. ASSUME NEW i \in 1..(L + M) PROVE ids[i] = long[i].id
  <2>1. CASE i \in 1..L
    BY <1>2, <1>3, <1>4, <2>1
  <2>2. CASE i \in (L + 1)..(L + M)
    <3>1. i - L \in 1..M
      BY <1>1, <2>2
    <3>2. ids[i] = Ids(b)[i - L]
      BY <1>4, <2>2
    <3>3. Ids(b)[i - L] = b[i - L].id
      BY <1>3, <3>1
    <3>4. long[i] = b[i - L]
      BY <1>2, <2>2
    <3> QED
      BY <3>2, <3>3, <3>4
  <2> QED
    BY <1>1, <2>1, <2>2
<1>6. /\ Len(long) = L + M
      /\ \A i \in 1..(L + M) : long[i] \in S
      /\ S = {long[i] : i \in 1..(L + M)}
      /\ \A i, j \in 1..(L + M) : long[i] = long[j] => i = j
  <2>1. Lists(long, S)
    BY DEF long
  <2> QED
    BY <1>2, <2>1, ListsIs DEF Lists
<1>7. \A i, j \in 1..(L + M) : ids[i] = ids[j] => i = j
  BY <1>5, <1>6
<1>8. IsInjective(ids)
  BY <1>4, <1>7 DEF IsInjective
<1>9. ToSet(ids) = {l.id : l \in S}
  BY <1>4, <1>5, <1>6 DEF ToSet
<1> QED
  BY <1>8, <1>9 DEF ids

\* So nothing is lost.
LEMMA AccountedFor == Accounted => NothingLost
<1> SUFFICES ASSUME Accounted, stage = "clean"
             PROVE  LET ids == Ids(StrippedLines) \o Ids(Placed)
                    IN IsInjective(ids) /\ ToSet(ids) = handed
  BY DEF NothingLost, StrippedLines
<1> DEFINE gone == StrippedLines  text == TextLines  below == FlattenSeq(notes)
<1>1. PICK S : GivenLines(S) /\ Parted(gone, text, below, S)
  BY DEF Accounted
<1>2. /\ Lists(gone, ToSet(gone)) /\ Lists(text, ToSet(text)) /\ Lists(below, ToSet(below))
      /\ ToSet(gone) \cap ToSet(text) = {} /\ ToSet(gone) \cap ToSet(below) = {}
      /\ ToSet(text) \cap ToSet(below) = {}
      /\ S = ToSet(gone) \cup ToSet(text) \cup ToSet(below)
  <2> HIDE DEF gone, text, below
  <2> QED
    BY <1>1, PartedIs
<1>3. Lists(Placed, ToSet(text) \cup ToSet(below))
  <2>1. CASE pass \in {"strip", "split"}
    <3>1. Placed = text /\ notes = <<>>
      BY <2>1 DEF Placed, TextLines, Accounted, Prepared
    <3>2. below = <<>>
      BY <3>1, NoLines
    <3>3. ToSet(below) = {}
      BY <3>2 DEF ToSet
    <3> QED
      BY <1>2, <3>1, <3>3
  <2>2. CASE pass \notin {"strip", "split"}
    <3>1. Placed = text \o below
      BY <2>2 DEF Placed, TextLines, ParagraphLines
    <3> HIDE DEF gone, text, below
    <3> QED
      BY <1>2, <3>1, JoinLists
  <2> QED
    BY <2>1, <2>2
<1> HIDE DEF gone, text, below
<1>4. Lists(gone \o Placed, S)
  <2>1. ToSet(gone) \cap (ToSet(text) \cup ToSet(below)) = {}
    BY <1>2
  <2>2. Lists(gone \o Placed, ToSet(gone) \cup (ToSet(text) \cup ToSet(below)))
    BY <1>2, <1>3, <2>1, JoinLists
  <2>3. ToSet(gone) \cup (ToSet(text) \cup ToSet(below)) = S
    BY <1>2
  <2> QED
    BY <2>2, <2>3
<1>5. \A l, m \in S : l.id = m.id => l = m
  BY <1>1 DEF GivenLines
<1>6. IsInjective(Ids(gone) \o Ids(Placed)) /\ ToSet(Ids(gone) \o Ids(Placed)) = {l.id : l \in S}
  BY <1>2, <1>3, <1>4, <1>5, IdsOnce
<1> QED
  BY <1>1, <1>6 DEF GivenLines, gone

-----------------------------------------------------------------------------
(* A sequence that is cut *)

\* Where Runs cuts a sequence
CutAt(cuts, C, seq, starts) ==
  /\ C \in Nat /\ cuts \in [1..C -> 1..Len(seq)]
  /\ \A m, n \in 1..C : m < n <=> cuts[m] < cuts[n]
  /\ \A i \in 1..Len(seq) : i = 1 \/ i \in starts => \E n \in 1..C : cuts[n] = i

LastOf(cuts, C, seq, r) == IF r = C THEN Len(seq) ELSE cuts[r + 1] - 1

LEMMA RunsAre ==
  ASSUME NEW T, NEW seq \in Seq(T), NEW starts
  PROVE  \E C, cuts :
           /\ CutAt(cuts, C, seq, starts)
           /\ Runs(seq, starts) = [r \in 1..C |-> SubSeq(seq, cuts[r], LastOf(cuts, C, seq, r))]
<1> DEFINE P == DOMAIN seq \cap ({1} \cup starts)
           C == Cardinality(P)
           N == Len(seq)
           cuts == InOrder(P)
<1>1. N \in Nat /\ DOMAIN seq = 1..N
  BY SequenceIs
<1>2. /\ P \subseteq 1..N /\ IsFiniteSet(P) /\ P \in SUBSET Int
      /\ \A i \in 1..N : i = 1 \/ i \in starts => i \in P
  <2>1. IsFiniteSet(1..N) /\ P \subseteq 1..N /\ \A i \in 1..N : i = 1 \/ i \in starts => i \in P
    BY <1>1, UpTo
  <2> HIDE DEF P
  <2>2. IsFiniteSet(P)
    BY <2>1, FS_Subset
  <2>3. \A i \in 1..N : i \in Int
    BY <1>1
  <2> QED
    BY <2>1, <2>2, <2>3
<1> HIDE DEF P
<1>3. /\ C \in Nat /\ cuts \in [1..C -> P]
      /\ \A x \in P : \E n \in 1..C : cuts[n] = x
      /\ \A m, n \in 1..C : m < n <=> cuts[m] < cuts[n]
  BY <1>2, InOrderIs
<1>4. Len(cuts) = C /\ DOMAIN cuts = 1..C
  <2> HIDE DEF cuts, C
  <2> QED
    BY <1>3
<1>5. Runs(seq, starts) = [r \in 1..C |-> SubSeq(seq, cuts[r], LastOf(cuts, C, seq, r))]
  BY <1>4 DEF Runs, P, LastOf
<1> HIDE DEF C, cuts
<1>6. CutAt(cuts, C, seq, starts)
  BY <1>2, <1>3 DEF CutAt
<1> QED
  BY <1>5, <1>6

LEMMA CutsAre ==
  ASSUME NEW seq, Len(seq) \in Nat, NEW starts, NEW C, NEW cuts, CutAt(cuts, C, seq, starts)
  PROVE  /\ \A r \in 1..C : /\ cuts[r] \in 1..Len(seq)
                            /\ LastOf(cuts, C, seq, r) \in cuts[r]..Len(seq)
                            /\ \A q \in 1..C : r < q => LastOf(cuts, C, seq, r) < cuts[q]
         /\ \A i \in 1..Len(seq) : \E r \in 1..C : i \in cuts[r]..LastOf(cuts, C, seq, r)
<1> DEFINE N == Len(seq)
           last(r) == LastOf(cuts, C, seq, r)
<1>1. /\ C \in Nat /\ N \in Nat /\ cuts \in [1..C -> 1..N]
      /\ \A m, n \in 1..C : m < n <=> cuts[m] < cuts[n]
      /\ N # 0 => \E n \in 1..C : cuts[n] = 1
  BY DEF CutAt
<1>2. \A r \in 1..C : last(r) = IF r = C THEN N ELSE cuts[r + 1] - 1
  BY DEF LastOf
<1> HIDE DEF N, last
<1>3. \A m, n \in 1..C : m <= n => cuts[m] <= cuts[n]
  <2> SUFFICES ASSUME NEW m \in 1..C, NEW n \in 1..C, m <= n PROVE cuts[m] <= cuts[n]
    OBVIOUS
  <2>1. m \in Int /\ n \in Int /\ cuts[m] \in Int /\ cuts[n] \in Int
    BY <1>1
  <2>2. ~(n < m) /\ (n < m <=> cuts[n] < cuts[m])
    BY <1>1, <2>1
  <2> QED
    BY <2>1, <2>2
<1>4. ASSUME NEW r \in 1..C
      PROVE  /\ cuts[r] \in 1..N /\ last(r) \in cuts[r]..N
             /\ \A q \in 1..C : r < q => last(r) < cuts[q]
  <2>1. cuts[r] \in 1..N /\ r \in Int
    BY <1>1
  <2>2. r # C => r + 1 \in 1..C /\ cuts[r + 1] \in 1..N /\ cuts[r] < cuts[r + 1]
    BY <1>1, <2>1
  <2>3. last(r) \in cuts[r]..N
    BY <1>1, <1>2, <2>1, <2>2
  <2>4. ASSUME NEW q \in 1..C, r < q PROVE last(r) < cuts[q]
    <3>1. r # C /\ r + 1 <= q
      BY <1>1, <2>1, <2>4
    <3>2. cuts[r + 1] <= cuts[q] /\ cuts[q] \in 1..N
      BY <1>1, <1>3, <2>2, <2>4, <3>1
    <3> QED
      BY <1>1, <1>2, <2>2, <2>4, <3>1, <3>2
  <2> QED
    BY <2>1, <2>3, <2>4
<1>5. ASSUME NEW i \in 1..N PROVE \E r \in 1..C : i \in cuts[r]..last(r)
  <2> DEFINE After == {n \in 1..C : i < cuts[n]}
  <2>1. i \in Int /\ 1 <= i /\ i <= N /\ N # 0
    BY <1>1
  <2>2. PICK k \in 1..C : cuts[k] = 1
    BY <1>1, <2>1
  <2>3. 1 \in 1..C /\ 1 <= k
    BY <1>1, <2>2
  <2>4. cuts[1] <= i
    <3>1. cuts[1] <= cuts[k] /\ cuts[1] \in 1..N
      BY <1>1, <1>3, <2>3
    <3> QED
      BY <1>1, <2>1, <2>2, <3>1
  <2>5. CASE After = {}
    <3>1. C \in 1..C /\ last(C) = N
      BY <1>1, <1>2, <2>3
    <3>2. cuts[C] \in 1..N /\ ~(i < cuts[C])
      BY <1>1, <2>5, <3>1
    <3>3. i \in cuts[C]..last(C)
      BY <1>1, <2>1, <3>1, <3>2
    <3> QED
      BY <3>1, <3>3
  <2>6. CASE After # {}
    <3>1. PICK m \in After : \A n \in After : m <= n
      <4>1. After \in SUBSET Nat
        BY <1>1
      <4> HIDE DEF After
      <4> QED
        BY <2>6, <4>1, LeastNumber
    <3>2. m \in 1..C /\ i < cuts[m] /\ cuts[m] \in 1..N
      BY <1>1, <3>1
    <3>3. m # 1
      <4>1. cuts[1] \in 1..N
        BY <1>1, <2>3
      <4> QED
        BY <1>1, <2>1, <2>4, <3>2, <4>1
    <3>4. m - 1 \in 1..C /\ ~(m <= m - 1) /\ m - 1 # C /\ (m - 1) + 1 = m
      BY <1>1, <3>2, <3>3
    <3>5. m - 1 \notin After
      BY <3>1, <3>4
    <3>6. cuts[m - 1] \in 1..N /\ ~(i < cuts[m - 1])
      BY <1>1, <3>4, <3>5
    <3>7. last(m - 1) = cuts[m] - 1
      BY <1>2, <3>4
    <3>8. i \in cuts[m - 1]..last(m - 1)
      BY <1>1, <2>1, <3>2, <3>6, <3>7
    <3> QED
      BY <3>4, <3>8
  <2> QED
    BY <2>5, <2>6
<1> QED
  BY <1>4, <1>5 DEF N, last

\* What is cut is, one piece after the other, what it was.
LEMMA FlattenRuns ==
  ASSUME NEW T, NEW seq \in Seq(T), NEW starts
  PROVE  FlattenSeq(Runs(seq, starts)) = seq
<1> DEFINE N == Len(seq)
           runs == Runs(seq, starts)
<1>1. N \in Nat
  BY SequenceIs
<1>2. PICK C, cuts :
        /\ CutAt(cuts, C, seq, starts)
        /\ Runs(seq, starts) = [q \in 1..C |-> SubSeq(seq, cuts[q], LastOf(cuts, C, seq, q))]
  BY RunsAre
<1> DEFINE last(r) == LastOf(cuts, C, seq, r)
<1>3. /\ \A r \in 1..C : cuts[r] \in 1..N /\ last(r) \in cuts[r]..N
      /\ \A r \in 1..C : runs[r] = SubSeq(seq, cuts[r], last(r))
  BY <1>1, <1>2, CutsAre
<1>4. /\ C \in Nat
      /\ \A m, n \in 1..C : m < n <=> cuts[m] < cuts[n]
      /\ N # 0 => \E n \in 1..C : cuts[n] = 1
  BY <1>1, <1>2 DEF CutAt
<1>5. /\ \A r \in 1..C : r # C => last(r) = cuts[r + 1] - 1
      /\ C # 0 => last(C) = N
  BY DEF LastOf
<1>6. runs = [r \in 1..C |-> SubSeq(seq, cuts[r], LastOf(cuts, C, seq, r))] /\ Len(runs) = C
  <2>1. runs = [r \in 1..C |-> SubSeq(seq, cuts[r], LastOf(cuts, C, seq, r))]
    BY <1>2
  <2> HIDE DEF runs
  <2> QED
    BY <1>4, <2>1
<1> HIDE DEF N, runs, last
<1>7. CASE C = 0
  <2>1. N = 0
    BY <1>1, <1>4, <1>7
  <2>2. seq = <<>>
    BY <2>1 DEF N
  <2>3. runs = <<>>
    BY <1>6, <1>7
  <2>4. FlattenSeq(<<>>) = <<>>
    BY DEF FlattenSeq
  <2> QED
    BY <2>2, <2>3, <2>4 DEF runs
<1>8. CASE C # 0
  <2>1. PICK f : Joined(f, runs, C) /\ FlattenSeq(runs) = f[C]
    BY <1>4, <1>6, <1>8, FlattenIs
  <2>2. \A i \in 1..C : f[i] = IF i = 1 THEN runs[i] ELSE f[i - 1] \o runs[i]
    BY <2>1 DEF Joined
  <2>3. cuts[1] = 1 /\ 1 \in 1..C /\ N # 0
    <3>1. 1 \in 1..C /\ cuts[1] \in 1..N
      BY <1>3, <1>4, <1>8
    <3>2. N # 0
      BY <1>1, <3>1
    <3>3. PICK k \in 1..C : cuts[k] = 1
      BY <1>4, <3>2
    <3>4. ~(1 < k)
      <4>1. 1 < k => cuts[1] < cuts[k]
        BY <1>4, <3>1
      <4> QED
        BY <1>1, <3>1, <3>3, <4>1
    <3>5. k = 1
      BY <1>4, <3>4
    <3> QED
      BY <3>1, <3>2, <3>3, <3>5
  <2> DEFINE Wrong == {r \in 1..C : f[r] # SubSeq(seq, 1, last(r))}
  <2>4. Wrong = {}
    <3> SUFFICES ASSUME Wrong # {} PROVE FALSE
      OBVIOUS
    <3>1. PICK r \in Wrong : \A q \in Wrong : r <= q
      <4>1. Wrong \in SUBSET Nat
        BY <1>4
      <4> HIDE DEF Wrong
      <4> QED
        BY <4>1, LeastNumber
    <3>2. r \in 1..C /\ f[r] # SubSeq(seq, 1, last(r))
      BY <3>1
    <3>3. r # 1
      BY <1>3, <2>2, <2>3, <3>2
    <3>4. r - 1 \in 1..C /\ ~(r <= r - 1) /\ r - 1 # C /\ (r - 1) + 1 = r
      BY <1>4, <3>2, <3>3
    <3>5. r - 1 \notin Wrong
      BY <3>1, <3>4
    <3>6. f[r - 1] = SubSeq(seq, 1, last(r - 1))
      BY <3>4, <3>5
    <3>7. last(r - 1) = cuts[r] - 1
      BY <1>5, <3>4
    <3>8. f[r] = f[r - 1] \o runs[r]
      BY <2>2, <3>2, <3>3
    <3>9. /\ cuts[r] \in 1..N /\ last(r) \in cuts[r]..N
          /\ runs[r] = SubSeq(seq, cuts[r], last(r))
      BY <1>3, <3>2
    <3>10. /\ cuts[r] - 1 \in 0..N /\ last(r) \in (cuts[r] - 1)..N
           /\ (cuts[r] - 1) + 1 = cuts[r]
      BY <1>1, <3>9
    <3>11. SubSeq(seq, 1, cuts[r] - 1) \o SubSeq(seq, (cuts[r] - 1) + 1, last(r)) = SubSeq(seq, 1, last(r))
      BY <3>10, SubSeqJoined DEF N
    <3> QED
      BY <3>2, <3>6, <3>7, <3>8, <3>9, <3>10, <3>11
  <2>5. f[C] = SubSeq(seq, 1, N)
    <3>1. C \in 1..C /\ last(C) = N
      BY <1>4, <1>5, <1>8
    <3> QED
      BY <2>4, <3>1
  <2>6. SubSeq(seq, 1, N) = seq
    BY SubSeqWhole DEF N
  <2> QED
    BY <2>1, <2>5, <2>6 DEF runs
<1> QED
  BY <1>7, <1>8

\* Two elements that a piece has side by side were so, and nothing starts between.
LEMMA RunsAreWhole ==
  ASSUME NEW T, NEW seq \in Seq(T), NEW starts, NEW r \in DOMAIN Runs(seq, starts)
  PROVE  /\ Runs(seq, starts)[r] \in Seq(T)
         /\ \A i \in 2..Len(Runs(seq, starts)[r]) :
              \E k \in DOMAIN seq \ {1} :
                /\ k \notin starts
                /\ Runs(seq, starts)[r][i - 1] = seq[k - 1]
                /\ Runs(seq, starts)[r][i] = seq[k]
<1> DEFINE N == Len(seq)
           runs == Runs(seq, starts)
<1>1. N \in Nat /\ DOMAIN seq = 1..N
  BY SequenceIs
<1>2. PICK C, cuts :
        /\ CutAt(cuts, C, seq, starts)
        /\ runs = [q \in 1..C |-> SubSeq(seq, cuts[q], LastOf(cuts, C, seq, q))]
  BY RunsAre
<1> DEFINE last == LastOf(cuts, C, seq, r)
<1>3. r \in 1..C /\ runs[r] = SubSeq(seq, cuts[r], last)
  BY <1>2
<1>4. /\ cuts[r] \in 1..N /\ last \in cuts[r]..N
      /\ \A q \in 1..C : r < q => last < cuts[q]
  BY <1>1, <1>2, <1>3, CutsAre
<1>5. /\ C \in Nat /\ cuts \in [1..C -> 1..N]
      /\ \A m, n \in 1..C : m < n <=> cuts[m] < cuts[n]
      /\ \A i \in 1..N : i = 1 \/ i \in starts => \E n \in 1..C : cuts[n] = i
  BY <1>2 DEF CutAt
<1> HIDE DEF last, runs
<1>6. /\ runs[r] \in Seq(T) /\ Len(runs[r]) = last - cuts[r] + 1
      /\ \A i \in 1..(last - cuts[r] + 1) : runs[r][i] = seq[cuts[r] + i - 1]
  <2>1. cuts[r] \in 1..(Len(seq) + 1) /\ last \in 0..Len(seq) /\ cuts[r] <= last + 1
    BY <1>1, <1>4
  <2> HIDE DEF N
  <2> QED
    BY <1>3, <2>1, SubSeqIs
<1> HIDE DEF N
<1>7. ASSUME NEW i \in 2..Len(runs[r])
      PROVE  \E k \in DOMAIN seq \ {1} :
               k \notin starts /\ runs[r][i - 1] = seq[k - 1] /\ runs[r][i] = seq[k]
  <2> DEFINE k == cuts[r] + i - 1
  <2>1. cuts[r] \in Int /\ last \in Int /\ 1 <= cuts[r] /\ last <= N
    BY <1>1, <1>4
  <2>2. i \in Int /\ 2 <= i /\ i <= last - cuts[r] + 1
    BY <1>6, <2>1
  <2>3. k \in 1..N /\ k # 1 /\ cuts[r] < k /\ k <= last /\ k \in Int
    BY <1>1, <2>1, <2>2
  <2>4. i \in 1..(last - cuts[r] + 1) /\ i - 1 \in 1..(last - cuts[r] + 1)
        /\ cuts[r] + (i - 1) - 1 = k - 1
    BY <2>1, <2>2
  <2>5. runs[r][i] = seq[k] /\ runs[r][i - 1] = seq[k - 1]
    BY <1>6, <2>4
  <2> HIDE DEF k
  <2>6. k \notin starts
    <3> SUFFICES ASSUME k \in starts PROVE FALSE
      OBVIOUS
    <3>1. PICK n \in 1..C : cuts[n] = k
      BY <1>5, <2>3
    <3>2. r < n
      BY <1>3, <1>5, <2>3, <3>1
    <3>3. last < k
      BY <1>4, <3>1, <3>2
    <3> QED
      BY <2>1, <2>3, <3>3
  <2> QED
    BY <1>1, <2>3, <2>5, <2>6
<1> QED
  BY <1>6, <1>7 DEF runs

\* A sequence that is cut loses nothing.
LEMMA RunsOnce ==
  ASSUME NEW S, NEW seq, Lists(seq, S), NEW starts
  PROVE  /\ Len(Runs(seq, starts)) \in Nat
         /\ EachOnce(Runs(seq, starts), Len(Runs(seq, starts)))
         /\ Held(Runs(seq, starts)) = S
<1> DEFINE N == Len(seq)
           runs == Runs(seq, starts)
<1>1. /\ N \in Nat /\ DOMAIN seq = 1..N
      /\ S = {seq[i] : i \in 1..N}
      /\ \A i, j \in 1..N : seq[i] = seq[j] => i = j
  <2>1. N \in Nat /\ DOMAIN seq = 1..N /\ S = {seq[i] : i \in 1..N}
    BY ListsIs
  <2> QED
    BY <2>1 DEF Lists
<1>2. PICK C, cuts :
        /\ CutAt(cuts, C, seq, starts)
        /\ Runs(seq, starts) = [q \in 1..C |-> SubSeq(seq, cuts[q], LastOf(cuts, C, seq, q))]
  <2>1. seq \in Seq(S)
    BY DEF Lists
  <2> QED
    BY <2>1, RunsAre
<1> DEFINE last(r) == LastOf(cuts, C, seq, r)
<1>3. C \in Nat
  BY <1>2 DEF CutAt
<1>4. \A i \in 1..N : \E r \in 1..C : i \in cuts[r]..last(r)
  BY <1>1, <1>2, CutsAre
<1>5. runs = [q \in 1..C |-> SubSeq(seq, cuts[q], last(q))]
  BY <1>2
<1>6. \A r \in 1..C : /\ cuts[r] \in 1..N /\ last(r) \in cuts[r]..N
                      /\ \A q \in 1..C : r < q => last(r) < cuts[q]
  BY <1>1, <1>2, CutsAre
<1> HIDE DEF N, runs, last
<1>8. ASSUME NEW r \in 1..C
      PROVE  /\ cuts[r] \in 1..(N + 1) /\ last(r) \in 0..N
             /\ runs[r] = SubSeq(seq, cuts[r], last(r))
             /\ \A q \in 1..C : r < q => last(r) < cuts[q]
  <2>1. cuts[r] \in 1..N /\ last(r) \in cuts[r]..N
    BY <1>6
  <2>2. cuts[r] \in 1..(N + 1) /\ last(r) \in 0..N
    BY <1>1, <2>1
  <2> QED
    BY <1>5, <1>6, <2>2
<1> DEFINE piece(r) == {seq[i] : i \in cuts[r]..last(r)}
<1>9. ASSUME NEW r \in 1..C PROVE Lists(runs[r], piece(r)) /\ ToSet(runs[r]) = piece(r)
  <2>1. Lists(SubSeq(seq, cuts[r], last(r)), piece(r))
    <3>1. cuts[r] \in 1..(Len(seq) + 1) /\ last(r) \in 0..Len(seq)
      BY <1>8 DEF N
    <3> HIDE DEF last
    <3> QED
      BY <3>1, SubLists
  <2> HIDE DEF piece, last
  <2> QED
    BY <1>8, <2>1, ListsItself
<1>10. ASSUME NEW r \in 1..C, NEW q \in 1..C, r < q PROVE piece(r) \cap piece(q) = {}
  <2>1. last(r) < cuts[q] /\ last(r) \in 0..N /\ last(q) \in 0..N /\ cuts[r] \in 1..N /\ cuts[q] \in 1..N
    BY <1>6, <1>8, <1>10
  <2> HIDE DEF last
  <2>2. /\ \A i \in cuts[r]..last(r) : i \in 1..N /\ i <= last(r)
        /\ \A i \in cuts[q]..last(q) : i \in 1..N /\ last(r) < i
    BY <1>1, <2>1
  <2>3. \A i \in cuts[r]..last(r) : \A j \in cuts[q]..last(q) : i # j
    BY <1>1, <2>1, <2>2
  <2>4. \A i \in cuts[r]..last(r) : \A j \in cuts[q]..last(q) : seq[i] # seq[j]
    BY <1>1, <2>2, <2>3
  <2> QED
    BY <2>4
<1>11. \A r, q \in 1..C : r # q => piece(r) \cap piece(q) = {}
  <2> SUFFICES ASSUME NEW r \in 1..C, NEW q \in 1..C, r # q PROVE piece(r) \cap piece(q) = {}
    OBVIOUS
  <2> HIDE DEF piece
  <2>1. r < q \/ q < r
    BY <1>3
  <2> QED
    BY <1>10, <2>1
<1>12. ASSUME NEW i \in 1..N PROVE \E r \in 1..C : seq[i] \in piece(r)
  BY <1>4
<1>13. ASSUME NEW r \in 1..C PROVE piece(r) \subseteq S
  <2>1. last(r) \in 0..N /\ cuts[r] \in 1..N
    BY <1>6, <1>8
  <2> HIDE DEF last
  <2>2. \A i \in cuts[r]..last(r) : i \in 1..N
    BY <1>1, <2>1
  <2> QED
    BY <1>1, <2>2
<1>14. Len(runs) = C /\ DOMAIN runs = 1..C
  <2> HIDE DEF last
  <2> QED
    BY <1>3, <1>5
<1>15. EachOnce(runs, C)
  <2> HIDE DEF last, piece
  <2>1. runs = [r \in 1..C |-> runs[r]]
    BY <1>5
  <2> QED
    BY <1>9, <1>11, <2>1 DEF EachOnce
<1>16. Held(runs) = S
  <2> HIDE DEF piece
  <2>1. Held(runs) = UNION {piece(r) : r \in 1..C}
    BY <1>9, <1>14 DEF Held
  <2>2. \A x \in S : \E r \in 1..C : x \in piece(r)
    BY <1>1, <1>12
  <2> QED
    BY <1>13, <2>1, <2>2
<1> QED
  BY <1>3, <1>14, <1>15, <1>16 DEF runs

-----------------------------------------------------------------------------
LEMMA LineLists ==
  ASSUME NEW R, NEW recs, Lists(recs, R), \A r, s \in R : r.line = s.line => r = s
  PROVE  Lists([n \in DOMAIN recs |-> recs[n].line], {r.line : r \in R})
<1> DEFINE lines == [n \in DOMAIN recs |-> recs[n].line]
           S == {r.line : r \in R}
           N == Len(recs)
<1>1. /\ N \in Nat /\ DOMAIN recs = 1..N
      /\ \A i \in 1..N : recs[i] \in R
  BY ListsIs
<1>2. /\ \A r \in R : \E i \in 1..N : recs[i] = r
      /\ \A i, j \in 1..N : recs[i] = recs[j] => i = j
  BY DEF Lists
<1>3. lines = [n \in 1..N |-> recs[n].line]
  BY <1>1
<1> HIDE DEF N, lines
<1>4. lines \in [1..N -> S]
  BY <1>1, <1>3
<1>5. \A x \in S : \E i \in 1..N : lines[i] = x
  BY <1>2, <1>3
<1>6. \A i, j \in 1..N : lines[i] = lines[j] => i = j
  BY <1>1, <1>2, <1>3
<1> HIDE DEF S
<1>7. lines \in Seq(S) /\ Len(lines) = N
  BY <1>1, <1>4, SequenceOf
<1> QED
  BY <1>5, <1>6, <1>7 DEF Lists, lines, S

\* The cleaner begins with what is on the pages.
LEMMA BeginAccounted ==
  ASSUME book \in DOMAIN Books, NEW ps, ReadOff(ps), Hand(ps), pages' = ps
  PROVE  Accounted'
<1>1. /\ PagesOnce(ps)
      /\ \A l \in LinesOn(ps) : ~Is(l, "blank")
      /\ \A l, m \in LinesOn(ps) : l.id = m.id => l = m
  BY ReadOffIs
<1>2. /\ pass' = "strip" /\ stripped' = <<>> /\ notes' = <<>>
      /\ handed' = {l.id : l \in LinesOn(ps)}
  BY <1>1, HandIs DEF Hand, BeginCleaning
<1>3. Prepared'
  BY <1>1, <1>2 DEF Prepared
<1>4. StrippedLines' = <<>> /\ TextLines' = LinesOf(ps) /\ FlattenSeq(notes') = <<>>
  <2>1. StrippedLines' = <<>>
    BY <1>2 DEF StrippedLines
  <2>2. TextLines' = LinesOf(ps)
    BY <1>2 DEF TextLines
  <2> QED
    BY <1>2, <2>1, <2>2, NoLines
<1>5. GivenLines(LinesOn(ps))'
  BY <1>1, <1>2 DEF GivenLines
<1>6. Parted(<<>>, LinesOf(ps), <<>>, LinesOn(ps))
  <2>1. Lists(LinesOf(ps), LinesOn(ps)) /\ Lists(<<>>, {})
    BY <1>1, LinesOfPages, ListsNothing
  <2> QED
    BY <2>1 DEF Parted
<1> QED
  BY <1>3, <1>4, <1>5, <1>6 DEF Accounted

LEMMA AccountedMoves ==
  ASSUME Accounted, stage = "clean", UNCHANGED handed, Prepared',
         \A S : Parted(StrippedLines, TextLines, FlattenSeq(notes), S) =>
                  Parted(StrippedLines', TextLines', FlattenSeq(notes'), S)
  PROVE  Accounted'
BY DEF Accounted, GivenLines

\* The reason strip_furniture has to strip a line
Why(p, i) ==
  LET size == BodySize(pages)
  IN Reason(pages[p], pages[p].lines[i], size, IF "heads" \in on THEN Furniture(size) ELSE {})

\* It notes the lines it has a reason to strip, and no others.
NotedAreStripped ==
  /\ \A p \in DOMAIN pages : \A i \in DOMAIN pages[p].lines :
       Why(p, i) # "kept" =>
         \E k \in DOMAIN stripped' : stripped'[k] = [line |-> pages[p].lines[i], why |-> Why(p, i)]
  /\ \A k \in DOMAIN stripped' :
       \E p \in DOMAIN pages : \E i \in DOMAIN pages[p].lines :
         stripped'[k] = [line |-> pages[p].lines[i], why |-> Why(p, i)]

\* What strip_furniture takes it notes, line by line.
LEMMA StripAccounts ==
  ASSUME Accounted, stage = "clean", Strip, UNCHANGED handed
  PROVE  Accounted' /\ NotedAreStripped
<1> DEFINE size == BodySize(pages)
           furniture == IF "heads" \in on THEN Furniture(size) ELSE {}
           reason == [p \in DOMAIN pages |->
                        [i \in DOMAIN pages[p].lines |->
                           [line |-> pages[p].lines[i],
                            why |-> Reason(pages[p], pages[p].lines[i], size, furniture)]]]
           Written(p) == {i \in DOMAIN reason[p] : ~Is(reason[p][i].line, "blank")}
           Kept(p) == {i \in Written(p) : reason[p][i].why = "kept"}
           recs == [p \in DOMAIN pages |-> At(reason[p], Written(p) \ Kept(p))]
<1>1. /\ pages' = [p \in DOMAIN pages |->
                     [pages[p] EXCEPT !.lines = At(pages[p].lines, Kept(p))]]
      /\ stripped' = FlattenSeq(recs)
      /\ pass = "strip" /\ pass' = "split" /\ UNCHANGED notes
  BY DEF Strip
<1>2. /\ PagesOnce(pages) /\ notes = <<>> /\ stripped = <<>>
      /\ \A l \in LinesOn(pages) : ~Is(l, "blank")
  BY <1>1 DEF Accounted, Prepared
<1>3. PICK n \in Nat : /\ DOMAIN pages = 1..n
                       /\ \A p \in 1..n : "lines" \in DOMAIN pages[p]
                       /\ EachOnce([p \in DOMAIN pages |-> pages[p].lines], n)
  BY <1>2 DEF PagesOnce
<1> DEFINE lines(p) == pages[p].lines
<1>4. /\ \A p \in 1..n : Lists(lines(p), ToSet(lines(p)))
      /\ \A p, q \in 1..n : p # q => ToSet(lines(p)) \cap ToSet(lines(q)) = {}
  BY <1>3 DEF EachOnce
<1>5. ASSUME NEW p \in 1..n
      PROVE  /\ DOMAIN reason[p] = DOMAIN lines(p)
             /\ \A i \in DOMAIN lines(p) : reason[p][i].line = lines(p)[i] /\ lines(p)[i] \in ToSet(lines(p))
             /\ reason[p] = [i \in DOMAIN lines(p) |-> reason[p][i]]
  BY <1>3 DEF ToSet
<1>6. ASSUME NEW p \in 1..n PROVE Written(p) = DOMAIN lines(p)
  <2>1. \A i \in DOMAIN lines(p) : ~Is(lines(p)[i], "blank")
    BY <1>2, <1>3, <1>5 DEF LinesOn
  <2> HIDE DEF reason
  <2> QED
    BY <1>5, <2>1
<1>6a. \A p \in 1..n : \A i \in DOMAIN lines(p) :
        reason[p][i] = [line |-> lines(p)[i], why |-> Why(p, i)]
  BY <1>3 DEF Why
<1> HIDE DEF reason
<1>7. \A p \in 1..n : Kept(p) \subseteq DOMAIN lines(p) /\ Written(p) \ Kept(p) \subseteq DOMAIN lines(p)
  BY <1>6
<1> DEFINE left(p) == {lines(p)[i] : i \in Kept(p)}
           gone(p) == {lines(p)[i] : i \in Written(p) \ Kept(p)}
           rest(p) == {reason[p][i] : i \in Written(p) \ Kept(p)}
<1>8. ASSUME NEW p \in 1..n
      PROVE  /\ left(p) \cup gone(p) = ToSet(lines(p)) /\ left(p) \cap gone(p) = {}
  <2>1. \A i, j \in DOMAIN lines(p) : lines(p)[i] = lines(p)[j] => i = j
    <3>1. Lists(lines(p), ToSet(lines(p)))
      BY <1>4
    <3> HIDE DEF lines
    <3>2. DOMAIN lines(p) = 1..Len(lines(p))
      BY <3>1, ListsIs
    <3> QED
      BY <3>1, <3>2 DEF Lists
  <2>2. ToSet(lines(p)) = {lines(p)[i] : i \in DOMAIN lines(p)}
    BY DEF ToSet
  <2> HIDE DEF Kept, Written, lines
  <2> QED
    BY <1>6, <1>7, <2>1, <2>2
<1>9. ASSUME NEW p \in 1..n PROVE Lists(At(lines(p), Kept(p)), left(p))
  <2>1. Lists(lines(p), ToSet(lines(p))) /\ Kept(p) \in SUBSET DOMAIN lines(p)
    BY <1>4, <1>7
  <2> HIDE DEF Kept, lines
  <2> QED
    BY <2>1, AtLists
<1>10. ASSUME NEW p \in 1..n PROVE Lists(reason[p], ToSet(reason[p]))
  <2>1. /\ Len(lines(p)) \in Nat /\ DOMAIN lines(p) = 1..Len(lines(p))
        /\ \A i, j \in 1..Len(lines(p)) : lines(p)[i] = lines(p)[j] => i = j
    <3>1. Lists(lines(p), ToSet(lines(p)))
      BY <1>4
    <3>2. Len(lines(p)) \in Nat /\ DOMAIN lines(p) = 1..Len(lines(p))
      BY <3>1, ListsIs
    <3> QED
      BY <3>1, <3>2 DEF Lists
  <2> DEFINE m == Len(lines(p))  recs1 == reason[p]
  <2>2. /\ recs1 = [i \in 1..m |-> recs1[i]] /\ \A i \in 1..m : recs1[i].line = lines(p)[i]
    BY <1>5, <2>1
  <2> HIDE DEF m, recs1
  <2>3. \A i \in 1..m : recs1[i] \in ToSet(recs1)
    BY <2>2 DEF ToSet
  <2>4. recs1 \in [1..m -> ToSet(recs1)]
    <3> HIDE DEF ToSet
    <3> QED
      BY <2>2, <2>3
  <2>5. recs1 \in Seq(ToSet(recs1)) /\ Len(recs1) = m /\ DOMAIN recs1 = 1..m
    BY <2>1, <2>4, SequenceOf DEF m
  <2>6. \A x \in ToSet(recs1) : \E i \in 1..m : recs1[i] = x
    BY <2>5 DEF ToSet
  <2>7. \A i, j \in 1..m : recs1[i] = recs1[j] => i = j
    BY <2>1, <2>2 DEF m
  <2> QED
    BY <2>5, <2>6, <2>7 DEF Lists, recs1
<1>11. ASSUME NEW p \in 1..n PROVE Lists(recs[p], rest(p)) /\ ToSet(recs[p]) = rest(p)
  <2>1. Written(p) \ Kept(p) \in SUBSET DOMAIN reason[p] /\ recs[p] = At(reason[p], Written(p) \ Kept(p))
    BY <1>3, <1>5, <1>7
  <2> HIDE DEF Written, Kept, recs
  <2>2. Lists(At(reason[p], Written(p) \ Kept(p)), {reason[p][i] : i \in Written(p) \ Kept(p)})
    BY <1>10, <2>1, AtLists
  <2> QED
    BY <2>1, <2>2, ListsItself
<1>12. ASSUME NEW p \in 1..n, NEW r \in rest(p)
       PROVE  \E i \in Written(p) \ Kept(p) : r = reason[p][i] /\ r.line = lines(p)[i] /\ r.line \in ToSet(lines(p))
  <2>1. PICK i \in Written(p) \ Kept(p) : r = reason[p][i]
    BY <1>12
  <2>2. i \in DOMAIN lines(p)
    BY <1>7
  <2> HIDE DEF Written, Kept, lines
  <2> QED
    BY <1>5, <2>1, <2>2
<1>13. \A p, q \in 1..n : p # q => rest(p) \cap rest(q) = {}
  <2> SUFFICES ASSUME NEW p \in 1..n, NEW q \in 1..n, p # q, NEW r \in rest(p), r \in rest(q)
               PROVE  FALSE
    OBVIOUS
  <2>1. r.line \in ToSet(lines(p)) /\ r.line \in ToSet(lines(q))
    <3> HIDE DEF rest, lines, Kept, Written
    <3> QED
      BY <1>12
  <2> QED
    BY <1>4, <2>1
<1>14. EachOnce(recs, n)
  <2>1. recs = [p \in 1..n |-> recs[p]]
    BY <1>3
  <2> HIDE DEF recs, rest
  <2> QED
    BY <1>11, <1>13, <2>1 DEF EachOnce
<1> DEFINE R == UNION {rest(p) : p \in 1..n}
           G == UNION {gone(p) : p \in 1..n}
           T == UNION {left(p) : p \in 1..n}
<1>15. Lists(stripped', R)
  <2>1. UNION {ToSet(recs[p]) : p \in 1..n} = R
    <3> HIDE DEF recs, rest
    <3> QED
      BY <1>11
  <2> HIDE DEF recs, R
  <2> QED
    BY <1>1, <1>14, <2>1, FlattenOnce
<1>15a. NotedAreStripped
  <2>1. DOMAIN stripped' = 1..Len(stripped') /\ R = {stripped'[k] : k \in DOMAIN stripped'}
    <3> HIDE DEF R
    <3> QED
      BY <1>15, ListsIs
  <2>2. ASSUME NEW p \in 1..n, NEW i \in DOMAIN lines(p), Why(p, i) # "kept"
        PROVE  \E k \in DOMAIN stripped' : stripped'[k] = [line |-> lines(p)[i], why |-> Why(p, i)]
    <3>1. i \in Written(p) \ Kept(p)
      <4>1. i \in Written(p)
        BY <1>6, <2>2
      <4> HIDE DEF Written, lines
      <4>2. reason[p][i] = [line |-> lines(p)[i], why |-> Why(p, i)]
        BY <1>6a, <2>2
      <4>3. reason[p][i].why # "kept"
        BY <2>2, <4>2
      <4> QED
        BY <4>1, <4>3
    <3>2. reason[p][i] \in R
      BY <3>1
    <3> HIDE DEF R, lines
    <3> QED
      BY <1>6a, <2>1, <2>2, <3>2
  <2>3. ASSUME NEW k \in DOMAIN stripped'
        PROVE  \E p \in 1..n : \E i \in DOMAIN lines(p) :
                 stripped'[k] = [line |-> lines(p)[i], why |-> Why(p, i)]
    <3>1. stripped'[k] \in R
      BY <2>1, <2>3
    <3>2. PICK p \in 1..n : stripped'[k] \in rest(p)
      BY <3>1
    <3>3. PICK i \in Written(p) \ Kept(p) : stripped'[k] = reason[p][i]
      BY <3>2
    <3>4. i \in DOMAIN lines(p)
      BY <1>7
    <3> HIDE DEF Written, Kept, lines
    <3> QED
      BY <1>6a, <3>3, <3>4
  <2> HIDE DEF R, rest, Written, Kept
  <2> QED
    BY <1>3, <2>2, <2>3 DEF NotedAreStripped
<1>16. {r.line : r \in R} = G
  <2>1. \A p \in 1..n : \A i \in Written(p) \ Kept(p) : reason[p][i].line = lines(p)[i]
    BY <1>5, <1>7
  <2> HIDE DEF Written, Kept, lines
  <2> QED
    BY <2>1
<1>17. ASSUME NEW r \in R, NEW s \in R, r.line = s.line PROVE r = s
  <2>1. PICK p \in 1..n, q \in 1..n : r \in rest(p) /\ s \in rest(q)
    BY DEF R
  <2> HIDE DEF rest, lines, Kept, Written
  <2>2. PICK i \in Written(p) \ Kept(p) : r = reason[p][i] /\ r.line = lines(p)[i] /\ r.line \in ToSet(lines(p))
    BY <1>12, <2>1
  <2>3. PICK j \in Written(q) \ Kept(q) : s = reason[q][j] /\ s.line = lines(q)[j] /\ s.line \in ToSet(lines(q))
    BY <1>12, <2>1
  <2>4. p = q
    BY <1>4, <1>17, <2>2, <2>3
  <2>5. i \in DOMAIN lines(p) /\ j \in DOMAIN lines(p)
    BY <1>7, <2>4
  <2>6. i = j
    <3>1. Lists(lines(p), ToSet(lines(p)))
      BY <1>4
    <3>2. i \in 1..Len(lines(p)) /\ j \in 1..Len(lines(p)) /\ lines(p)[i] = lines(p)[j]
      BY <1>17, <2>2, <2>3, <2>4, <2>5, <3>1, ListsIs
    <3> QED
      BY <3>1, <3>2 DEF Lists
  <2> QED
    BY <2>2, <2>3, <2>4, <2>6
<1>18. Lists(StrippedLines', G)
  <2>1. Lists([k \in DOMAIN stripped' |-> stripped'[k].line], {r.line : r \in R})
    <3> HIDE DEF R
    <3> QED
      BY <1>15, <1>17, LineLists
  <2> HIDE DEF R, G
  <2> QED
    BY <1>16, <2>1 DEF StrippedLines
<1>19. /\ DOMAIN pages' = 1..n
       /\ \A p \in 1..n : "lines" \in DOMAIN pages'[p] /\ pages'[p].lines = At(lines(p), Kept(p))
  <2> HIDE DEF Kept
  <2> QED
    BY <1>1, <1>3
<1>20. \A p \in 1..n : ToSet(pages'[p].lines) = left(p) /\ Lists(pages'[p].lines, left(p))
  <2> HIDE DEF left, Kept, lines
  <2> QED
    BY <1>9, <1>19, ListsItself
<1>21. PagesOnce(pages')
  <2> DEFINE seqs == [p \in DOMAIN pages' |-> pages'[p].lines]
  <2>1. seqs = [p \in 1..n |-> seqs[p]] /\ \A p \in 1..n : seqs[p] = pages'[p].lines
    BY <1>19
  <2>2. \A p, q \in 1..n : p # q => left(p) \cap left(q) = {}
    <3>1. \A p \in 1..n : left(p) \subseteq ToSet(lines(p))
      BY <1>8
    <3> HIDE DEF left, lines
    <3> QED
      BY <1>4, <3>1
  <2>3. EachOnce(seqs, n)
    <3> HIDE DEF seqs, left
    <3> QED
      BY <1>20, <2>1, <2>2 DEF EachOnce
  <2> QED
    BY <1>19, <2>3 DEF PagesOnce
<1>22. Lists(LinesOf(pages'), T)
  <2>1. LinesOn(pages') = T
    <3> HIDE DEF left
    <3> QED
      BY <1>19, <1>20 DEF LinesOn
  <2>2. Lists(LinesOf(pages'), LinesOn(pages'))
    BY <1>21, LinesOfPages
  <2> HIDE DEF T
  <2> QED
    BY <2>1, <2>2
<1>23. G \cup T = LinesOn(pages) /\ G \cap T = {}
  <2>1. LinesOn(pages) = UNION {ToSet(lines(p)) : p \in 1..n}
    BY <1>3 DEF LinesOn
  <2>2. \A p \in 1..n : left(p) \subseteq ToSet(lines(p)) /\ gone(p) \subseteq ToSet(lines(p))
    BY <1>8
  <2> HIDE DEF left, gone, lines
  <2>3. G \cup T = LinesOn(pages)
    BY <1>8, <2>1
  <2>4. G \cap T = {}
    BY <1>4, <1>8, <2>2
  <2> QED
    BY <2>3, <2>4
<1> HIDE DEF G, T, R, recs, left, gone, rest, lines, Kept, Written
<1>24. ASSUME NEW S, Parted(StrippedLines, TextLines, FlattenSeq(notes), S)
       PROVE  Parted(StrippedLines', TextLines', FlattenSeq(notes'), S)
  <2>1. StrippedLines = <<>> /\ FlattenSeq(notes) = <<>> /\ TextLines = LinesOf(pages)
    BY <1>1, <1>2, NoLines DEF StrippedLines, TextLines
  <2>2. ToSet(<<>>) = {}
    BY DEF ToSet
  <2>3. S = ToSet(LinesOf(pages))
    <3>1. S = ToSet(StrippedLines) \cup ToSet(TextLines) \cup ToSet(FlattenSeq(notes))
      BY <1>24, PartedIs
    <3> QED
      BY <2>1, <2>2, <3>1
  <2>4. S = LinesOn(pages)
    BY <1>2, <2>3, LinesOfPages, ListsItself
  <2>5. TextLines' = LinesOf(pages') /\ FlattenSeq(notes') = <<>>
    BY <1>1, <1>2, NoLines DEF TextLines
  <2>6. Parted(StrippedLines', LinesOf(pages'), <<>>, S)
    <3>1. G \cap {} = {} /\ T \cap {} = {} /\ S = G \cup T \cup {}
      BY <1>23, <2>4
    <3> QED
      BY <1>18, <1>22, <1>23, <3>1, ListsNothing DEF Parted
  <2> QED
    BY <2>5, <2>6
<1>25. Prepared'
  BY <1>1, <1>2, <1>21 DEF Prepared
<1> QED
  BY <1>24, <1>25, <1>15a, AccountedMoves

-----------------------------------------------------------------------------
\* The notes are some of the last lines of a page.
LEMMA NoteLinesAre ==
  ASSUME NEW n \in Nat, NEW lines, DOMAIN lines = 1..n, NEW size
  PROVE  NoteLines(lines, size) \in 0..n
<1> DEFINE small == {i \in DOMAIN lines : lines[i].size > 0 /\ 100 * lines[i].size <= NotePercent * size}
           foot == SmallFoot(lines, small)
<1>1. foot \subseteq 1..n
  BY DEF SmallFoot
<1>2. IsFiniteSet(1..n) /\ Cardinality(1..n) = n
  BY UpTo
<1>3. Cardinality(foot) \in Nat /\ Cardinality(foot) <= n
  <2> HIDE DEF foot
  <2>1. IsFiniteSet(foot) /\ Cardinality(foot) <= Cardinality(1..n)
    BY <1>1, <1>2, FS_Subset
  <2> QED
    BY <1>2, <2>1, FS_CardinalityType
<1>4. NoteLines(lines, size) \in {0, Cardinality(foot)}
  BY DEF NoteLines
<1> HIDE DEF foot
<1> QED
  BY <1>3, <1>4

\* split_footnote_lines and group_footnotes put each line above the notes or in
\* one of them.
LEMMA SplitAccounts ==
  ASSUME Accounted, stage = "clean", Split, UNCHANGED handed
  PROVE  Accounted'
<1> DEFINE lines(p) == pages[p].lines
           count == [p \in DOMAIN pages |-> NoteLines(pages[p].lines, bodySize')]
           Above(p) == SubSeq(pages[p].lines, 1, Len(pages[p].lines) - count[p])
           Foot(p) == SubSeq(pages[p].lines, Len(pages[p].lines) - count[p] + 1, Len(pages[p].lines))
           tops == [p \in DOMAIN pages |-> Above(p)]
           groups == [p \in DOMAIN pages |-> GroupNotes(Foot(p))]
<1>1. /\ body' = FlattenSeq(tops) /\ notes' = FlattenSeq(groups)
      /\ pass = "split" /\ pass' = "reflow" /\ UNCHANGED stripped
  BY DEF Split
<1>2. PagesOnce(pages) /\ notes = <<>>
  BY <1>1 DEF Accounted, Prepared
<1>3. PICK n \in Nat : /\ DOMAIN pages = 1..n
                       /\ EachOnce([p \in DOMAIN pages |-> pages[p].lines], n)
  BY <1>2 DEF PagesOnce
<1>4. /\ \A p \in 1..n : Lists(lines(p), ToSet(lines(p)))
      /\ \A p, q \in 1..n : p # q => ToSet(lines(p)) \cap ToSet(lines(q)) = {}
  BY <1>3 DEF EachOnce
<1> DEFINE N(p) == Len(lines(p))
           M(p) == N(p) - count[p]
           upper(p) == {lines(p)[i] : i \in 1..M(p)}
           lower(p) == {lines(p)[i] : i \in (M(p) + 1)..N(p)}
<1>5. ASSUME NEW p \in 1..n
      PROVE  /\ N(p) \in Nat /\ DOMAIN lines(p) = 1..N(p) /\ M(p) \in 0..N(p)
             /\ \A i, j \in 1..N(p) : lines(p)[i] = lines(p)[j] => i = j
             /\ ToSet(lines(p)) = {lines(p)[i] : i \in 1..N(p)}
  <2>1. N(p) \in Nat /\ DOMAIN lines(p) = 1..N(p)
    BY <1>4, ListsIs
  <2>2. count[p] = NoteLines(lines(p), bodySize')
    BY <1>3
  <2> HIDE DEF lines
  <2>3. NoteLines(lines(p), bodySize') \in 0..N(p)
    BY <2>1, NoteLinesAre
  <2> HIDE DEF count, N
  <2>4. M(p) \in 0..N(p)
    BY <2>1, <2>2, <2>3
  <2>5. \A i, j \in 1..N(p) : lines(p)[i] = lines(p)[j] => i = j
    BY <1>4 DEF Lists, N
  <2>6. ToSet(lines(p)) = {lines(p)[i] : i \in 1..N(p)}
    BY <2>1 DEF ToSet
  <2> QED
    BY <2>1, <2>4, <2>5, <2>6
<1>6. \A p \in 1..n : Above(p) = SubSeq(lines(p), 1, M(p)) /\ Foot(p) = SubSeq(lines(p), M(p) + 1, N(p))
  OBVIOUS
<1> HIDE DEF count
<1>7. ASSUME NEW p \in 1..n PROVE Lists(Above(p), upper(p)) /\ Lists(Foot(p), lower(p))
  <2>1. M(p) \in 0..N(p) /\ N(p) \in Nat /\ 1 \in 1..(N(p) + 1) /\ M(p) + 1 \in 1..(N(p) + 1) /\ N(p) \in 0..N(p)
    <3>1. M(p) \in 0..N(p) /\ N(p) \in Nat
      BY <1>5
    <3> HIDE DEF M, N
    <3> QED
      BY <3>1
  <2> HIDE DEF Above, Foot, lines, M
  <2> QED
    <3>1. Len(lines(p)) = N(p)
      BY DEF N, lines
    <3>2. Lists(lines(p), ToSet(lines(p)))
      BY <1>4
    <3> HIDE DEF N
    <3>3. Lists(SubSeq(lines(p), 1, M(p)), {lines(p)[i] : i \in 1..M(p)})
      BY <2>1, <3>1, <3>2, SubLists
    <3>4. Lists(SubSeq(lines(p), M(p) + 1, N(p)), {lines(p)[i] : i \in (M(p) + 1)..N(p)})
      BY <2>1, <3>1, <3>2, SubLists
    <3> QED
      BY <1>6, <3>3, <3>4
<1> HIDE DEF Above, Foot
<1>8. ASSUME NEW p \in 1..n
      PROVE  upper(p) \cup lower(p) = ToSet(lines(p)) /\ upper(p) \cap lower(p) = {}
  <2>1. M(p) \in 0..N(p) /\ N(p) \in Nat
    BY <1>5
  <2> DEFINE m == M(p)  l == N(p)
  <2> HIDE DEF m, l
  <2>2. /\ \A i \in 1..m : i \in 1..l /\ ~(i > m)
        /\ \A i \in (m + 1)..l : i \in 1..l /\ i > m
        /\ \A i \in 1..l : i \in 1..m \/ i \in (m + 1)..l
    BY <2>1 DEF m, l
  <2>3. /\ \A i, j \in 1..l : lines(p)[i] = lines(p)[j] => i = j
        /\ ToSet(lines(p)) = {lines(p)[i] : i \in 1..l}
        /\ upper(p) = {lines(p)[i] : i \in 1..m} /\ lower(p) = {lines(p)[i] : i \in (m + 1)..l}
    BY <1>5 DEF m, l
  <2> HIDE DEF upper, lower, lines, M, N
  <2> QED
    BY <2>2, <2>3
<1> HIDE DEF upper, lower, M, N
<1>9. \A p, q \in 1..n : p # q => /\ upper(p) \cap upper(q) = {} /\ lower(p) \cap lower(q) = {}
                                  /\ upper(p) \cap lower(q) = {}
  <2>1. \A p \in 1..n : upper(p) \subseteq ToSet(lines(p)) /\ lower(p) \subseteq ToSet(lines(p))
    BY <1>8
  <2> HIDE DEF lines
  <2> QED
    BY <1>4, <2>1
<1> DEFINE T == UNION {upper(p) : p \in 1..n}
           B == UNION {lower(p) : p \in 1..n}
<1>10. Lists(body', T)
  <2>1. tops = [p \in 1..n |-> tops[p]] /\ \A p \in 1..n : tops[p] = Above(p)
    BY <1>3
  <2> HIDE DEF tops
  <2>2. \A p \in 1..n : Lists(tops[p], ToSet(tops[p])) /\ ToSet(tops[p]) = upper(p)
    BY <1>7, <2>1, ListsItself
  <2>3. EachOnce(tops, n)
    BY <1>9, <2>1, <2>2 DEF EachOnce
  <2>4. UNION {ToSet(tops[p]) : p \in 1..n} = T
    BY <2>2
  <2> HIDE DEF T
  <2> QED
    BY <1>1, <2>3, <2>4, FlattenOnce
<1>11. ASSUME NEW p \in 1..n
       PROVE  /\ Len(groups[p]) \in Nat /\ EachOnce(groups[p], Len(groups[p]))
              /\ Held(groups[p]) = lower(p)
  <2>1. groups[p] = GroupNotes(Foot(p))
    BY <1>3
  <2> HIDE DEF groups
  <2>2. Lists(Foot(p), lower(p))
    BY <1>7
  <2> QED
    BY <2>1, <2>2, RunsOnce DEF GroupNotes
<1>12. Lists(FlattenSeq(notes'), B)
  <2>1. groups = [p \in 1..n |-> groups[p]]
    BY <1>3
  <2> HIDE DEF groups
  <2>2. \A p, q \in 1..n : p # q => Held(groups[p]) \cap Held(groups[q]) = {}
    BY <1>9, <1>11
  <2>3. UNION {Held(groups[p]) : p \in 1..n} = B
    BY <1>11
  <2> HIDE DEF B
  <2>4. Len(notes') \in Nat /\ EachOnce(notes', Len(notes')) /\ Held(notes') = B
    <3>1. /\ Len(FlattenSeq(groups)) \in Nat
          /\ EachOnce(FlattenSeq(groups), Len(FlattenSeq(groups)))
          /\ Held(FlattenSeq(groups)) = UNION {Held(groups[p]) : p \in 1..n}
      BY <1>11, <2>1, <2>2, FlattenGroups
    <3> QED
      BY <1>1, <2>3, <3>1
  <2>5. Lists(FlattenSeq(notes'), UNION {ToSet(notes'[p]) : p \in 1..Len(notes')})
    BY <2>4, FlattenOnce
  <2> QED
    BY <2>4, <2>5 DEF Held
<1>13. T \cup B = LinesOn(pages) /\ T \cap B = {}
  <2>1. LinesOn(pages) = UNION {ToSet(lines(p)) : p \in 1..n}
    BY <1>3 DEF LinesOn
  <2> HIDE DEF lines
  <2>2. T \cup B = LinesOn(pages)
    BY <1>8, <2>1
  <2>3. T \cap B = {}
    BY <1>8, <1>9
  <2> QED
    BY <2>2, <2>3
<1> HIDE DEF T, B, tops, groups
<1>14. ASSUME NEW S, Parted(StrippedLines, TextLines, FlattenSeq(notes), S)
       PROVE  Parted(StrippedLines', TextLines', FlattenSeq(notes'), S)
  <2> DEFINE G == ToSet(StrippedLines)
  <2>1. /\ Lists(StrippedLines, G) /\ G \cap ToSet(TextLines) = {}
        /\ S = G \cup ToSet(TextLines) \cup ToSet(FlattenSeq(notes))
    BY <1>14, PartedIs
  <2>2. TextLines = LinesOf(pages) /\ FlattenSeq(notes) = <<>>
    BY <1>1, <1>2, NoLines DEF TextLines
  <2>3. ToSet(TextLines) = LinesOn(pages) /\ ToSet(FlattenSeq(notes)) = {}
    <3>1. ToSet(<<>>) = {}
      BY DEF ToSet
    <3> QED
      BY <1>2, <2>2, <3>1, LinesOfPages, ListsItself
  <2>4. StrippedLines' = StrippedLines /\ TextLines' = body'
    <3>1. StrippedLines' = StrippedLines
      BY <1>1 DEF StrippedLines
    <3>2. TextLines' = body'
      BY <1>1 DEF TextLines
    <3> QED
      BY <3>1, <3>2
  <2> HIDE DEF G
  <2>5. G \cap T = {} /\ G \cap B = {} /\ S = G \cup T \cup B
    BY <1>13, <2>1, <2>3
  <2>6. Parted(StrippedLines, body', FlattenSeq(notes'), S)
    BY <1>10, <1>12, <1>13, <2>1, <2>5 DEF Parted
  <2> QED
    BY <2>4, <2>6
<1>15. Prepared'
  BY <1>1 DEF Prepared
<1> QED
  BY <1>14, <1>15, AccountedMoves

\* group_paragraphs cuts the body, and loses nothing of it.
LEMMA ReflowAccounts ==
  ASSUME Accounted, stage = "clean", Reflow, UNCHANGED handed
  PROVE  Accounted'
<1>1. /\ pass = "reflow" /\ pass' = "caps" /\ UNCHANGED <<stripped, notes>>
      /\ \E starts : paragraphs' = [r \in DOMAIN Runs(body, starts) |-> Paragraph(Runs(body, starts)[r])]
  BY DEF Reflow
<1>2. PICK starts : paragraphs' = [r \in DOMAIN Runs(body, starts) |-> Paragraph(Runs(body, starts)[r])]
  BY <1>1
<1> DEFINE runs == Runs(body, starts)
<1>3. DOMAIN paragraphs' = DOMAIN runs
      /\ \A r \in DOMAIN runs : "lines" \in DOMAIN paragraphs'[r] /\ paragraphs'[r].lines = runs[r]
  BY <1>2 DEF Paragraph
<1>4. ASSUME NEW S, Parted(StrippedLines, TextLines, FlattenSeq(notes), S)
      PROVE  Parted(StrippedLines', TextLines', FlattenSeq(notes'), S)
  <2> DEFINE T == ToSet(body)
  <2>1. Lists(body, T) /\ TextLines = body
    <3>1. TextLines = body
      BY <1>1 DEF TextLines
    <3> QED
      BY <1>4, <3>1, PartedIs
  <2>2. Len(runs) \in Nat /\ EachOnce(runs, Len(runs)) /\ Held(runs) = T
    BY <2>1, RunsOnce
  <2> HIDE DEF runs, T
  <2>3. Lists(FlattenSeq(runs), T)
    BY <2>2, FlattenOnce DEF Held
  <2>4. ParagraphLines' = runs
    <3>1. ParagraphLines' = [r \in DOMAIN runs |-> runs[r]]
      BY <1>3 DEF ParagraphLines
    <3>2. runs = [r \in DOMAIN runs |-> runs[r]]
      BY <2>2, EachOnceIs DEF EachOnce
    <3> QED
      BY <3>1, <3>2
  <2>5. StrippedLines' = StrippedLines /\ TextLines' = FlattenSeq(runs) /\ FlattenSeq(notes') = FlattenSeq(notes)
    <3>1. StrippedLines' = StrippedLines
      BY <1>1 DEF StrippedLines
    <3>2. TextLines' = FlattenSeq(runs)
      BY <1>1, <2>4 DEF TextLines
    <3> QED
      BY <1>1, <3>1, <3>2
  <2>6. Parted(StrippedLines, FlattenSeq(runs), FlattenSeq(notes), S)
    <3>1. /\ Lists(StrippedLines, ToSet(StrippedLines)) /\ Lists(FlattenSeq(notes), ToSet(FlattenSeq(notes)))
          /\ ToSet(StrippedLines) \cap T = {} /\ ToSet(StrippedLines) \cap ToSet(FlattenSeq(notes)) = {}
          /\ T \cap ToSet(FlattenSeq(notes)) = {}
          /\ S = ToSet(StrippedLines) \cup T \cup ToSet(FlattenSeq(notes))
      BY <1>4, <2>1, PartedIs DEF T
    <3> QED
      BY <2>3, <3>1 DEF Parted
  <2> QED
    BY <2>5, <2>6
<1>5. Prepared'
  BY <1>1, <1>3 DEF Prepared
<1> QED
  BY <1>4, <1>5, AccountedMoves

\* A paragraph whose joints or first letter are repaired has the lines it had.
LEMMA RepairAccounts ==
  ASSUME Accounted, stage = "clean", UNCHANGED <<handed, stripped, notes>>,
         pass \in {"caps", "hyphens"}, pass' \in {"caps", "hyphens", "clean"},
         DOMAIN paragraphs' = DOMAIN paragraphs,
         \A n \in DOMAIN paragraphs : "lines" \in DOMAIN paragraphs[n] =>
           "lines" \in DOMAIN paragraphs'[n] /\ paragraphs'[n].lines = paragraphs[n].lines
  PROVE  Accounted'
<1>1. \A n \in DOMAIN paragraphs : "lines" \in DOMAIN paragraphs[n]
  BY DEF Accounted, Prepared
<1>2. ParagraphLines' = ParagraphLines
  BY <1>1 DEF ParagraphLines
<1>3. Prepared'
  BY <1>1 DEF Prepared
<1>4. StrippedLines' = StrippedLines /\ TextLines' = TextLines /\ FlattenSeq(notes') = FlattenSeq(notes)
  <2>1. StrippedLines' = StrippedLines
    BY DEF StrippedLines
  <2>2. TextLines' = TextLines
    BY <1>2 DEF TextLines
  <2> QED
    BY <2>1, <2>2
<1> QED
  BY <1>3, <1>4, AccountedMoves

LEMMA CapsAccounts ==
  ASSUME Accounted, stage = "clean", RepairDropCaps, UNCHANGED handed
  PROVE  Accounted'
<1>1. /\ pass = "caps" /\ pass' = "hyphens" /\ UNCHANGED <<stripped, notes>>
      /\ DOMAIN paragraphs' = DOMAIN paragraphs
      /\ \A n \in DOMAIN paragraphs : "lines" \in DOMAIN paragraphs[n] =>
           "lines" \in DOMAIN paragraphs'[n] /\ paragraphs'[n].lines = paragraphs[n].lines
  BY DEF RepairDropCaps
<1> QED
  BY <1>1, RepairAccounts

LEMMA DehyphenateAccounts ==
  ASSUME Accounted, stage = "clean", Dehyphenate, UNCHANGED handed
  PROVE  Accounted'
<1>1. /\ pass = "hyphens" /\ pass' = "clean" /\ UNCHANGED <<stripped, notes>>
      /\ DOMAIN paragraphs' = DOMAIN paragraphs
      /\ \A n \in DOMAIN paragraphs : "lines" \in DOMAIN paragraphs[n] =>
           "lines" \in DOMAIN paragraphs'[n] /\ paragraphs'[n].lines = paragraphs[n].lines
  BY DEF Dehyphenate
<1> QED
  BY <1>1, RepairAccounts

-----------------------------------------------------------------------------
LEMMA ExtractedAccounts ==
  ASSUME book \in DOMAIN Books, NEW ps, ReadOff(ps), Extracted(ps)
  PROVE  Accounted'
<1>1. CASE stage' = "clean"
  <2>1. pages' = ps /\ Hand(ps)
    BY <1>1 DEF Extracted
  <2> QED
    BY <2>1, BeginAccounted
<1>2. CASE stage' # "clean"
  BY <1>2 DEF Accounted
<1> QED
  BY <1>1, <1>2

LEMMA ExtractTextAccounts ==
  ASSUME Inv, TextInv, ExtractText
  PROVE  Accounted'
<1>1. /\ stage = "extract" /\ used \in {"pymupdf", "poppler"}
      /\ Extracted(RawPages(Books[book], used))
  BY DEF ExtractText
<1>2. book \in DOMAIN Books
  BY DEF Inv, FilesKnown
<1>3. ReadOff(RawPages(Books[book], used))
  BY <1>1, <1>2, RawPagesRead DEF TextInv, Chosen
<1> QED
  BY <1>1, <1>2, <1>3, ExtractedAccounts

LEMMA ExtractOcrAccounts ==
  ASSUME Inv, TextInv, ExtractOcr
  PROVE  Accounted'
<1>1. used = "ocr" /\ Extracted(RawPages(WithImageText(Books[ocred'[OcrDir].of]), used))
  BY DEF ExtractOcr
<1>2. book \in DOMAIN Books /\ OcrDir \in DOMAIN ocred
  BY DEF OcrDir, Inv, FilesKnown
<1>3. ocred'[OcrDir].of = book
  <2>1. CASE Reusable(ocred[OcrDir])
    BY <1>2, <2>1 DEF ExtractOcr, Reusable, TextInv, LayersAre
  <2>2. CASE ~Reusable(ocred[OcrDir])
    <3>1. ocred' = [ocred EXCEPT ![OcrDir] = [of |-> book, made |-> clock']]
      BY <2>2 DEF ExtractOcr
    <3> QED
      BY <1>2, <3>1
  <2> QED
    BY <2>1, <2>2
<1>4. ReadOff(RawPages(WithImageText(Books[ocred'[OcrDir].of]), used))
  BY <1>1, <1>2, <1>3, ImageRead
<1> QED
  BY <1>1, <1>2, <1>4, ExtractedAccounts

LEMMA SuspectAccounts ==
  ASSUME Inv, TextInv, Suspect
  PROVE  Accounted'
<1>1. CASE stage' = "clean"
  <2>1. /\ stage = "suspect" /\ pages' = pages
        /\ Hand(pages)
    BY <1>1 DEF Suspect
  <2>2. ReadOff(pages) /\ book \in DOMAIN Books
    BY <2>1 DEF TextInv, OfTheBook, Inv, FilesKnown
  <2> QED
    BY <2>1, <2>2, BeginAccounted
<1>2. CASE stage' # "clean"
  BY <1>2 DEF Accounted
<1> QED
  BY <1>1, <1>2

LEMMA ApplyAccounts ==
  ASSUME Inv, TextInv, Apply
  PROVE  Accounted'
<1>1. stage = "vision" /\ Hand(pages')
  BY DEF Apply
<1>2. book \in DOMAIN Books /\ ReadOff(pages')
  BY <1>1, AppliedRead DEF TextInv, OfTheBook, Inv, FilesKnown
<1> QED
  BY <1>1, <1>2, BeginAccounted

LEMMA CleanPassAccounts ==
  ASSUME Accounted, CleanPass
  PROVE  Accounted'
<1>1. stage = "clean" /\ UNCHANGED handed /\ Clean
  BY DEF CleanPass
<1> QED
  BY <1>1, StripAccounts, SplitAccounts, ReflowAccounts, CapsAccounts, DehyphenateAccounts DEF Clean

\* The cleaner is not at work before these, nor after them.
LEMMA OthersAccount ==
  ASSUME \/ Replace \/ Call \/ Select \/ ExtractorFails \/ Transcribe \/ RasterizeFails \/ Finish
  PROVE  Accounted'
<1>1. stage' # "clean"
  BY DEF Replace, Call, Select, ExtractorFails, RasterizeFails, Fail, Transcribe, Finish
<1> QED
  BY <1>1 DEF Accounted

LEMMA StutterAccounts ==
  ASSUME Accounted, UNCHANGED vars
  PROVE  Accounted'
<1>1. UNCHANGED <<stage, handed, pass, pages, stripped, body, notes, paragraphs>>
  BY DEF vars, cleanVars, cleaned
<1>2. StrippedLines' = StrippedLines /\ TextLines' = TextLines /\ Prepared' = Prepared
  BY <1>1 DEF StrippedLines, TextLines, ParagraphLines, LinesOf, LinesOn, Prepared, PagesOnce
<1> QED
  BY <1>1, <1>2 DEF Accounted, GivenLines

\* While the cleaner is at work each line it was given is stripped, or in the
\* text, or in a note, in one place.
THEOREM AccountedHolds == Spec => []Accounted
<1>1. Init => Accounted
  BY DEF Init, Accounted
<1>2. Inv /\ TextInv /\ Accounted /\ [Next]_vars => Accounted'
  BY ExtractTextAccounts, ExtractOcrAccounts, SuspectAccounts, ApplyAccounts, CleanPassAccounts,
     OthersAccount, StutterAccounts
  DEF Next
<1> QED
  BY InvHolds, TextInvHolds, <1>1, <1>2, PTL DEF Spec

\* The cleaner loses nothing and repeats nothing, with any switches, whatever it
\* takes for furniture, for a note or for the end of a paragraph: after every
\* pass of clean_document each line it was handed is in one place, stripped with
\* a reason, waiting, in one paragraph or in one note.
THEOREM NothingIsLost == Spec => []NothingLost
BY AccountedHolds, AccountedFor, PTL

-----------------------------------------------------------------------------
(* Running heads *)

LEMMA SightedIs ==
  ASSUME PagesOnce(pages), NEW size
  PROVE  /\ IsFiniteSet(Sighted(size)) /\ IsFiniteSet(DOMAIN pages)
         /\ \A s \in Sighted(size) :
              /\ s[1] \in DOMAIN pages /\ s[2] \in DOMAIN pages[s[1]].lines
              /\ s[1] \in Nat /\ s[2] \in Nat /\ s = <<s[1], s[2]>>
<1>1. PICK n \in Nat : /\ DOMAIN pages = 1..n
                       /\ EachOnce([p \in DOMAIN pages |-> pages[p].lines], n)
  BY DEF PagesOnce
<1>2. \A p \in 1..n : Lists(pages[p].lines, ToSet(pages[p].lines))
  BY <1>1 DEF EachOnce
<1>3. \A p \in 1..n : Len(pages[p].lines) \in Nat /\ DOMAIN pages[p].lines = 1..Len(pages[p].lines)
  BY <1>2, ListsIs
<1> DEFINE row == [p \in 1..n |-> {p} \X DOMAIN pages[p].lines]
           all == UNION {row[p] : p \in 1..n}
<1>4. ASSUME NEW p \in 1..n PROVE IsFiniteSet(row[p])
  <2>1. IsFiniteSet({p}) /\ IsFiniteSet(DOMAIN pages[p].lines)
    BY <1>3, UpTo, FS_Singleton
  <2> QED
    BY <2>1, FS_Product
<1>5. IsFiniteSet(1..n)
  BY UpTo
<1>6. IsFiniteSet(all)
  <2>1. DOMAIN row = 1..n
    OBVIOUS
  <2> HIDE DEF row
  <2>2. IsFiniteSet({row[p] : p \in 1..n})
    BY <1>5, <2>1, ImageIsFinite
  <2> QED
    BY <1>4, <2>2, FS_UNION
<1>7. Sighted(size) \subseteq all
  BY <1>1 DEF Sighted
<1>8. ASSUME NEW s \in all
      PROVE  s[1] \in 1..n /\ s[2] \in DOMAIN pages[s[1]].lines /\ s = <<s[1], s[2]>>
  <2>1. PICK p \in 1..n : s \in {p} \X DOMAIN pages[p].lines
    BY <1>8
  <2> QED
    BY <2>1
<1> HIDE DEF all
<1>9. ASSUME NEW s \in all PROVE s[1] \in Nat /\ s[2] \in Nat
  BY <1>3, <1>8, <1>9
<1>10. IsFiniteSet(Sighted(size))
  BY <1>6, <1>7, FS_Subset
<1> QED
  BY <1>1, <1>5, <1>7, <1>8, <1>9, <1>10

\* Places on the pages
OnPages(S) == \A s \in S : s = <<s[1], s[2]>> /\ s[1] \in Nat /\ s[2] \in Nat

LEMMA SoonerIs ==
  ASSUME NEW S, OnPages(S)
  PROVE  Orders({p \in S \X S : Sooner(p[1], p[2])}, S)
<1>1. \A s \in S : ~Sooner(s, s)
  BY DEF Sooner, OnPages
<1>2. \A s, t, u \in S : Sooner(s, t) /\ Sooner(t, u) => Sooner(s, u)
  BY DEF Sooner, OnPages
<1>3. \A s, t \in S : s[1] = t[1] /\ s[2] = t[2] => s = t
  BY DEF OnPages
<1>4. \A s, t \in S : s = t \/ Sooner(s, t) \/ Sooner(t, s)
  BY <1>3 DEF Sooner, OnPages
<1> HIDE DEF Sooner
<1> QED
  BY <1>1, <1>2, <1>4 DEF Orders

\* The order of the candidates
KeyOrder(sighted) == {kl \in Keys(sighted) \X Keys(sighted) : KeyBefore(kl[1], kl[2], sighted)}

LEMMA KeysOrdered ==
  ASSUME NEW sighted, IsFiniteSet(sighted), OnPages(sighted)
  PROVE  IsFiniteSet(Keys(sighted)) /\ Orders(KeyOrder(sighted), Keys(sighted))
<1> DEFINE Seen(k) == {s \in sighted : KeyAt(s) = k}
           count(k) == Cardinality(Seen(k))
           First(k, s) == s \in Seen(k) /\ \A t \in Seen(k) : t = s \/ Sooner(s, t)
           first(k) == CHOOSE s : First(k, s)
           early(k, l) == \E s \in Seen(k) : \A t \in Seen(l) : Sooner(s, t)
<1>1. IsFiniteSet(Keys(sighted))
  <2> DEFINE f == [s \in sighted |-> KeyAt(s)]
  <2>1. IsFiniteSet({f[s] : s \in sighted})
    <3>1. DOMAIN f = sighted
      OBVIOUS
    <3> HIDE DEF f
    <3> QED
      BY <3>1, ImageIsFinite
  <2>2. {f[s] : s \in sighted} = Keys(sighted)
    BY DEF Keys
  <2> QED
    BY <2>1, <2>2
<1>2. /\ \A s \in sighted : ~Sooner(s, s)
      /\ \A s, t, u \in sighted : Sooner(s, t) /\ Sooner(t, u) => Sooner(s, u)
      /\ \A s, t \in sighted : s = t \/ Sooner(s, t) \/ Sooner(t, s)
  BY SoonerIs DEF Orders
<1>3. ASSUME NEW k \in Keys(sighted) PROVE count(k) \in Nat /\ First(k, first(k))
  <2>1. Seen(k) # {} /\ IsFiniteSet(Seen(k)) /\ OnPages(Seen(k))
    <3>1. Seen(k) # {} /\ Seen(k) \subseteq sighted
      BY DEF Keys
    <3> HIDE DEF Seen
    <3> QED
      BY <3>1, FS_Subset DEF OnPages
  <2> HIDE DEF Seen
  <2>2. Orders({p \in Seen(k) \X Seen(k) : Sooner(p[1], p[2])}, Seen(k))
    BY <2>1, SoonerIs
  <2>3. \E s \in Seen(k) : \A t \in Seen(k) :
           t = s \/ <<s, t>> \in {p \in Seen(k) \X Seen(k) : Sooner(p[1], p[2])}
    BY <2>1, <2>2, FirstOf
  <2>4. \E s : First(k, s)
    BY <2>3
  <2>5. count(k) \in Nat
    BY <2>1, FS_CardinalityType
  <2> HIDE DEF First
  <2> QED
    BY <2>4, <2>5
<1>4. ASSUME NEW k \in Keys(sighted)
      PROVE  first(k) \in sighted /\ KeyAt(first(k)) = k /\ \A t \in Seen(k) : t = first(k) \/ Sooner(first(k), t)
  <2>1. First(k, first(k))
    BY <1>3
  <2> HIDE DEF first
  <2> QED
    BY <2>1
<1> HIDE DEF first
<1>5. ASSUME NEW k \in Keys(sighted), NEW l \in Keys(sighted)
      PROVE  early(k, l) <=> Sooner(first(k), first(l))
  <2>1. ASSUME early(k, l) PROVE Sooner(first(k), first(l))
    <3>1. PICK s \in Seen(k) : \A t \in Seen(l) : Sooner(s, t)
      BY <2>1
    <3>2. Sooner(s, first(l)) /\ s \in sighted /\ first(l) \in sighted /\ first(k) \in sighted
      BY <1>4, <3>1
    <3>3. s = first(k) \/ Sooner(first(k), s)
      BY <1>4, <3>1
    <3> QED
      BY <1>2, <3>2, <3>3
  <2>2. ASSUME Sooner(first(k), first(l)) PROVE early(k, l)
    <3>1. ASSUME NEW t \in Seen(l) PROVE Sooner(first(k), t)
      <4>1. t = first(l) \/ Sooner(first(l), t)
        BY <1>4
      <4>2. t \in sighted /\ first(l) \in sighted /\ first(k) \in sighted
        BY <1>4
      <4> QED
        BY <1>2, <2>2, <4>1, <4>2
    <3> QED
      BY <1>4, <3>1
  <2> QED
    BY <2>1, <2>2
<1>6. \A k, l \in Keys(sighted) :
        KeyBefore(k, l, sighted)
          <=> count(k) - count(l) > 0 \/ (count(k) - count(l) = 0 /\ Sooner(first(k), first(l)))
  <2>1. \A k, l \in Keys(sighted) :
          KeyBefore(k, l, sighted)
            <=> count(k) - count(l) > 0 \/ (count(k) - count(l) = 0 /\ early(k, l))
    BY DEF KeyBefore
  <2> HIDE DEF early, count
  <2> QED
    BY <1>5, <2>1
<1> HIDE DEF count, Seen
<1>7. \A k \in Keys(sighted) : ~KeyBefore(k, k, sighted)
  BY <1>2, <1>3, <1>4, <1>6
<1>8. ASSUME NEW k \in Keys(sighted), NEW l \in Keys(sighted), NEW m \in Keys(sighted),
             KeyBefore(k, l, sighted), KeyBefore(l, m, sighted)
      PROVE  KeyBefore(k, m, sighted)
  <2>1. count(k) \in Nat /\ count(l) \in Nat /\ count(m) \in Nat
    BY <1>3
  <2>2. Sooner(first(k), first(l)) /\ Sooner(first(l), first(m)) => Sooner(first(k), first(m))
    BY <1>2, <1>4
  <2> QED
    BY <1>6, <1>8, <2>1, <2>2
<1>9. ASSUME NEW k \in Keys(sighted), NEW l \in Keys(sighted), k # l
      PROVE  KeyBefore(k, l, sighted) \/ KeyBefore(l, k, sighted)
  <2>1. count(k) \in Nat /\ count(l) \in Nat
    BY <1>3
  <2>2. Sooner(first(k), first(l)) \/ Sooner(first(l), first(k))
    BY <1>2, <1>4, <1>9
  <2> QED
    BY <1>6, <2>1, <2>2
<1> QED
  BY <1>1, <1>7, <1>8, <1>9 DEF Orders, KeyOrder

\* Every key has a leader, and it is one of those it is like.
LEMMA LeadersAre ==
  ASSUME NEW sighted, IsFiniteSet(sighted), OnPages(sighted)
  PROVE  /\ Leaders(sighted) \subseteq Keys(sighted)
         /\ \A k \in Keys(sighted) : /\ LeaderOf(k, Leaders(sighted), sighted) \in Leaders(sighted)
                                     /\ Alike(k, LeaderOf(k, Leaders(sighted), sighted))
<1> DEFINE keys == Keys(sighted)
           like == {kl \in keys \X keys : Alike(kl[1], kl[2])}
           Chosen1(f) == f = [k \in keys |-> ~\E l \in keys \ {k} :
                                               Alike(k, l) /\ KeyBefore(l, k, sighted) /\ f[l]]
           leads == CHOOSE f : Chosen1(f)
<1>1. IsFiniteSet(keys) /\ Orders(KeyOrder(sighted), keys)
  BY KeysOrdered
<1>2. \A f : ChosenInTurn(f, keys, KeyOrder(sighted), like) <=> Chosen1(f)
  <2>1. \A k, l \in keys : /\ <<k, l>> \in like <=> Alike(k, l)
                           /\ <<l, k>> \in KeyOrder(sighted) <=> KeyBefore(l, k, sighted)
    BY DEF KeyOrder
  <2> HIDE DEF keys, like
  <2> QED
    BY <2>1 DEF ChosenInTurn
<1>3. \E f : ChosenInTurn(f, keys, KeyOrder(sighted), like)
  <2> HIDE DEF keys, like
  <2> QED
    BY <1>1, ChoiceExists
<1>4. Leaders(sighted) = {k \in keys : leads[k]}
  BY DEF Leaders, Keys
<1>5. ChosenInTurn(leads, keys, KeyOrder(sighted), like)
  <2> HIDE DEF Chosen1, keys, like
  <2> QED
    BY <1>2, <1>3
<1> HIDE DEF leads
<1>6. ASSUME NEW k \in keys
      PROVE  \E l \in Leaders(sighted) : Alike(k, l)
  <2>1. \E l \in keys : leads[l] /\ (l = k \/ <<k, l>> \in like)
    <3> HIDE DEF keys, like
    <3> QED
      BY <1>5, EachIsLike
  <2> QED
    BY <1>4, <2>1 DEF Alike
<1>7. ASSUME NEW k \in keys
      PROVE  \E l \in Leaders(sighted) :
               Alike(k, l) /\ \A m \in Leaders(sighted) : Alike(k, m) => m = l \/ KeyBefore(l, m, sighted)
  <2> DEFINE S == {l \in Leaders(sighted) : Alike(k, l)}
  <2>1. S # {} /\ S \subseteq keys
    BY <1>4, <1>6
  <2> HIDE DEF S, keys
  <2>2. IsFiniteSet(S) /\ Orders(KeyOrder(sighted), S)
    BY <1>1, <2>1, FS_Subset DEF Orders
  <2>3. PICK l \in S : \A m \in S : m = l \/ <<l, m>> \in KeyOrder(sighted)
    BY <2>1, <2>2, FirstOf
  <2>4. \A m \in S : m = l \/ KeyBefore(l, m, sighted)
    BY <2>3 DEF KeyOrder
  <2> QED
    BY <2>3, <2>4 DEF S
<1>8. ASSUME NEW k \in keys
      PROVE  LET l == LeaderOf(k, Leaders(sighted), sighted) IN l \in Leaders(sighted) /\ Alike(k, l)
  <2> HIDE DEF keys
  <2> QED
    BY <1>7 DEF LeaderOf
<1> QED
  BY <1>4, <1>8

\* What is on enough pages to be furniture is what is counted under a leader
\* with as many.
LeadOf(s, sighted) == LeaderOf(KeyAt(s), Leaders(sighted), sighted)
PagesLed(k, sighted) == {t[1] : t \in {u \in sighted : LeadOf(u, sighted) = k}}

LEMMA FurnitureIs ==
  ASSUME PagesOnce(pages), NEW size, Cardinality(PagesWithLines) >= 4
  PROVE  LET sighted == Sighted(size)
         IN Furniture(size) =
              {IdAt(s) : s \in {u \in sighted :
                                  Cardinality(PagesLed(LeadOf(u, sighted), sighted)) >= Threshold}}
<1> DEFINE sighted == Sighted(size)
           leaders == Leaders(sighted)
           led == {[at |-> s, by |-> LeaderOf(KeyAt(s), leaders, sighted)] : s \in sighted}
           PagesOf(k) == {x.at[1] : x \in {y \in led : y.by = k}}
           often == {k \in leaders : Cardinality(PagesOf(k)) >= Threshold}
<1>1. Furniture(size) = {pages[x.at[1]].lines[x.at[2]].id : x \in {y \in led : y.by \in often}}
  <2>1. ~(Cardinality(PagesWithLines) < 4)
    <3> DEFINE c == Cardinality(PagesWithLines)
    <3> HIDE DEF c
    <3>1. PICK n \in Nat : DOMAIN pages = 1..n
      BY DEF PagesOnce
    <3>2. PagesWithLines \subseteq 1..n
      BY <3>1 DEF PagesWithLines
    <3>3. c \in Nat
      BY <3>2, UpTo, FS_Subset, FS_CardinalityType DEF c
    <3>4. c >= 4
      BY DEF c
    <3>5. ~(c < 4)
      BY <3>3, <3>4
    <3> QED
      BY <3>5 DEF c
  <2> QED
    BY <2>1 DEF Furniture
<1>2. led = {[at |-> s, by |-> LeadOf(s, sighted)] : s \in sighted}
  BY DEF LeadOf
<1> HIDE DEF sighted, led, leaders
<1>3. ASSUME NEW k PROVE PagesOf(k) = PagesLed(k, sighted)
  <2>1. {y \in led : y.by = k}
          = {[at |-> s, by |-> LeadOf(s, sighted)] : s \in {u \in sighted : LeadOf(u, sighted) = k}}
    BY <1>2
  <2> DEFINE mine == {u \in sighted : LeadOf(u, sighted) = k}
             lead(s) == LeadOf(s, sighted)
  <2> HIDE DEF mine, lead
  <2>2. PagesOf(k) = {x.at[1] : x \in {[at |-> s, by |-> lead(s)] : s \in mine}}
    BY <2>1 DEF mine, lead
  <2>3. {x.at[1] : x \in {[at |-> s, by |-> lead(s)] : s \in mine}} = {s[1] : s \in mine}
    <3> DEFINE R == {[at |-> s, by |-> lead(s)] : s \in mine}
    <3>1. /\ \A x \in R : x.at \in mine
          /\ \A s \in mine : \E x \in R : x.at = s
      <4>1. \A s \in mine : [at |-> s, by |-> lead(s)] \in R
        OBVIOUS
      <4>2. \A s \in mine : [at |-> s, by |-> lead(s)].at = s
        OBVIOUS
      <4> QED
        BY <4>1, <4>2
    <3> HIDE DEF R
    <3>2. {x.at[1] : x \in R} = {s[1] : s \in mine}
      BY <3>1
    <3> QED
      BY <3>2 DEF R
  <2> QED
    BY <2>2, <2>3 DEF PagesLed, mine
<1>4. \A s \in sighted : LeadOf(s, sighted) \in leaders
  <2>1. IsFiniteSet(sighted) /\ OnPages(sighted)
    BY SightedIs DEF sighted, OnPages
  <2>2. \A s \in sighted : KeyAt(s) \in Keys(sighted)
    BY DEF Keys
  <2> QED
    BY <2>1, <2>2, LeadersAre DEF LeadOf, leaders
<1> HIDE DEF PagesOf
<1>5. {y \in led : y.by \in often}
        = {[at |-> s, by |-> LeadOf(s, sighted)] :
             s \in {u \in sighted : Cardinality(PagesLed(LeadOf(u, sighted), sighted)) >= Threshold}}
  <2>1. \A k \in leaders : k \in often <=> Cardinality(PagesLed(k, sighted)) >= Threshold
    BY <1>3
  <2> HIDE DEF often
  <2> QED
    BY <1>2, <1>4, <2>1
<1> HIDE DEF often
<1>6. Furniture(size) = {pages[s[1]].lines[s[2]].id :
        s \in {u \in sighted : Cardinality(PagesLed(LeadOf(u, sighted), sighted)) >= Threshold}}
  <2> DEFINE mine == {u \in sighted : Cardinality(PagesLed(LeadOf(u, sighted), sighted)) >= Threshold}
             lead(s) == LeadOf(s, sighted)
  <2> HIDE DEF mine, lead
  <2>1. Furniture(size)
          = {pages[x.at[1]].lines[x.at[2]].id : x \in {[at |-> s, by |-> lead(s)] : s \in mine}}
    BY <1>1, <1>5 DEF mine, lead
  <2>2. {pages[x.at[1]].lines[x.at[2]].id : x \in {[at |-> s, by |-> lead(s)] : s \in mine}}
          = {pages[s[1]].lines[s[2]].id : s \in mine}
    <3> DEFINE R == {[at |-> s, by |-> lead(s)] : s \in mine}
    <3>1. /\ \A x \in R : x.at \in mine
          /\ \A s \in mine : \E x \in R : x.at = s
      <4>1. \A s \in mine : [at |-> s, by |-> lead(s)] \in R
        OBVIOUS
      <4>2. \A s \in mine : [at |-> s, by |-> lead(s)].at = s
        OBVIOUS
      <4> QED
        BY <4>1, <4>2
    <3> HIDE DEF R
    <3>2. {pages[x.at[1]].lines[x.at[2]].id : x \in R} = {pages[s[1]].lines[s[2]].id : s \in mine}
      BY <3>1
    <3> QED
      BY <3>2 DEF R
  <2> QED
    BY <2>1, <2>2 DEF mine
<1> QED
  BY <1>6 DEF IdAt, sighted

\* header_page_fraction of the pages, and two, are enough; no less than two is, and
\* nothing with which one page more is no more than the fraction.
LEMMA ThresholdIs ==
  ASSUME PagesOnce(pages)
  PROVE  /\ Threshold \in Nat /\ Threshold >= 2 /\ Cardinality(PagesWithLines) \in Nat
         /\ \A c \in Nat : c >= 2 /\ 100 * c >= FurniturePercent * Cardinality(PagesWithLines) => c >= Threshold
         /\ \A c \in Nat : c >= Threshold => 100 * (c + 1) > FurniturePercent * Cardinality(PagesWithLines)
<1>1. PICK n \in Nat : DOMAIN pages = 1..n
  BY DEF PagesOnce
<1>2. PagesWithLines \subseteq 1..n
  BY <1>1 DEF PagesWithLines
<1> DEFINE c == Cardinality(PagesWithLines)
           x == (c * FurniturePercent) \div 100
<1>3. c \in Nat
  BY <1>2, UpTo, FS_Subset, FS_CardinalityType
<1>4. FurniturePercent \in Nat
  BY CleaningAssumption DEF CleaningAssumption
<1> HIDE DEF c
<1> DEFINE m == c * FurniturePercent
<1>5. m \in Nat /\ FurniturePercent * c = m
  BY <1>3, <1>4
<1> HIDE DEF m
<1>6. x \in Nat /\ 100 * x <= m /\ 100 * (x + 1) > m
  BY <1>5 DEF m
<1> HIDE DEF x
<1>7. Threshold = Max({2, x})
  BY DEF Threshold, x, c
<1>8. Max({2, x}) = IF x <= 2 THEN 2 ELSE x
  BY <1>6 DEF Max
<1>9. ASSUME NEW d \in Nat, d >= 2, 100 * d >= m PROVE d >= Threshold
  <2>1. x <= d
    BY <1>5, <1>6, <1>9
  <2> QED
    BY <1>6, <1>7, <1>8, <1>9, <2>1
<1>10. Threshold \in Nat /\ Threshold >= 2 /\ Threshold >= x
  BY <1>6, <1>7, <1>8
<1>11. ASSUME NEW d \in Nat, d >= Threshold PROVE 100 * (d + 1) > m
  <2>1. d >= x
    BY <1>6, <1>10, <1>11
  <2> QED
    BY <1>5, <1>6, <2>1
<1> QED
  BY <1>3, <1>5, <1>9, <1>10, <1>11 DEF c

\* Two places on the pages have not the same line.
LEMMA PlaceOfId ==
  ASSUME PagesOnce(pages), \A l, m \in LinesOn(pages) : l.id = m.id => l = m,
         NEW p \in DOMAIN pages, NEW i \in DOMAIN pages[p].lines,
         NEW q \in DOMAIN pages, NEW j \in DOMAIN pages[q].lines,
         pages[p].lines[i].id = pages[q].lines[j].id
  PROVE  p = q /\ i = j
<1>1. PICK n \in Nat : /\ DOMAIN pages = 1..n
                       /\ EachOnce([r \in DOMAIN pages |-> pages[r].lines], n)
  BY DEF PagesOnce
<1> DEFINE lines(r) == pages[r].lines
<1>2. /\ \A r \in 1..n : Lists(lines(r), ToSet(lines(r)))
      /\ \A r, u \in 1..n : r # u => ToSet(lines(r)) \cap ToSet(lines(u)) = {}
  BY <1>1 DEF EachOnce
<1>3. lines(p)[i] \in ToSet(lines(p)) /\ lines(q)[j] \in ToSet(lines(q))
  BY DEF ToSet
<1>4. lines(p)[i] = lines(q)[j]
  BY <1>3 DEF LinesOn
<1>5. p = q
  BY <1>1, <1>2, <1>3, <1>4
<1>6. Lists(lines(p), ToSet(lines(p)))
  BY <1>1, <1>2
<1> HIDE DEF lines
<1>7. i \in 1..Len(lines(p)) /\ j \in 1..Len(lines(p)) /\ lines(p)[i] = lines(p)[j]
  BY <1>4, <1>5, <1>6, ListsIs DEF lines
<1> QED
  BY <1>5, <1>6, <1>7 DEF Lists

\* What is on enough pages goes, and what goes as a running head is like what is
\* on enough of them.
LEMMA HeadsStripped ==
  ASSUME Accounted, stage = "clean", Strip, UNCHANGED handed,
         "heads" \in on, Cardinality(PagesWithLines) >= 4
  PROVE  LET sighted == Sighted(BodySize(pages))
             all == FurniturePercent * Cardinality(PagesWithLines)
         IN \A s \in sighted :
              /\ LET many == Cardinality(On(KeyAt(s), sighted))
                 IN many >= 2 /\ 100 * many >= all
                      => IdAt(s) \in Gone({"running-head-or-foot", "page-number"})
              /\ IdAt(s) \in Gone({"running-head-or-foot"}) =>
                   \E k \in Keys(sighted) :
                     LET many == Cardinality(Resembling(k, sighted))
                     IN Alike(KeyAt(s), k) /\ many >= 2 /\ 100 * (many + 1) > all
<1> DEFINE sighted == Sighted(BodySize(pages))
           all == FurniturePercent * Cardinality(PagesWithLines)
           gone == Gone({"running-head-or-foot", "page-number"})
           heads == Gone({"running-head-or-foot"})
           Mine(s) == On(KeyAt(s), sighted)
           Led(s) == PagesLed(LeadOf(s, sighted), sighted)
<1>1. NotedAreStripped /\ pass = "strip"
  BY StripAccounts DEF Strip
<1>2. /\ PagesOnce(pages)
      /\ \A l, m \in LinesOn(pages) : l.id = m.id => l = m
  <2>1. /\ PagesOnce(pages) /\ notes = <<>> /\ stripped = <<>>
    BY <1>1 DEF Accounted, Prepared
  <2>2. PICK S : GivenLines(S) /\ Parted(StrippedLines, TextLines, FlattenSeq(notes), S)
    BY DEF Accounted
  <2>3. ToSet(LinesOf(pages)) \subseteq S
    <3>1. TextLines = LinesOf(pages)
      BY <1>1 DEF TextLines
    <3>2. S = ToSet(StrippedLines) \cup ToSet(TextLines) \cup ToSet(FlattenSeq(notes))
      BY <2>2, PartedIs
    <3> QED
      BY <3>1, <3>2
  <2>4. ToSet(LinesOf(pages)) = LinesOn(pages)
    BY <2>1, LinesOfPages, ListsItself
  <2> QED
    BY <2>1, <2>2, <2>3, <2>4 DEF GivenLines
<1>3. /\ IsFiniteSet(sighted) /\ IsFiniteSet(DOMAIN pages) /\ OnPages(sighted)
      /\ \A s \in sighted : s[1] \in DOMAIN pages /\ s[2] \in DOMAIN pages[s[1]].lines
  BY <1>2, SightedIs DEF OnPages
<1>4. Furniture(BodySize(pages)) = {IdAt(s) : s \in {u \in sighted : Cardinality(Led(u)) >= Threshold}}
  BY <1>2, FurnitureIs
<1>5. \A p, i : Why(p, i) = Reason(pages[p], pages[p].lines[i], BodySize(pages), Furniture(BodySize(pages)))
  BY DEF Why
<1> HIDE DEF sighted
<1>6. ASSUME NEW p \in DOMAIN pages, NEW i \in DOMAIN pages[p].lines
      PROVE  /\ pages[p].lines[i].id \in Furniture(BodySize(pages)) => Why(p, i) # "kept"
             /\ Why(p, i) = "running-head-or-foot" =>
                  pages[p].lines[i].id \in Furniture(BodySize(pages))
  BY <1>5 DEF Reason
<1>7. ASSUME NEW s \in sighted
      PROVE  Mine(s) \subseteq Led(s) /\ Led(s) \subseteq DOMAIN pages /\ IsFiniteSet(Led(s)) /\ IsFiniteSet(Mine(s))
  <2>1. \A u \in sighted : KeyAt(u) = KeyAt(s) => LeadOf(u, sighted) = LeadOf(s, sighted)
    BY DEF LeadOf
  <2>2. Mine(s) \subseteq Led(s)
    BY <2>1 DEF PagesLed, On
  <2>3. Led(s) \subseteq DOMAIN pages
    BY <1>3 DEF PagesLed
  <2> QED
    BY <1>3, <2>2, <2>3, FS_Subset
<1>8. ASSUME NEW s \in sighted, Cardinality(Mine(s)) >= 2, 100 * Cardinality(Mine(s)) >= all
      PROVE  IdAt(s) \in gone
  <2> HIDE DEF Mine, Led, gone
  <2>1. Cardinality(Mine(s)) \in Nat /\ Cardinality(Led(s)) \in Nat /\ Cardinality(Mine(s)) <= Cardinality(Led(s))
    BY <1>7, FS_Subset, FS_CardinalityType
  <2>2. Cardinality(Mine(s)) >= Threshold /\ Threshold \in Nat
    BY <1>2, <1>8, <2>1, ThresholdIs
  <2>3. Cardinality(Led(s)) >= Threshold
    <3> DEFINE c == Cardinality(Mine(s))  d == Cardinality(Led(s))
    <3> HIDE DEF c, d
    <3>1. c \in Nat /\ d \in Nat /\ c <= d /\ c >= Threshold /\ Threshold \in Nat
      BY <2>1, <2>2 DEF c, d
    <3>2. d >= Threshold
      BY <3>1
    <3> QED
      BY <3>2 DEF d
  <2>4. IdAt(s) \in Furniture(BodySize(pages))
    BY <1>4, <2>3
  <2>5. Why(s[1], s[2]) # "kept"
    BY <1>3, <1>6, <2>4 DEF IdAt
  <2>6. PICK k \in DOMAIN stripped' :
          stripped'[k] = [line |-> pages[s[1]].lines[s[2]], why |-> Why(s[1], s[2])]
    BY <1>1, <1>3, <2>5 DEF NotedAreStripped
  <2>7. stripped'[k].line.id = IdAt(s)
    BY <2>6 DEF IdAt
  <2>8. stripped'[k].why \in {"running-head-or-foot", "page-number"}
    BY <1>5, <2>5, <2>6 DEF Reason
  <2> QED
    BY <2>7, <2>8 DEF gone, Gone
<1>9. ASSUME NEW s \in sighted, IdAt(s) \in heads
      PROVE  \E k \in Keys(sighted) :
               /\ Alike(KeyAt(s), k) /\ Cardinality(Resembling(k, sighted)) >= 2
               /\ 100 * (Cardinality(Resembling(k, sighted)) + 1) > all
  <2>1. PICK m \in DOMAIN stripped' :
          stripped'[m].why = "running-head-or-foot" /\ stripped'[m].line.id = IdAt(s)
    BY <1>9 DEF Gone
  <2>2. PICK p \in DOMAIN pages : \E i \in DOMAIN pages[p].lines :
          stripped'[m] = [line |-> pages[p].lines[i], why |-> Why(p, i)]
    BY <1>1 DEF NotedAreStripped
  <2>3. PICK i \in DOMAIN pages[p].lines :
          stripped'[m] = [line |-> pages[p].lines[i], why |-> Why(p, i)]
    BY <2>2
  <2>4. Why(p, i) = "running-head-or-foot" /\ pages[p].lines[i].id = IdAt(s)
    BY <2>1, <2>3
  <2> HIDE DEF Led
  <2>5. PICK u \in sighted : Cardinality(Led(u)) >= Threshold /\ IdAt(u) = IdAt(s)
    BY <1>4, <1>6, <2>4
  <2>6. u[1] = s[1] /\ u[2] = s[2]
    BY <1>2, <1>3, <2>5, PlaceOfId DEF IdAt
  <2>7. KeyAt(u) = KeyAt(s)
    BY <2>6 DEF KeyAt
  <2>8. LeadOf(u, sighted) = LeadOf(s, sighted)
    BY <2>7 DEF LeadOf
  <2> DEFINE k == LeadOf(s, sighted)
             like == Resembling(k, sighted)
  <2>9. k \in Keys(sighted) /\ \A v \in sighted : Alike(KeyAt(v), LeadOf(v, sighted))
    <3>1. \A v \in sighted : KeyAt(v) \in Keys(sighted)
      BY DEF Keys
    <3> QED
      BY <1>3, <3>1, LeadersAre DEF LeadOf
  <2>10. Led(s) \subseteq like /\ like \subseteq DOMAIN pages
    BY <1>3, <2>9 DEF Led, PagesLed, Resembling
  <2> HIDE DEF k, like
  <2>11. Cardinality(like) \in Nat /\ Cardinality(like) >= Cardinality(Led(s)) /\ Cardinality(Led(s)) \in Nat
    BY <1>3, <1>7, <2>10, FS_Subset, FS_CardinalityType
  <2>12. Cardinality(like) >= Threshold
    <3> DEFINE c == Cardinality(like)  d == Cardinality(Led(s))
    <3>1. d >= Threshold
      BY <2>5, <2>8 DEF Led
    <3>2. Threshold \in Nat
      BY <1>2, ThresholdIs
    <3> HIDE DEF c, d
    <3>3. c \in Nat /\ d \in Nat /\ c >= d
      BY <2>11 DEF c, d
    <3>4. c >= Threshold
      BY <3>1, <3>2, <3>3
    <3> QED
      BY <3>4 DEF c
  <2>13. Cardinality(like) >= 2 /\ 100 * (Cardinality(like) + 1) > all
    <3> DEFINE c == Cardinality(like)
    <3>1. c \in Nat /\ c >= Threshold
      BY <2>11, <2>12
    <3> HIDE DEF c
    <3>2. Threshold \in Nat /\ Threshold >= 2 /\ 100 * (c + 1) > all
      BY <1>2, <3>1, ThresholdIs
    <3>3. c >= 2
      BY <3>1, <3>2
    <3> QED
      BY <3>2, <3>3 DEF c
  <2>14. Alike(KeyAt(s), k)
    BY <2>9 DEF k
  <2> QED
    BY <2>9, <2>13, <2>14 DEF like
<1> QED
  BY <1>8, <1>9 DEF sighted

\* A pass of strip_furniture over four pages with lines or more, with any book:
\* what stands in the margins of header_page_fraction of the pages or more, of
\* two at least, is stripped wherever it stands there; and a line is stripped as
\* a running head only when it is like a key that so many pages have something
\* like that one more would be above the fraction.  Every key is in the group of
\* a leader it is like, so that equal keys are counted together, and the share
\* of the pages that makes a group furniture is rounded down.
THEOREM HeadsAreOfTheBook == Spec => HeadsOfTheBook
<1> DEFINE Heads ==
       LooksForHeads =>
         LET sighted == Sighted(BodySize(pages))
             all == FurniturePercent * Cardinality(PagesWithLines)
         IN \A s \in sighted :
              /\ LET many == Cardinality(On(KeyAt(s), sighted))
                 IN many >= 2 /\ 100 * many >= all
                      => IdAt(s) \in Gone({"running-head-or-foot", "page-number"})
              /\ IdAt(s) \in Gone({"running-head-or-foot"}) =>
                   \E k \in Keys(sighted) :
                     LET many == Cardinality(Resembling(k, sighted))
                     IN Alike(KeyAt(s), k) /\ many >= 2 /\ 100 * (many + 1) > all
<1>1. ASSUME Accounted, [Next]_vars PROVE [Heads]_vars
  <2> SUFFICES ASSUME pass = "strip", pass' = "split", "heads" \in on, Cardinality(PagesWithLines) >= 4
               PROVE  Heads
    BY DEF LooksForHeads
  <2>1. CleanPass
    <3>1. pass' # pass /\ pass' # "none"
      OBVIOUS
    <3>2. ~UNCHANGED vars
      BY <3>1 DEF vars, cleanVars, cleaned
    <3> QED
      BY <1>1, <3>1, <3>2
      DEF Next, Replace, Call, Forgotten, Select, Fail, ExtractText, ExtractOcr, Extracted, Hand, BeginCleaning,
          ExtractorFails, Suspect, Transcribe, RasterizeFails, Apply, Finish, cleanVars, cleaned
  <2>2. stage = "clean" /\ Strip /\ UNCHANGED handed
    BY <2>1 DEF CleanPass, Clean, Strip, Split, Reflow, RepairDropCaps, Dehyphenate
  <2> QED
    BY <1>1, <2>2, HeadsStripped
<1> QED
  BY AccountedHolds, <1>1, PTL DEF Spec, HeadsOfTheBook

-----------------------------------------------------------------------------
(* The paragraphs are the text *)

\* A paragraph goes on over no column, and over a page only in a sentence.
GoesOnRightly(para) ==
  \A i \in DOMAIN para.joints :
    LET l == para.lines[i - 1]  m == para.lines[i]
    IN l.column = m.column /\ (l.page # m.page => Continues(l, m))

\* The inductive invariant: the paragraphs also say what they are.
InParagraphs ==
  pass \in {"caps", "hyphens", "clean"} =>
    /\ \A n \in DOMAIN paragraphs : {"lines", "joints"} \subseteq DOMAIN paragraphs[n]
    /\ FlattenSeq(ParagraphLines) = body
    /\ \A n \in DOMAIN paragraphs : GoesOnRightly(paragraphs[n])

LEMMA InParagraphsIs == InParagraphs => ParagraphsAreTheText
BY DEF InParagraphs, ParagraphsAreTheText, ParagraphLines, GoesOnRightly

\* What should_break lets go on is in one column, and in one sentence.
LEMMA GoesOn ==
  ASSUME NEW l, NEW m, NEW gap, NEW height, NEW right, ~ShouldBreak(l, m, gap, height, right)
  PROVE  l.column = m.column /\ (l.page # m.page => Continues(l, m))
BY DEF ShouldBreak

\* group_paragraphs cuts the body where should_break says so, and nowhere else.
LEMMA ReflowParts ==
  ASSUME Accounted, stage = "clean", Reflow
  PROVE  InParagraphs'
<1> DEFINE height == TwiceHeight
           gap == TwiceGap(height)
           right == Max({0} \cup {body[i].right : i \in DOMAIN body})
           starts == IF "reflow" \notin on THEN DOMAIN body
                     ELSE {i \in DOMAIN body \ {1} :
                             ShouldBreak(body[i - 1], body[i], gap, height, right)}
           runs == Runs(body, starts)
<1>1. /\ pass = "reflow" /\ UNCHANGED body
      /\ paragraphs' = [r \in DOMAIN runs |-> Paragraph(runs[r])]
  BY DEF Reflow
<1>2. \A k \in DOMAIN body \ {1} : k \notin starts =>
        /\ body[k - 1].column = body[k].column
        /\ body[k - 1].page # body[k].page => Continues(body[k - 1], body[k])
  <2> SUFFICES ASSUME NEW k \in DOMAIN body \ {1}, k \notin starts
               PROVE  /\ body[k - 1].column = body[k].column
                      /\ body[k - 1].page # body[k].page => Continues(body[k - 1], body[k])
    OBVIOUS
  <2>1. ~ShouldBreak(body[k - 1], body[k], gap, height, right)
    OBVIOUS
  <2> HIDE DEF gap, height, right, starts
  <2> QED
    BY <2>1, GoesOn
<1> HIDE DEF starts
<1>3. body \in Seq(ToSet(body))
  <2>1. TextLines = body
    BY <1>1 DEF TextLines
  <2>2. PICK S : Parted(StrippedLines, TextLines, FlattenSeq(notes), S)
    BY DEF Accounted
  <2>3. Lists(body, ToSet(body))
    BY <2>1, <2>2, PartedIs
  <2> QED
    BY <2>3 DEF Lists
<1>4. FlattenSeq(runs) = body
  BY <1>3, FlattenRuns
<1>5. ASSUME NEW r \in DOMAIN runs
      PROVE  /\ Len(runs[r]) \in Nat
             /\ \A i \in 2..Len(runs[r]) :
                  \E k \in DOMAIN body \ {1} :
                    k \notin starts /\ runs[r][i - 1] = body[k - 1] /\ runs[r][i] = body[k]
  <2>1. /\ runs[r] \in Seq(ToSet(body))
        /\ \A i \in 2..Len(runs[r]) :
             \E k \in DOMAIN body \ {1} :
               k \notin starts /\ runs[r][i - 1] = body[k - 1] /\ runs[r][i] = body[k]
    BY <1>3, RunsAreWhole
  <2> QED
    BY <2>1
<1>6. runs = [r \in DOMAIN runs |-> runs[r]]
  BY DEF Runs
<1> HIDE DEF runs
<1>7. DOMAIN paragraphs' = DOMAIN runs
      /\ \A r \in DOMAIN runs : /\ DOMAIN paragraphs'[r] = {"lines", "capped", "refs", "joints"}
                                /\ paragraphs'[r].lines = runs[r]
                                /\ DOMAIN paragraphs'[r].joints = 2..Len(runs[r])
  BY <1>1 DEF Paragraph
<1>8. ParagraphLines' = runs
  <2>1. ParagraphLines' = [r \in DOMAIN runs |-> runs[r]]
    BY <1>7 DEF ParagraphLines
  <2> QED
    BY <1>6, <2>1
<1>9. ASSUME NEW r \in DOMAIN runs PROVE GoesOnRightly(paragraphs'[r])
  <2> SUFFICES ASSUME NEW i \in 2..Len(runs[r])
               PROVE  /\ runs[r][i - 1].column = runs[r][i].column
                      /\ runs[r][i - 1].page # runs[r][i].page => Continues(runs[r][i - 1], runs[r][i])
    BY <1>7 DEF GoesOnRightly
  <2>1. PICK k \in DOMAIN body \ {1} :
          k \notin starts /\ runs[r][i - 1] = body[k - 1] /\ runs[r][i] = body[k]
    BY <1>5
  <2> QED
    BY <1>2, <2>1
<1> QED
  BY <1>1, <1>4, <1>7, <1>8, <1>9 DEF InParagraphs

\* Drop caps and hyphens are repaired where they are.
LEMMA RepairParts ==
  ASSUME InParagraphs, UNCHANGED body,
         pass \in {"caps", "hyphens"}, DOMAIN paragraphs' = DOMAIN paragraphs,
         \A n \in DOMAIN paragraphs : {"lines", "joints"} \subseteq DOMAIN paragraphs[n] =>
           /\ DOMAIN paragraphs'[n] = DOMAIN paragraphs[n]
           /\ paragraphs'[n].lines = paragraphs[n].lines
           /\ DOMAIN paragraphs'[n].joints = DOMAIN paragraphs[n].joints
  PROVE  InParagraphs'
<1>1. /\ \A n \in DOMAIN paragraphs : {"lines", "joints"} \subseteq DOMAIN paragraphs[n]
      /\ FlattenSeq(ParagraphLines) = body
      /\ \A n \in DOMAIN paragraphs : GoesOnRightly(paragraphs[n])
  BY DEF InParagraphs
<1>2. ParagraphLines' = ParagraphLines
  BY <1>1 DEF ParagraphLines
<1>3. \A n \in DOMAIN paragraphs : GoesOnRightly(paragraphs'[n])
  BY <1>1 DEF GoesOnRightly
<1> QED
  BY <1>1, <1>2, <1>3 DEF InParagraphs

LEMMA CapsParts == InParagraphs /\ RepairDropCaps => InParagraphs'
<1> SUFFICES ASSUME InParagraphs, RepairDropCaps PROVE InParagraphs'
  OBVIOUS
<1>1. /\ pass = "caps" /\ UNCHANGED body /\ DOMAIN paragraphs' = DOMAIN paragraphs
      /\ \A n \in DOMAIN paragraphs :
           paragraphs'[n] = [paragraphs[n] EXCEPT !.capped =
             "caps" \in on /\ bodySize > 0 /\ HasDropCap(paragraphs[n])]
  BY DEF RepairDropCaps
<1> QED
  BY <1>1, RepairParts

LEMMA HyphensParts == InParagraphs /\ Dehyphenate => InParagraphs'
<1> SUFFICES ASSUME InParagraphs, Dehyphenate PROVE InParagraphs'
  OBVIOUS
<1>1. /\ pass = "hyphens" /\ UNCHANGED body /\ DOMAIN paragraphs' = DOMAIN paragraphs
      /\ \A n \in DOMAIN paragraphs :
           paragraphs'[n] = [paragraphs[n] EXCEPT !.joints =
             [i \in DOMAIN @ |-> Resolved(paragraphs[n], i, Corpus)]]
  BY DEF Dehyphenate
<1> QED
  BY <1>1, RepairParts

\* No other step puts lines into paragraphs.
LEMMA OthersPart ==
  ASSUME InParagraphs,
         \/ pass' \notin {"caps", "hyphens", "clean"}
         \/ UNCHANGED <<pass, paragraphs, body>>
  PROVE  InParagraphs'
BY DEF InParagraphs, ParagraphLines, GoesOnRightly

LEMMA NextParts ==
  ASSUME Accounted, InParagraphs, [Next]_vars
  PROVE  InParagraphs'
<1>1. CASE Replace \/ Call
  <2>1. pass' = "none"
    BY <1>1 DEF Replace, Call, Forgotten
  <2> QED
    BY <2>1, OthersPart
<1>2. CASE Select \/ ExtractorFails \/ Transcribe \/ RasterizeFails \/ Finish \/ UNCHANGED vars
  <2>1. UNCHANGED <<pass, paragraphs, body>>
    BY <1>2 DEF Select, ExtractorFails, RasterizeFails, Fail, Transcribe, Finish, vars, cleanVars, cleaned
  <2> QED
    BY <2>1, OthersPart
<1>3. CASE ExtractText \/ ExtractOcr \/ Suspect \/ Apply
  <2>1. pass' = "strip" \/ UNCHANGED cleaned
    BY <1>3 DEF ExtractText, ExtractOcr, Extracted, Suspect, Apply, Hand, BeginCleaning
  <2>2. pass' \notin {"caps", "hyphens", "clean"} \/ UNCHANGED <<pass, paragraphs, body>>
    BY <2>1 DEF cleaned
  <2> QED
    BY <2>2, OthersPart
<1>4. CASE CleanPass
  <2>1. CASE Strip \/ Split
    <3>1. pass' \notin {"caps", "hyphens", "clean"}
      BY <2>1 DEF Strip, Split
    <3> QED
      BY <3>1, OthersPart
  <2>2. CASE Reflow
    BY <1>4, <2>2, ReflowParts DEF CleanPass
  <2>3. CASE RepairDropCaps \/ Dehyphenate
    BY <2>3, CapsParts, HyphensParts
  <2> QED
    BY <1>4, <2>1, <2>2, <2>3 DEF CleanPass, Clean
<1> QED
  BY <1>1, <1>2, <1>3, <1>4 DEF Next

\* The paragraphs, one after the other, are the text that was read, in its order;
\* no switch and no threshold makes should_break carry a paragraph over a column,
\* nor over a page unless the sentence goes on there (group_paragraphs and all the
\* passes after it).
THEOREM ParagraphsAreWhole == Spec => []ParagraphsAreTheText
<1>1. Init => InParagraphs
  BY DEF Init, NotCleaning, InParagraphs
<1>2. Accounted /\ InParagraphs /\ [Next]_vars => InParagraphs'
  BY NextParts
<1> QED
  BY AccountedHolds, InParagraphsIs, <1>1, <1>2, PTL DEF Spec
=============================================================================
