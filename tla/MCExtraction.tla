---------------------------- MODULE MCExtraction ----------------------------
(***************************************************************************)
(* Instances of Extraction for TLC: books of three to five sheets of 612   *)
(* by 792 points put together from eleven kinds of sheet.                  *)
(***************************************************************************)
EXTENDS Extraction

\* A line of the n-th place on a page in rows of 14 points, its letters 5 wide
LineAt(at, n, left, row, size, cap, text) ==
  [id |-> 100 * at + n, page |-> at % 10, column |-> 0, left |-> left, right |-> left + 5 * text.chars,
   top |-> 14 * row, bottom |-> 14 * row + 12, size |-> size, cap |-> cap, text |-> text]

TextOf(key, chars, is, words) == [key |-> key, chars |-> chars, bad |-> 0, is |-> is, words |-> words]

It == <<<<"it">>>>
Well == <<<<"well">>>>
Being == <<<<"being">>>>
Joined == <<<<"well", "being">>>>
Tied == <<<<"well">>, <<"being">>>>
MotherIn == <<<<"mother">>, <<"in">>>>
Law == <<<<"law">>>>

RunningHead(at) == LineAt(at, 0, 72, 2, 9, 0, TextOf("tale", 30, {}, <<It>>))
OddHead(at) == LineAt(at, 0, 72, 2, 9, 0, TextOf("ta1e", 30, {}, <<It>>))
Folio(at) == LineAt(at, 40, 300, 53, 9, 0, TextOf("#", 2, {"number", "short"}, <<>>))

\* Two paragraphs; a word is broken at a line end, another at the end of the
\* page, and the text says "wellbeing" once.
PlainLines(at) ==
  <<RunningHead(at),
    LineAt(at, 1, 72, 10, 10, 0, TextOf("being", 90, {"lower"}, <<Being, Joined>>)),
    LineAt(at, 2, 72, 11, 10, 0, TextOf("b", 90, {"hyphen"}, <<It, Well>>)),
    LineAt(at, 3, 72, 12, 10, 0, TextOf("c", 40, {"lower", "terminal"}, <<Being>>)),
    LineAt(at, 4, 90, 13, 10, 0, TextOf("d", 80, {"hyphen"}, <<It, Well>>)),
    Folio(at)>>

\* A heading in the margin that is larger than the text, then a large letter
OpenerLines(at) ==
  <<LineAt(at, 1, 200, 5, 16, 0, TextOf("chapter", 10, {"short"}, <<It>>)),
    LineAt(at, 2, 72, 10, 10, 30, TextOf("e", 90, {"anchor"}, <<Tied>>)),
    LineAt(at, 3, 72, 11, 10, 0, TextOf("f", 90, {"lower", "hyphen"}, <<MotherIn>>)),
    LineAt(at, 4, 72, 12, 10, 0, TextOf("g", 90, {"lower"}, <<Law, It>>)), Folio(at)>>

\* The end of a note, and two notes
NotesLines(at) ==
  <<OddHead(at),
    LineAt(at, 1, 72, 10, 10, 0, TextOf("h", 90, {"lower", "anchor"}, <<It, Tied>>)),
    LineAt(at, 2, 72, 11, 10, 0, TextOf("i", 90, {"lower", "terminal"}, <<It>>)),
    LineAt(at, 3, 72, 20, 7, 0, TextOf("j", 80, {"lower"}, <<It>>)),
    LineAt(at, 4, 72, 21, 7, 0, TextOf("k", 80, {"mark", "bullet"}, <<It>>)),
    LineAt(at, 5, 72, 22, 7, 0, TextOf("l", 80, {"mark", "bullet"}, <<It>>))>>

\* A list and a small caption at the foot
ListLines(at) ==
  <<RunningHead(at),
    LineAt(at, 1, 72, 10, 10, 0, TextOf("m", 90, {}, <<It>>)),
    LineAt(at, 2, 90, 11, 10, 0, TextOf("n", 90, {"bullet"}, <<It>>)),
    LineAt(at, 3, 72, 14, 10, 0, TextOf("o", 90, {}, <<Joined>>)),
    LineAt(at, 4, 72, 15, 7, 0, TextOf("p", 10, {"short"}, <<It>>))>>

\* Two columns, in the file row by row
ColumnLines(at) ==
  <<RunningHead(at),
    LineAt(at, 2, 72, 10, 10, 0, TextOf("q", 40, {"lower"}, <<Tied, Tied>>)),
    LineAt(at, 5, 320, 10, 10, 0, TextOf("r", 40, {"lower"}, <<It>>)),
    LineAt(at, 3, 72, 11, 10, 0, TextOf("s", 40, {"lower", "hyphen"}, <<It, Well>>)),
    LineAt(at, 6, 320, 11, 10, 0, TextOf("t", 40, {"lower"}, <<It>>)),
    LineAt(at, 4, 72, 12, 10, 0, TextOf("u", 40, {"lower"}, <<Being, It>>)),
    LineAt(at, 7, 320, 12, 10, 0, TextOf("v", 40, {"lower"}, <<It>>)),
    Folio(at)>>

\* There may be a heading over both columns: flush with the left one, or in the middle.
HeadOver(kind, at, lines) ==
  IF kind = "columns" THEN lines
  ELSE <<lines[1],
         LineAt(at, 1, IF kind = "headed" THEN 72 ELSE 230, 8, 10, 0,
                TextOf("w", IF kind = "headed" THEN 80 ELSE 30, {}, <<It>>))>> \o Tail(lines)

\* What stands on a sheet; a scan is of a plain page.
LinesFor(kind, at) ==
  CASE kind \in {"plain", "scan", "sludge"} -> PlainLines(at)
    [] kind = "opener" -> OpenerLines(at)
    [] kind \in {"notes", "cipher"} -> NotesLines(at)
    [] kind = "list" -> ListLines(at)
    [] kind \in {"columns", "headed", "centred"} -> HeadOver(kind, at, ColumnLines(at))
    [] kind = "blank" -> <<>>

Sludged(lines) ==
  [i \in DOMAIN lines |-> [lines[i] EXCEPT !.id = @ + 50, !.text.bad = 10, !.text.is = {},
                                          !.text.words = <<It>>, !.text.key = "x"]]

\* Two columns as pdftotext prints them, in rows across: the two lines of a row are one
InRows(lines) ==
  FlattenSeq([i \in DOMAIN lines |->
    IF lines[i].left = 320 THEN <<>>
    ELSE IF i < Len(lines) /\ lines[i + 1].left = 320
    THEN <<[lines[i] EXCEPT !.id = @ + 50, !.right = lines[i + 1].right, !.text.chars = 80,
                            !.text.key = "row", !.text.is = {"lower"},
                            !.text.words = @ \o lines[i + 1].text.words]>>
    ELSE <<lines[i]>>])

Counts(chars, bad, spaces, vowels) ==
  [chars |-> chars, bad |-> bad, odd |-> 0, spaces |-> spaces, letters |-> chars - spaces,
   vowels |-> vowels]

EmptyLine(at, n) == LineAt(at, n, 72, 0, 0, 0, TextOf("", 0, {"blank"}, <<>>))

\* A row is empty above the text of a plain sheet that pdftotext prints.
Printed(kind, at, lines) ==
  CASE kind = "plain" -> <<EmptyLine(at, 99)>> \o lines
    [] kind \in {"columns", "headed", "centred"} -> InRows(lines)
    [] kind \in {"sludge", "cipher"} -> Sludged(lines)
    [] kind = "scan" -> <<>>
    [] OTHER -> lines

\* A transcription has an empty line between paragraphs.
Seen(kind, at, lines) ==
  IF kind \notin {"plain", "notes", "scan", "sludge"} THEN lines
  ELSE SubSeq(lines, 1, 4) \o <<EmptyLine(at, 98)>> \o SubSeq(lines, 5, Len(lines))

Stood(kind, lines) ==
  CASE kind \in {"sludge", "cipher"} -> Sludged(lines) [] kind = "scan" -> <<>> [] OTHER -> lines

CountsFor(kind) ==
  CASE kind \in {"blank", "scan"} -> Counts(0, 0, 0, 0)
    [] kind = "sludge" -> Counts(400, 40, 60, 140)
    [] kind = "cipher" -> Counts(400, 0, 200, 10)
    [] OTHER -> Counts(400, 0, 60, 140)

SheetWith(kind, at, lines) ==
  [height |-> 792, width |-> 612, lines |-> Stood(kind, lines), layout |-> Printed(kind, at, lines),
   image |-> Seen(kind, at, lines), counts |-> CountsFor(kind)]

SheetOf(kind, at) == SheetWith(kind, at, LinesFor(kind, at))

Names == <<"a", "b", "c", "d", "e", "f", "g", "h", "i">>

BookOf(tag, kinds) ==
  [alphabetic |-> TRUE,
   sheets |-> [p \in DOMAIN kinds |-> SheetOf(kinds[p], 10 * tag + p)]]

Makings ==
  <<<<"plain", "plain", "plain", "plain">>,
    <<"opener", "plain", "plain", "notes", "opener">>,
    <<"opener", "opener", "list", "notes", "opener">>,
    <<"list", "columns", "headed", "plain", "notes">>,
    <<"columns", "blank", "notes", "opener", "scan">>,
    <<"plain", "sludge", "centred", "blank", "sludge">>,
    <<"scan", "scan", "scan", "plain">>,
    <<"sludge", "cipher", "sludge">>,
    <<"blank", "blank">>>>

NumberOf(name) == CHOOSE n \in DOMAIN Names : Names[n] = name

SomeBooks == [name \in {Names[n] : n \in DOMAIN Names} |-> BookOf(NumberOf(name), Makings[NumberOf(name)])]

\* Scans are saved over scans and over a book with text.
SomeReplacements == {<<"e", "g">>, <<"g", "h">>, <<"h", "a">>}

SomeRequests ==
  {[command |-> c, extractor |-> x[1], lang |-> x[2]] :
     c \in {"extract", "translate", "vision"},
     x \in {<<"auto", "none">>, <<"auto", "deu">>, <<"ocr", "deu">>, <<"poppler", "none">>}}

\* Each switch is off in one of them.
SomeSwitches ==
  {Switches, Switches \ {"heads", "caps"}, Switches \ {"numbers", "hyphens"},
   Switches \ {"notes", "reflow"}}

SomeTools == {{}, {"pdftotext", "ocrmypdf"}}

SomeSimilar == {<<"ta1e", "tale">>, <<"tale", "ta1e">>}
=============================================================================
