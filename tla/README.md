# FolioAI: a TLA+ model of the translation of a book

FolioAI turns a PDF into a document of blocks, groups the blocks into batches,
has language models translate and judge each batch on a ladder of retries, keeps
every segment in a database, and builds the translated book from it. It runs for
hours, calls endpoints that fail, is interrupted, killed and resumed, and every
call costs money. What has to be right is therefore less what one call does than
what remains true over many of them: nothing finished is lost, redone or paid for
again; nothing unfinished passes for finished; the book has no gaps.

The modules here model that, TLC checks them on small instances, and TLAPS proves
the main results for every instance.

## The system

| part (source) | state it keeps | operations | properties that make it correct |
|---|---|---|---|
| Extraction (`extract/`) | the PDF, its OCR layer, the lines on the way to paragraphs | probe, choose and run a backend, read the worst pages again, clean in five passes | no line is lost or repeated; the text is that of this book, and where one column is read after the other in the order it is printed |
| Structure (`structure.py`, `ir.py`) | the document: chapters, blocks | find headings and chapters, build blocks | every paragraph and note is a block of one chapter, in order |
| Glossary (`glossary.py`, `glossary_build.py`) | glossary.yaml, its backup, rows of terms | sample, merge, save, edit, check, audit | no term is lost, a draft that was paid for survives |
| Segmentation (`segment.py`, `chapters.py`) | units, batches | select chapters, group | batches tile the book, stay within a chapter and the limits |
| Orchestration (`orchestrate.py`, `jobs.py`) | rows, job status, workers, breaker, summaries | start, batch worker, breaker, stop, kill, resume | finished work is stable, memory agrees with the rows, a run ends |
| Batch ladder (`orchestrate.py`, `translate.py`) | attempts of a batch | translate, validate, judge, retry, choose | what is committed follows from what was answered |
| Protocol and validation (`tags.py`, `validate.py`) | none | parse an answer, find what is wrong | no mangled answer passes |
| Judge (`evaluate.py`) | none | score, hard fails, repair | a high mean hides no critical issue |
| Client (`llm/client.py`, `llm/ratelimit.py`, `llm/cache.py`) | cache, budget, buckets, usage rows | complete, retry, book | the overspend is bounded, nothing cached is bought again |
| Job lifecycle (`cli.py`, `review.py`, `export.py`, `store.py`) | ir.json, rows, ir.translated.json, exports | translate, resume, review, export | edits survive, nothing unasked-for is translated |
| Rendering (`render/`) | none | lay out the chapters in order | every block reaches the output |
| Estimate, report, configuration | settings | arithmetic, presentation | not modelled, see the end |

How they interact. `cli.py` calls `prepare_job`, which extracts the book unless the
job has a document, loads the glossary, and restricts the document to the chapters
asked for; then `run_job`, which seeds the rows from the
document, hands the client's `on_usage` callback to the store, and awaits
`Orchestrator.run`. That starts one asyncio task per batch behind a semaphore;
each task asks the translator and the judge through the client, which looks into
the prompt cache, checks the budget, waits for the rate limiter, retries and books
the cost. The tasks share the translations in memory, the circuit breaker, the
summary of each chapter behind one lock, and the store. Every row is written in a transaction of its own. The
translated document is written once, at the end of a run. A review is another
process and writes rows of its own accord; an export reads what the last run
saved. The glossary commands open a job by themselves; a run reads the terms when it
starts.

What is hard:

* *Interleaving.* Everything is one event loop: between two awaits a task is
  undisturbed, at each await all others may move. State read before an answer is
  used after it.
* *Failure anywhere.* A task may raise, the user may interrupt, the process may
  die between two transactions of one batch, between a usage row and a cache
  entry, between the rows and the saved document.
* *Sequences of runs.* Resume, other selections of chapters and reviews start
  from whatever the runs before left behind.
* *Order and choice.* Which attempt of a segment is kept when all failed in
  different ways; who counts for the breaker and when.
* *Passes.* The cleaner takes lines out, moves some aside and joins others, five times
  over: what one pass leaves out must have been put somewhere.
* *Other people's files.* A PDF replaced under its name, a glossary in an editor, a
  kill in the midst of a write.
* *Limits.* Budgets of tokens, money, requests, segments and attempts, each with
  a boundary.

PROJECT.json lists each of these hazards at the line where it bites, with the
properties that would catch it.

## The modules

An action is what the code does between two awaits. A crash is an action of its
own that performs part of such a piece. What dies with the process and what stays
on disk are separate groups of variables in each module.

| module | models | state and actions |
|---|---|---|
| `Attempts` | `Attempt`, `_best_outcome` | the kinds of result an attempt gives a segment, and which one is kept |
| `Orchestrator` | `Orchestrator.run`, `_process_batch`, breaker, summaries, `run_job` | rows, saved document, workers by phase; `StartRun`, `StartBatch`, `AttemptReturns` (judge, retry, commit, trip, killed half way), `SummaryReturns`, `CallFails`, `Interrupt`, `Kill`, and the end of a run step by step: `CancelWorkers`, `Unwind`, `RecordFailed`, `WritePartial`, `SaveDocument`, `SaveFails`, `RecordEnd` |
| `JobPromise` | the abstract specification of a job | a book delivered piece by piece; `Deliver`, `Close`, `Reopen` |
| `Answers` | `tags.py`, `validate.py` | an answer as data; what `parse_segments` takes it for; the critical findings |
| `Verdicts` | `evaluate.py` | a reply as data; composite, hard fails, pass |
| `BatchLadder` | one batch through the ladder, with the prompt cache, over several runs | outcomes, caches, the attempts of this run and of a stopped one, what the length-ratio tracker hints; `StartRun`, `AnswerFromModel`, `AnswerFromCache`, `ReplyFromModel`, `ReplyFromCache`, `Stopped` |
| `RateLimiter` | `TokenBucket` | two buckets, and what left them; acquire (clamped), refund, tick |
| `LLMClient` | `OpenAICompatibleClient.complete` with concurrent callers | cache, usage, guard, place of each caller; `Complete`, `AcquireRequest`, `AcquireTokens`, `Returns`, `KilledBooking`, `FailsTransiently`, `Resend`, `FailsForGood`, `RecordAttempt` |
| `JobLifecycle` | the commands of a user on one job | the three files and the rows; `Translate`, `Resume`, `DryRun`, `StartRun`, `Begin`, `Commit`, `Finished`, `Stopped`, `Killed`, `Accept`, `Edit`, `Requeue`, `Export` |
| `Segmentation` | `build_batches` | the loop, one action per turn: `TakeOversized`, `OpenBatch`, `Join`, `Finish` |
| `Book` | `detect_structure`, `build_document`, `apply_selection`, `iter_chapters`, over `Segmentation` | manuscript, chapters, blocks; `Extract`, `Select`, `GroupUnits` |
| `Cleaning` | `clean.py` | the pages, what was stripped and why, body, notes, paragraphs; one action per pass: `Strip`, `Split`, `Reflow`, `RepairDropCaps`, `Dehyphenate` |
| `Extraction` | `probe.py`, `pipeline.py`, the extractors, `ocr.py`, `vision.py`, over `Cleaning` | the file, its OCR layers, the command and its stage; `Call`, `Select`, `ExtractText`, `ExtractOcr`, `ExtractorFails`, `Suspect`, `Transcribe`, `RasterizeFails`, `Apply`, `CleanPass`, `Finish`, and `Replace`, the user's |
| `Glossary` | `glossary.py`, `glossary_build.py`, the glossary commands of `cli.py` | file, backup, rows, the phase of a command; `Open`, `Sample`, `Merge`, `Save`, `Backup`, `Edit`, `Upsert`, `Kill`, `Remedy`, `Translate` |
| `Places` | | filters and sorts by the places they take elements from: `InOrder`, `Ranked`, `At`, which `Book`, `Cleaning` and `Extraction` are written with |
| `MC...` | | values of the constants for TLC |
| `...Proofs` | | theorems |
| `SequenceFacts` | | lemmas about sequences, filters, sorts and flattened lists that `BookProofs` and `ExtractionProofs` rest on |

They compose at their seams. `Orchestrator` and `BatchLadder` both extend
`Attempts`: the first lets an attempt give each segment any kind of result its
`Results` allow, the second derives the kind from a concrete answer and reply, and
its `KeepsWhatAttemptsSay` and `OneKindOfResult` check that the orchestrator's
abstraction is the right one. `LLMClient` extends `RateLimiter`, `Book` extends
`Segmentation`, `Extraction` extends `Cleaning`; what the cleaner ends with, paragraphs
with their notes, is what `Book` begins with. `JobLifecycle` sees a run only from its rows; how it comes to a
text is `Orchestrator`'s matter.

Data is abstracted to what the properties tell apart. A text in `Orchestrator` is
the kind of attempt it came from and the run that committed it; in `BatchLadder`
it is one of five bodies; in `Book` a paragraph is its page, its weight and what decides whether it is a
heading; in `Cleaning` a line has a place, a size, the features the regular expressions
look for, and words only as far as hyphens are about them; in `Glossary` a translation
is the set of renderings found in it. Wording, logging and layout are left out.

Some modules hold operators marked "Variant": they say how a definition would
look with a plausible mistake in it (a guard dropped, a tag forgotten). Nothing in
a specification uses them. For each property of each passing run there is one
(PROJECT.json, `mutants`) under which TLC finds that very property violated.

## The runs

| run | instance | shows | states |
|---|---|---|---|
| `orchestrator_safety` | 4 segments in 3 batches over 2 chapters, 2 slots, 2 attempts, breaker at 2 of 50 %, 2 runs, faults everywhere, between the save and the status too | the safety properties of the orchestrator; it implements `JobPromise` | 1,556,000 |
| `orchestrator_liveness` | 3 batches, 2 slots, a summary after every batch, one faulty run and one without faults | every run ends; a fault-free resume completes the job | 118,000 |
| `orchestrator_lost_text` | 3 batches, 1 attempt | *violation*: an interrupted resume saves a document that has lost flagged translations | |
| `batch_ladder` | 2 segments, 2 attempts; 11 answers and 6 replies in one run, 2 and 2 over two runs; a tracker that is silent or warns; a cache that may fail | commits are sound and what the orchestrator takes them for; a resume repeats what the cache decides | 103,000 |
| `llm_client` | 2 callers, 3 requests (within the bucket, larger than it, without `max_tokens`), budget 2, buckets of 1 and 4, 1 retry, 3 calls, 2 processes | bounded overspend, no double payment, rate kept but for what is never asked of it, calls end | 760,000 |
| `client_cost` | the same | *violation*: a translator's response is booked twice | |
| `job_lifecycle` | 3 segments in 2 chapters, 4 commands | edits survive, only selected work is done, the saved document is current | 5,358,000 |
| `lifecycle_export` | the same | *violation*: an export does not show an edit made after the last run | |
| `lifecycle_ir` | the same | *violation*: `--chapters` with `--from` damages the document on disk | |
| `book_plan` | 4 paragraphs or none, 0 or 2 notes, 5 placings of titles in 5 looks, 3 outlines, 2 selections | nothing is lost, repeated or mixed up between paragraphs and batches | 256,000 |
| `extraction` | 9 books of 2 to 5 sheets, 4 settings of the cleaner's switches, 12 commands of which 2 are given, with and without external programs | the cleaner accounts for every line, the order is that of the print but for two cases named below, the paragraphs are the text and part where sentences do, heads and hyphens follow the book, extractors are not mixed unsaid, the text is that of the book | 70,400 |
| `glossary` | 3 terms, 6 blocks, 2 segments, 5 answers, 3 commands, kills | terms are kept, a draft survives a slip, the audit agrees with the warnings | 5,331,000 |

The four violations are the disagreements between the code and its documentation or
tests that modelling met; `findings` in PROJECT.json quotes both sides of each.

Why the bounds are enough:

* *Two runs* are what it takes for a resume to meet what a run leaves behind: rows
  pending, translating, flagged and done in any mixture, a status and a saved
  document, which are all that a third run would find as well. In `batch_ladder` one is
  to be stopped and one to replay it; the job is set to one of two pairs of models, those that
  go wrong in every way, in one run, and those of the replay, because two runs with all answers
  are more than TLC gets through.
* *Two slots and three batches* put two workers in front of a model with one
  waiting; two of the batches share a chapter, so they contend for its breaker
  count and its summary; one batch has two segments, so a batch can be half
  landed, and half stripped on resume.
* *Two attempts* have both a retry and the escalation in them; a second retry
  repeats the first. The results a judge may give in the safety instance are a
  pass and one left unscored, plus a blank answer, next to the unjudged one that is
  always possible: the kinds `Keep` treats differently at the boundary.
* The *answers* of `batch_ladder` are one for each way `parse_segments` and
  `validate_batch` have of finding something wrong, and the *replies* one for each
  way a score can fail, with five composite scores, so that failing attempts are better, worse and
  equal.
* Of the *requests* of `llm_client` one may be answered with as much as it asked for, one asks for
  more than the bucket holds, and one has no `max_tokens`, as those of the judge.
* *Four commands* hold a translation, a review, another selection of chapters and a
  resume or an export in any order, with the runs between them; each mutant of this module is caught within them.
* A *budget of 7* with weights of 1, 4, 5 and 7 and tags of 1 meets the budget
  exactly, passes it by exactly one pair of tags, and has an oversized block, in
  every position of four; with at most two segments to a batch the other limit
  bites as well.
* *Nine books* are put together from eleven kinds of sheet, each there for a branch of a
  pass or of the probe: heads that repeat and one that is misread, a heading in the
  margin, a large initial, notes that start and one that goes on, lists, captions, two columns
  (with rows across them as pdftotext prints them), the same under a heading over both, flush with the left one
  or in the middle, blank sheets, scans, and two ways of being garbled. Above the text of pdftotext, and between the
  paragraphs of a transcription, there are empty lines. A share of 60 % makes three of five pages exactly the
  fraction of a running head; on other books a head is on fewer pages and stays, or is on two of four. *Two commands* let the second meet the layer, the replaced file and the
  document the first left. A cap of two pages is less than what is bad in two of the books.
* *Three terms and six blocks* have a term that is frequent only when every block is counted,
  one that is rare and a name by one answer and not by another, and a passage that ends
  at the budget. *Three commands* are a build, an edit that slips, and what meets the result; a
  kill may come at any step and leaves a file half written.
* *Two selections* suffice, because `BatchesSurviveSelection` compares pairs.

Deadlock is not checked: every instance stops when its bounded runs, commands or
selections are used up.

Distinct callers and keys are few enough that no symmetry is used.

## Fairness

`orchestrator_liveness` assumes weak fairness of each worker's step, of each cancelled worker's
unwinding, and of each step that ends a run but its failure (`RunFairness`), and for `EventuallyCompleted` of starting the next run.
The asyncio loop runs every task that is ready, and every call has a timeout, so an
answer or an error comes; a run is started again by a user, so that fairness is
the assumption "the user resumes". Which worker gets the semaphore is a free
choice within that. `EventuallyCompleted` also needs runs without faults from some
point on and a breaker that cannot trip: both are in the instance and named in its
configuration.

`llm_client` assumes weak fairness of time and of each caller's next step. It needs
nothing stronger for a caller that sleeps for its tokens outside the bucket's lock,
and may find them taken by others, because the calls are finite in number, as those
of a book are; with endless others it could starve.

`batch_ladder` has no liveness run: a ladder ends because `no` grows with each
attempt and is bounded.

## The findings

Each is shown by a violation run.

1. `TranslationStaysInDocument` (`jobs.py:313`): a resume that is stopped before it
   comes to a flagged segment saves source text in place of the flagged translation.
   The row still has it.
2. `JobCostIsPaid` (`orchestrate.py:433`): usage is written by the client's callback
   and again with the attempt.
3. `ExportShowsEdits` (`export.py:190`): an export reads the saved document and not
   the rows.
4. `IrStaysComplete` (`cli.py:755`): a save meant for the source language keeps the
   selection of chapters.

## The proofs

`tlapm` checks every leaf; nothing is assumed but the named assumptions on the
constants (`OrchestratorAssumption`, `BatchLadderAssumption`, `VerdictsAssumption`,
`SegmentationAssumption`, `BookAssumption`, `CleaningAssumption`, `ExtractionAssumption`,
`GlossaryAssumption`, `JobLifecycleAssumption`, `LLMClientAssumption`, `RateLimiterAssumption`),
which TLC evaluates in the runs. They say that the numbers are numbers in range, that
batches follow the order of the segments, that the results are those the source
defines, that answers and replies are what the parsers can make of a string, that there are
finitely many sheets to a book, callers and terms, that one price is the highest, that
paragraphs, notes, sheets and lines are records of their kinds, and that there are ids enough.
Of the lines of a book `ExtractionAssumption` says what the extractors see to: a line
has an id of its own in each way a sheet is read, no two sheets share one, a text layer
has no blank lines (it skips them: `extract/pymupdf.py:164`), and what the model transcribes begins with a line
of text (its answer is stripped). No theorem has a hypothesis of its own, but for `OneAtATime`, which is
about the results of attempts.

The library's induction theorems take an operator, which the provers cannot instantiate.
What would be an induction on a number is proved by taking the least number for which it
fails (`LeastNumber`, from the well-foundedness of `<`): that a recursive function exists,
that there is only one, and what each of its values is. In this way the proofs can open
the sum of `Wire`, the choice of `KeepsWhatAttemptsSay`, the outline of `FromOutline` and the
groups of `Leaders`. The filters, sorts and folds of the modules on sequences take an operator
too and stay closed; a filter or sort that a proof has to see is therefore written with `Places`, by
the set of the places it keeps or the relation it sorts by. `SequenceFacts` says what these hold:
`InOrder` and `Ranked` list a finite set, each member once, in the order asked for; a flattened
sequence has its elements part by part (`FlattenPlaces`), and if each part lists its elements once
and no two parts share one, so does the whole (`FlattenOnce`).

**`OrchestratorProofs`**: for any book, any plan of batches, any concurrency, ladder,
breaker and summary setting, and any number of runs and faults:

* `TypeCorrect`, `DoneIsAlwaysAccepted`, `ResumeNeverReworks`,
  `MemoryAlwaysMatchesRows`, `DoneIsAlwaysExported`, `CompletedNeverHasGap`,
  `AlwaysQuietWhenStopped`.

None of these is inductive alone. That a commit overwrites nothing finished needs to
know that the units a worker holds are unfinished; that needs the plan of each run
to be made from the rows (`RunCoversBook`), the work of a batch to stay within the batch
(`WorkInBatch`), and memory to hold no text of a unit still in work
(`UnfinishedNotInMemory`), or else two workers could commit the same segment. That the saved document shows
every finished row needs memory to hold all of them while a process lives
(`DoneIsInMemory`), and the document to be what was in memory from the save until the status follows
it (`SavedIsInMemory`). `DoneIsExported` is about jobs that are cancelled or completed: a failed
one gets its status first and its document afterwards (`jobs.py:286-292`), and the save may fail unheard
(`jobs.py:314`), so that it may be left with an old document. `AlwaysQuietWhenStopped` rests on `StoppedInOrder`:
a run that ends cancels its workers, each unwinds in a step of its own at the await it stands at, and only
when all have does `gather` return; nothing that is still to write stands after it. `Inductive` is the conjunction; there is one lemma per action, with a
step per conjunct the action disturbs, and one for the whole step.

Also there: `JobKeepsPromise`, that the orchestrator implements `JobPromise` with
the rows as the book and the finished ones as settled, and `DoneIsAlwaysStable`
([][...]_vars): a finished row never changes. No run checks `DoneIsStable` by itself, because the
promise that `orchestrator_safety` checks, `KeepsPromise`, already has it. The refinement needs one more invariant, `TextsOfRuns`:
a text carries the run that committed it, and what a worker is about to replace is
of an earlier run. Every step either finalizes unfinished rows (`Deliver`), changes
the job's status (`Close`, `Reopen`), or is a stutter. `BreakerAlwaysCounts` needs the same
invariant: a batch that lands adds as many segments to what this run has committed as the breaker
counts, because none of them was committed by this run before; and while a process
lives no chapter's count is one at which the breaker would have tripped (`BreakerKnows`).

**`BatchLadderProofs`**: for any batch, any answers and replies, any weights and thresholds
of the judge, any number of attempts and of runs, and a stop at any point:

* `DoneIsAlwaysSound`, `NeverAGap`, `AlwaysOneKindOfResult`, `ReplayAlwaysFollows`; and
  `OneAtATime`, which is about `Attempts` alone.

The invariant has three parts. `Course` is about the attempts: what is committed for a
segment is what `_best_outcome` finds in its attempts, and each attempt has the request
that follows from the attempt before it. `Books` is about the caches: they have one response to a request, and
what a stopped run found in them is still there. `Echo` is about a resume: an attempt that asks what
an attempt of the stopped run asked is given what the caches keep of it. The judge is shown the warnings, and
one of them comes from a tracker that is new in every run (`orchestrate.py:224`) and silent below 25
samples, so a resume may ask the judge something else about the same text. `ReplayAlwaysFollows` therefore
says how far a resume repeats the stopped run: attempt by attempt as long as the tracker hints the same, the dice
send it to the judge or not as before, no answer was cut off and the cache kept what it was given (`SameCourse`);
and at the first attempt that takes another course it still asks the same and is answered the same text. What is paid
twice is not said here but in `LLMClient`, which has the steps between the charge and the cache.

`AttemptsAreFaithful` says that the orchestrator's model of the ladder, in which an attempt
has one of six kinds and a score, loses nothing, whatever the scores are: of the
attempts without a pass, what `Keep` keeps one attempt at a time is what `_best_outcome` chooses of all.

**`BookProofs`**, first about `Segmentation`: `UnitsAreTiled`, `BatchesKeepToChapters`,
`BatchesStaySmall`, `BatchesStayWithinLimits` and `NoBatchIsWasted` for `GroupingSpec`, in which
`build_batches` groups any sequence of documents under any budget. The invariant `Inv`
adds to the first three the batch being filled: the
batches put down tile the units up to the first one it holds, and its units are of
one chapter and few enough. `ClosedTiles` is the central lemma: with that batch put down,
the batches tile all units taken so far; every action either uses it or leaves
the batches alone. `Costs` does the same for the budget: the batch being filled is within it
after every turn, and its first unit would not have gone with the batch before
(`Parted`); with no batch being filled and a unit to come, the batch put down last is
oversized (`PartedOpen`), without which the next batch could not be told to be needed.
`WireIs` says what the sum of a batch is: nothing for no units, and the tokens and
tags of one more for one unit more.

Then about `Book`, for every manuscript, outline, budget and sequence of selections.
`DetectedDivides` is about the four ways to find chapters: whichever it is, the chapters begin at
different paragraphs, in order, the first of them at the first paragraph; for the outline that takes a
proof that no two entries are mapped onto one paragraph. So each paragraph has
one chapter, the chapters go up with the paragraphs, and each note has the chapter of its page
(`HomesAscend`, `NoteHomeIs`). `Placed` is the invariant: the blocks are arranged
in this way, and what is being grouped are the blocks of the selected chapters in order, as typed units.

* `BooksAreRenderedOnce`: the contents of the chapters, one after the other, list all blocks.
* `BooksAreGrouped`: every behaviour of `Book` is one of `GroupingSpec` (its `Select` is a
  `Regroup` when the grouping before has ended), so that `BooksAreBatched` follows from the
  theorems about `Segmentation`.
* `BatchesSurvive`: in a book without notes a wider selection sends each chapter in the batches of the
  narrower one. A batch is told by its first block alone: where it
  ends follows from the tokens of the blocks after it in its chapter (`PieceIs`, with `Flagged` to tell an
  oversized block from a full batch). Hence two groupings that both start a batch at a block end it at the same one
  (`PieceSurvives`), and by the least block where they differ there is none. `Remembered` carries this for the batches
  of all selections before (`EarlierBatchesCut`).

**`GlossaryProofs`**: `TermsAreKept` ([][...]_vars) and `BackupHolds`, for any book,
any candidates a model answers with and any sequence of commands and kills. A command reads
the file in one step and overwrites it in another, so the invariant follows it through its
phases (`Saving`): while passages are sampled the glossary in memory is the file; when it
comes to save, what it will write begins with the file's terms and adds others
(`GoesOn`); before the backup is copied the file is what was written, and
once the editor is open the backup is. `KeptIsNew` is the
fact about the merge: what a build keeps has sources that the glossary does not have.
How often a term occurs is a sum, of which only the type is used.
`AuditAgrees` is about a translation and an audit that are far apart, with any edits between them:
what was warned of at the time is what is missing from the texts still (`Warned`), and the audit takes the
texts; a term without a rendering counts as found in both.

**`ExtractionProofs`**, for any books, cap, switches, thresholds, similarity of keys and any sequence of
commands:

* `MixingIsTold`. The invariant follows a command: until the answers are applied every page is the
  chosen extractor's and nothing is reported (`Told`); each page is asked for once, within
  the cap, so the calls are as many as the pages answered or failed (`AskedOnce`).
  That rests on `BadPagesAre`: the list of the worst pages has no page twice and is no
  longer than the cap.
* `TextIsOfTheBook`. A layer that is newer than the file is of the book that is there (`LayersAre`: a
  layer is made of the book and a replacement is newer than every layer), and what is on the pages
  was read off the sheets of the book in one of the ways a sheet can be read (`ReadOff`).
* `NothingIsLost`. `Accounted` says that while the cleaner is at work the lines stripped,
  the lines of the text and the lines of the notes are each listed once, share none and
  are what it was handed. It begins so because each way of reading a sheet gives each line once
  (`PyMuPdfReads`, `PopplerReads`, `TranscribedReads`), and each pass keeps it:
  `StripAccounts`, `SplitAccounts`, `ReflowAccounts`, and the two that repair. Whatever the thresholds and the
  regular expressions say, they only decide on which side a line ends. One gap in the code would break
  it: a blank line is neither kept nor noted, which is why the extractors must skip them.
* `HeadsAreOfTheBook` ([][...]_vars). Every key has one leader, which it is like
  (`LeadersAre`), and is counted together with all that is like that leader; so what is on
  enough pages by itself is in a group that is, and a line of a group on two pages has another like its leader on
  another page. `ThresholdIs` has the arithmetic, from both sides: the rounded threshold is at most what is the
  fraction or more, and two at least; and with one page more than it there are more pages than the fraction. So what is on
  the fraction of the pages is stripped, and what is stripped is like something that is on so many.
  `StripAccounts` says that what is furniture is noted with its reason.
* `ParagraphsAreWhole`. `Runs` cuts a sequence and loses nothing (`FlattenRuns`), and two lines side by
  side in a piece stood side by side in the body with no start between them (`RunsAreWhole`), which is where `should_break`
  said to go on. The repairs keep the lines and the joints where they are.

**`JobLifecycleProofs`**: `EditsAlwaysSurvive`, `NoneUnaskedFor` and
`SavedAlwaysShowsFinished`, for any book, any chapters and any sequence of commands, kills
and reviews. What the three lack is what the run under way knows: it has not planned a segment
with an edit (`EditsUnplanned`: only an edit made while no run holds the segment is counted);
its document, its plan and its seeding stay within what was selected (`ScopeSelected`);
its memory has the text of every finished row, except of what is reviewed meanwhile
(`MemoryShows`), which needs that a row that is not there has no text (`AbsentIsEmpty`).

**`LLMClientProofs`**: `OverspendIsAlwaysBounded`, `CachedIsNeverBoughtAgain` and
`TokensAlwaysWithinRate`, for any number of callers, requests, retries and processes,
any prices and any budget. All three bound the number of calls in flight. The guard looks
at the budget when a call begins, so the bound on the overspend is inductive only when it
also holds for calls in flight before anything was spent (`Bounded`). The tokens hold
because what has left the bucket and was not used is held by calls (`Covered`), each of which
took what it asked for or, if that is more, the whole bucket; their sum is counted as the size of a set (`Claims`).
`TokensWithinRate` has no assumption about sizes. The code clamps an amount as it is taken and not as it is given back,
and takes nothing for the answer of a call without `max_tokens` (`llm/client.py:227`), so that responses can weigh more
than the bucket ever gained; the theorem says by how much, call by call (`excess`): what the call was
answered with and refunded, less what it took.

Only model-checked: all liveness (`RunEnds`, `EventuallyCompleted`, `EveryCallEnds`), because ENABLED is
out of the prover's reach; `ReadingOrder`, which is about books whose print has one order
that the geometry of their lines shows, as that of the instance has, and not about every
book, and which excepts two kinds of line that the code does read out of order: a row that pdftotext prints across
columns, and a heading in the middle over two columns; and `HyphensFollowTheBook`, which counts words through a fold over lines and filters over the
words of the book, which are closed to the provers.

## What is not modelled, and why

* **The marker backend, images, the outline, Unicode normalisation**: external
  programs and rewriting of characters. Of an external program only what it may return
  or leave behind is modelled.
* **Kinds of text** that no operation tells apart (verse, quotation, dialogue), matter tags,
  the reading of a chapter's number: labels in the document. A paragraph without a page is left out.
* **The regular expressions** of tags, checks and the cleaner: an answer or a line is given as
  what they would find in it. Of the checks that only warn, the one about the
  glossary is in `Glossary`; the others are one flag.
* **Matching a term in a text**, with inflection: the set of terms found is given.
* **The prompts**: what a request says matters to no property; that it is the same on a
  replay is in `BatchLadder`. Which texts it quotes as context is left out.
* **Estimate, report, tokens, pricing**: sums of numbers that other programs give, and
  tables of them, computed afresh from a document or the rows, that nothing reads again.
* **Configuration, environment, logging, prompts' templates**: read once before a
  command starts; settings are constants.
* **Renderers' layout**: external libraries; the order of the blocks is in `Book`.
* In the client and the ladder: which errors are transient is a choice, backoff times are left out,
  a cache that cannot be read (which the code takes for a miss) does not occur.
* In the lifecycle: `jobs rm` (back to the initial state), reports. A requeue's
  instruction is not carried, because no prompt reads it.
* Attempt and evaluation rows: history that no run reads.

Reading the code for the models also met the following, which no run is about:

* A resume assembles context from the units still pending, so it skips what is finished
  (`orchestrate.py:590`). A cached answer has no finish reason, so when a cut-off answer comes back from
  the cache the next attempt is asked within the same budget (`llm/client.py:223`), which
  `orchestrate.py:304` means to prevent; `ReplayFollows` is stated up to that.
* Retries pass neither the budget guard nor the limiter again (`llm/client.py:259`). "Estimation
  is deliberately pessimistic" (`llm/ratelimit.py:104`), but the judge, its repair, the back-translation and
  the glossary call without `max_tokens`, and a request larger than the bucket is clamped:
  `TokensWithinRate` counts what that lets through.
* A heading in the middle over two columns is read after the left one (`extract/pymupdf.py:114`), and
  `--extractor poppler`, offered "for multi-column pages PyMuPDF orders badly" (`extract/poppler.py:1`), makes one
  line of each row that `pdftotext -layout` prints across the columns (`extract/poppler.py:110`). `ReadingOrder`
  excepts these lines; without either exception TLC refutes it.
* A running head is stripped on exactly `header_page_fraction` of the pages (`extract/clean.py:255`), not on more only, as
  `extract/clean.py:226` says; `HeadsOfTheBook` has the threshold of the code.
* The OCR layer is taken again by time alone, whatever its language (`extract/ocr.py:76`).
* A word of three parts is decided by a compound of two of them that no count knows,
  so "mother-in-law" may become "mother-inlaw" (`extract/clean.py:620`); the joining of hyphens inside
  notes has no effect (`extract/clean.py:680`).
* pdftotext gives no sizes, so with it every line in a margin may count as a running head
  (`extract/clean.py:255`).
* When the model could read none of the pages, the report does not name those that
  failed (`extract/vision.py:155`); the cost of the vision fallback is booked nowhere (`cli.py:646`).
* The audit of a glossary calls a term consistent that was found in no segment
  (`glossary_build.py:388`); passages are taken from the front, so the end of a book may go
  unsampled (`glossary_build.py:141`); a kill while the file is written leaves an empty one, which goes before
  the rows (`glossary.py:90`); a term removed from the rows by deleting the file comes back.
* The job's id does not contain the target language (`paths.py:176`); an edit that leaves
  nothing is stored as a finished row (`review.py:262`); a job may be 'completed' with rows 'translating'
  of other chapters (`jobs.py:304`); another extraction leaves the old rows (`jobs.py:102`); a
  chapter without a number goes by its position (`chapters.py:93`).

## The plan

Done, in this order: `Attempts`, `Orchestrator` with `JobPromise` and their proofs;
`Answers`, `Verdicts`, `BatchLadder`; `RateLimiter`, `LLMClient`; `JobLifecycle`;
`Segmentation`, `Book` and the proofs about segmentation; `Cleaning`, `Extraction`;
`Glossary` and its proofs; the proofs about `JobLifecycle` and `LLMClient`; the proofs about
`BatchLadder` and `Extraction`, about the token budget, the breaker's count and the audit;
`Places` and `SequenceFacts`, and with them the proofs about `Book` and `Cleaning`.

What may follow:

1. An abstract specification of the client, *a memo with a budget* (each request is
   bought at most once by each caller, the sum is bounded), implemented by `LLMClient`.
2. An abstract specification of the lifecycle, *a book with a reviewer*, implemented
   by `JobLifecycle`.
