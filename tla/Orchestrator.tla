---------------------------- MODULE Orchestrator ----------------------------
(***************************************************************************)
(* One translation job: Orchestrator.run and the batch workers it starts   *)
(* (orchestrate.py), the segment rows they write (store.py) and run_job    *)
(* around them (jobs.py), over several runs of the same job.               *)
(*                                                                         *)
(* The program is one asyncio event loop: a worker runs undisturbed from   *)
(* one await to the next, so each action below is the code between two     *)
(* awaits.  A worker awaits the semaphore, the translator's answer, the    *)
(* judge's answer, the summary lock and the summariser's answer.           *)
(* Everything in memory dies with the process; the rows, the job's status  *)
(* and the translated document on disk survive it.  The attempt, verdict   *)
(* and usage rows a worker writes are left out: a run never reads them.    *)
(***************************************************************************)
EXTENDS Attempts, Naturals, FiniteSets

CONSTANTS
  Seg,           \* ordinals of the job's segments, in document order
  Batch,         \* the batches of segment_document, in order
  Chapter,       \* chapter ids
  BatchOf,       \* the batch each segment is in
  ChapterOf,     \* the chapter each batch is in
  Concurrency,   \* translation.concurrency
  MaxAttempts,   \* retry.max_attempts
  BreakerMin,    \* retry.breaker_min_failures
  RateNum,       \* retry.breaker_failure_rate is RateNum / RateDen
  RateDen,
  SummaryEvery,  \* context.summary_every
  Judged,        \* the results a judge may give a segment
  Malformed,     \* the results a critical finding may give a segment
  MaxRuns,       \* bound: how often the job is started
  FaultyRuns     \* bound: faults happen only in the first FaultyRuns runs

ASSUME OrchestratorAssumption ==
  /\ Seg \subseteq Nat /\ IsFiniteSet(Seg)
  /\ Batch \subseteq Nat /\ IsFiniteSet(Batch)
  /\ BatchOf \in [Seg -> Batch]
  /\ ChapterOf \in [Batch -> Chapter]
  /\ \A s, t \in Seg : s <= t => BatchOf[s] <= BatchOf[t]
  /\ Concurrency \in Nat \ {0}
  /\ MaxAttempts \in Nat \ {0}
  /\ BreakerMin \in Nat \ {0}
  /\ RateNum \in Nat /\ RateDen \in Nat \ {0}
  /\ SummaryEvery \in Nat \ {0}
  /\ \A r \in Judged : r.kind \in {"pass", "rejected", "unscored"} /\ r \in AttemptResults
  /\ \A r \in Malformed : r.kind \in {"malformed", "blank"} /\ r \in AttemptResults
  /\ MaxRuns \in Nat /\ FaultyRuns \in Nat

VARIABLES
  \* on disk
  status,        \* segments.status of each row
  final,         \* segments.final_text of each row
  jobStatus,     \* jobs.status
  ir,            \* ir.translated.json: the text each block shows
  \* in the process
  proc,          \* "down", or how far the run has got
  run,           \* how many runs have been started
  translations,  \* Orchestrator.translations
  work,          \* the units each batch still has after _strip_done
  phase,         \* where the worker of each batch is
  attempt,       \* attempt_no of that worker
  kept,          \* best outcome so far of each segment, see Keep
  attempted,     \* CircuitBreaker.attempted
  failed,        \* CircuitBreaker.failed
  since          \* SummaryTracker._since_refresh

disk    == <<status, final, jobStatus, ir>>
breaker == <<attempted, failed>>
memory  == <<translations, work, phase, attempt, kept, attempted, failed, since>>
vars    == <<status, final, jobStatus, ir, proc, run, translations, work,
             phase, attempt, kept, attempted, failed, since>>

-----------------------------------------------------------------------------
(* Values *)

\* A text is told apart by what it is and by the run that committed it.
Text == [kind : KeptKinds, run : Nat]
NoText == [kind |-> "none", run |-> 0]

\* What a document shows that a save left half written: nothing.
Torn == [kind |-> "torn", run |-> 0]
TornDocument == [s \in Seg |-> Torn]

Statuses == {"pending", "translating", "review", "done"}

\* "queued" waits for the semaphore, "translating" and "judging" for a model,
\* "lock_wait" for the summary lock and "refreshing" for the summariser; a
\* "cancelled" one has still to unwind.
Phases == {"absent", "queued", "translating", "judging", "lock_wait",
           "refreshing", "cancelled", "ended", "raised"}

InFlightPhases == {"translating", "judging", "lock_wait", "refreshing"}

\* A run is "running" until a worker raises ("stopping") or Ctrl-C arrives
\* ("interrupted"); then run() waits for the workers it has cancelled and passes
\* the exception ("failing") or the cancellation ("cancelling") on to run_job,
\* which has recorded the failure ("failed"), or saved the document of a run
\* that returned ("saved") or was cut short ("saved_partial").
Procs == {"down", "running", "stopping", "interrupted", "failing", "cancelling",
          "failed", "saved", "saved_partial"}

UnitsOf(b) == {s \in Seg : BatchOf[s] = b}

InFlight == {b \in Batch : phase[b] \in InFlightPhases}

\* The event loop runs every worker that is ready for as long as the process
\* lives: after one of them has raised, after Ctrl-C, while run_job tidies up.
Live == proc # "down"

Trips(attempts, failures) ==
  /\ failures >= BreakerMin
  /\ attempts # 0
  /\ failures * RateDen >= RateNum * attempts

FaultsAllowed == run <= FaultyRuns

-----------------------------------------------------------------------------
Init ==
  /\ status = [s \in Seg |-> "pending"]
  /\ final = [s \in Seg |-> NoText]
  /\ jobStatus = "pending"
  /\ ir = [s \in Seg |-> NoText]
  /\ proc = "down"
  /\ run = 0
  /\ translations = [s \in Seg |-> NoText]
  /\ work = [b \in Batch |-> {}]
  /\ phase = [b \in Batch |-> "absent"]
  /\ attempt = [b \in Batch |-> 0]
  /\ kept = [s \in Seg |-> Placeholder]
  /\ attempted = [c \in Chapter |-> 0]
  /\ failed = [c \in Chapter |-> 0]
  /\ since = [c \in Chapter |-> 0]

\* The process is gone and its memory with it.
Forget ==
  /\ proc' = "down"
  /\ translations' = [s \in Seg |-> NoText]
  /\ work' = [b \in Batch |-> {}]
  /\ phase' = [b \in Batch |-> "absent"]
  /\ attempt' = [b \in Batch |-> 0]
  /\ kept' = [s \in Seg |-> Placeholder]
  /\ attempted' = [c \in Chapter |-> 0]
  /\ failed' = [c \in Chapter |-> 0]
  /\ since' = [c \in Chapter |-> 0]

-----------------------------------------------------------------------------
(* Starting a run: translate, or resume *)

\* Variants: run(only_pending=False), and a resume that takes every row a
\* worker ever touched for finished.
NothingDone == {}
StartedCountsAsDone == {s \in Seg : status[s] # "pending"}

\* Rows marked done that have a text: run() skips them.
AlreadyDone == {s \in Seg : status[s] = "done" /\ final[s] # NoText}

\* Variant: a partly finished batch is sent again as a whole.
StripNothing(b) == UnitsOf(b)

StripDone(b) == UnitsOf(b) \ AlreadyDone

StartRun ==
  /\ proc = "down"
  /\ run < MaxRuns
  /\ run' = run + 1
  /\ proc' = "running"
  /\ jobStatus' = "translating"
  /\ translations' = [s \in Seg |-> IF s \in AlreadyDone THEN final[s] ELSE NoText]
  /\ work' = [b \in Batch |-> StripDone(b)]
  /\ phase' = [b \in Batch |-> IF StripDone(b) = {} THEN "absent" ELSE "queued"]
  /\ UNCHANGED <<status, final, ir, attempt, kept, attempted, failed, since>>

-----------------------------------------------------------------------------
(* A worker: from the semaphore to the first request *)

\* The semaphore hands its slots out in the order the tasks were created.
StartBatch(b) ==
  /\ Live
  /\ phase[b] = "queued"
  /\ \A c \in Batch : phase[c] = "queued" => b <= c
  /\ Cardinality(InFlight) < Concurrency
  /\ status' = [s \in Seg |-> IF s \in work[b] THEN "translating" ELSE status[s]]
  /\ phase' = [phase EXCEPT ![b] = "translating"]
  /\ attempt' = [attempt EXCEPT ![b] = 1]
  /\ UNCHANGED <<final, jobStatus, ir, proc, run, translations, work, kept,
                 breaker, since>>

-----------------------------------------------------------------------------
(* A worker: what an answer makes of each segment of its batch *)

\* The judge is not called when validation has a critical finding, and the
\* segments the finding is not about stay without a verdict: all of them do
\* when it is about an id nobody asked for, or when the batch is sampled out.
UnevaluatedResults(b) == [work[b] -> Malformed \cup {NoVerdict("unscored")}]

EvaluatedResults(b) == [work[b] -> Judged]

UnparsedResults(b) == {[s \in work[b] |-> NoVerdict("unjudged")]}

Results(b) ==
  IF phase[b] = "translating"
  THEN UnevaluatedResults(b)
  ELSE EvaluatedResults(b) \cup UnparsedResults(b)

\* The translator's answer has no critical finding and goes to the judge.
AskJudge(b) ==
  /\ Live
  /\ phase[b] = "translating"
  /\ phase' = [phase EXCEPT ![b] = "judging"]
  /\ UNCHANGED <<disk, proc, run, translations, work, attempt, kept, breaker, since>>

\* Segments that neither passed nor went unjudged are worth another attempt.
PendingIds(b, r) == {s \in work[b] : ~Passed(r[s]) /\ ~Unjudged(r[s])}

LadderGoesOn(b, r) == PendingIds(b, r) # {} /\ attempt[b] < MaxAttempts

BestOf(b, r) ==
  [s \in Seg |-> IF s \in work[b] THEN Keep(kept[s], r[s]) ELSE kept[s]]

Retry(b, r) ==
  /\ LadderGoesOn(b, r)
  /\ kept' = BestOf(b, r)
  /\ attempt' = [attempt EXCEPT ![b] = @ + 1]
  /\ phase' = [phase EXCEPT ![b] = "translating"]
  /\ UNCHANGED <<disk, proc, run, translations, work, breaker, since>>

-----------------------------------------------------------------------------
(* A worker: the end of the ladder, _finish_batch *)

Flagged(b, best) == {s \in work[b] : ~Passed(best[s])}

\* Variant: the batch is counted with the segments stripped from it.
AttemptedWithStripped(b) ==
  [attempted EXCEPT ![ChapterOf[b]] = @ + Cardinality(UnitsOf(b))]

\* CircuitBreaker.record for every outcome of the batch
Attempted(b) ==
  [attempted EXCEPT ![ChapterOf[b]] = @ + Cardinality(work[b])]
FailedWith(b, best) ==
  [failed EXCEPT ![ChapterOf[b]] = @ + Cardinality(Flagged(b, best))]

\* Variant: the breaker is checked before the batch is recorded.
TripsBeforeRecording(b, best) ==
  Trips(attempted[ChapterOf[b]], failed[ChapterOf[b]])

\* CircuitBreaker.check, once the whole batch is recorded
BreakerTrips(b, best) ==
  Trips(Attempted(b)[ChapterOf[b]], FailedWith(b, best)[ChapterOf[b]])

Outcome(s, best) == [kind |-> best[s].kind, run |-> run]

\* Variant: flagged segments are recorded as done.
FinalizeAsDone(S, best) ==
  /\ status' = [s \in Seg |-> IF s \in S THEN "done" ELSE status[s]]
  /\ final' = [s \in Seg |-> IF s \in S THEN Outcome(s, best) ELSE final[s]]

\* finalize_segment for the segments in S
FinalizeSegments(S, best) ==
  /\ status' = [s \in Seg |-> IF s \notin S THEN status[s]
                              ELSE IF Passed(best[s]) THEN "done" ELSE "review"]
  /\ final' = [s \in Seg |-> IF s \in S THEN Outcome(s, best) ELSE final[s]]

\* note_batch: a refresh of the chapter's summary is due
RefreshDue(b) == since[ChapterOf[b]] + 1 >= SummaryEvery

\* The summary lock serves its waiters in order and lets nobody overtake.
LockBusy == \E b \in Batch : phase[b] \in {"lock_wait", "refreshing"}

Commit(b, r) ==
  LET best == BestOf(b, r) IN
  /\ ~LadderGoesOn(b, r)
  /\ ~BreakerTrips(b, best)
  /\ attempted' = Attempted(b)
  /\ failed' = FailedWith(b, best)
  /\ FinalizeSegments(work[b], best)
  /\ translations' =
       [s \in Seg |-> IF s \in work[b] THEN Outcome(s, best) ELSE translations[s]]
  /\ kept' = best
  /\ since' = [since EXCEPT ![ChapterOf[b]] = @ + 1]
  /\ phase' = [phase EXCEPT ![b] =
                 IF ~RefreshDue(b) THEN "ended"
                 ELSE IF LockBusy THEN "lock_wait" ELSE "refreshing"]
  /\ UNCHANGED <<jobStatus, ir, proc, run, work, attempt>>

\* Variant: nobody awaits the task that raised.
RaiseUnnoticed(b) ==
  /\ phase' = [phase EXCEPT ![b] = "raised"]
  /\ UNCHANGED proc

\* Something raised in the worker of b: run() will hear of the first one.
Raise(b) ==
  /\ phase' = [phase EXCEPT ![b] = "raised"]
  /\ proc' = IF proc = "running" THEN "stopping" ELSE proc

\* Variant: the outcomes are published before the breaker is checked.
TripAfterPublishing(b, r) ==
  LET best == BestOf(b, r) IN
  /\ ~LadderGoesOn(b, r)
  /\ BreakerTrips(b, best)
  /\ attempted' = Attempted(b)
  /\ failed' = FailedWith(b, best)
  /\ translations' =
       [s \in Seg |-> IF s \in work[b] THEN Outcome(s, best) ELSE translations[s]]
  /\ kept' = best
  /\ Raise(b)
  /\ UNCHANGED <<disk, run, work, attempt, since>>

\* CircuitBreakerTripped, before anything of the batch is written
Trip(b, r) ==
  LET best == BestOf(b, r) IN
  /\ ~LadderGoesOn(b, r)
  /\ BreakerTrips(b, best)
  /\ attempted' = Attempted(b)
  /\ failed' = FailedWith(b, best)
  /\ kept' = best
  /\ Raise(b)
  /\ UNCHANGED <<disk, run, translations, work, attempt, since>>

\* The process is killed between two of the batch's transactions: the rows of
\* its first segments are written, the rows of the others are not.
KilledCommitting(b, r) ==
  LET best == BestOf(b, r) IN
  /\ FaultsAllowed
  /\ ~LadderGoesOn(b, r)
  /\ ~BreakerTrips(b, best)
  /\ \E last \in work[b] : FinalizeSegments({s \in work[b] : s <= last}, best)
  /\ Forget
  /\ UNCHANGED <<jobStatus, ir, run>>

\* What happens between the last answer of an attempt and the next await
AttemptReturns(b) ==
  /\ Live
  /\ phase[b] \in {"translating", "judging"}
  /\ \E r \in Results(b) :
       Retry(b, r) \/ Commit(b, r) \/ Trip(b, r) \/ KilledCommitting(b, r)

-----------------------------------------------------------------------------
(* A worker: the rolling summary *)

TakeSummaryLock(b) ==
  /\ Live
  /\ phase[b] = "lock_wait"
  /\ \A c \in Batch : phase[c] # "refreshing"
  /\ phase' = [phase EXCEPT ![b] = "refreshing"]
  /\ UNCHANGED <<disk, proc, run, translations, work, attempt, kept, breaker, since>>

SummaryReturns(b) ==
  /\ Live
  /\ phase[b] = "refreshing"
  /\ since' = [since EXCEPT ![ChapterOf[b]] = 0]
  /\ phase' = [phase EXCEPT ![b] = "ended"]
  /\ UNCHANGED <<disk, proc, run, translations, work, attempt, kept, breaker>>

-----------------------------------------------------------------------------
(* Faults *)

\* A model call fails for good: budget, retries exhausted, dead endpoint.
CallFails(b) ==
  /\ FaultsAllowed
  /\ Live
  /\ phase[b] \in {"translating", "judging", "refreshing"}
  /\ Raise(b)
  /\ UNCHANGED <<disk, run, translations, work, attempt, kept, breaker, since>>

\* Ctrl-C cancels the task that run() is; an exception still on its way to
\* run_job is replaced by the cancellation, even while run() waits for the
\* workers.  The cancellation arrives with the next iteration of the event
\* loop, and workers that are ready run before it.
Interrupt ==
  /\ FaultsAllowed
  /\ proc \in {"running", "stopping", "failing"}
  /\ proc' = IF proc = "failing" THEN "cancelling" ELSE "interrupted"
  /\ UNCHANGED <<disk, run, memory>>

\* A hard kill, or an exception that run_job does not handle.
Kill ==
  /\ FaultsAllowed
  /\ Live
  /\ Forget
  /\ UNCHANGED <<disk, run>>

-----------------------------------------------------------------------------
(* The end of a run: run() stops its workers *)

\* Variant: run() does not wait for the workers it has cancelled.
WaitForNobody == TRUE

Cancellable(b) == phase[b] \notin {"absent", "ended", "raised"}

\* run() hears of the exception or is cancelled, and cancels every task.
CancelWorkers ==
  /\ proc \in {"stopping", "interrupted"}
  /\ proc' = IF proc = "stopping" THEN "failing" ELSE "cancelling"
  /\ phase' = [b \in Batch |-> IF Cancellable(b) THEN "cancelled" ELSE phase[b]]
  /\ UNCHANGED <<disk, run, translations, work, attempt, kept, breaker, since>>

\* A cancelled worker never goes on past its await.
Unwind(b) ==
  /\ phase[b] = "cancelled"
  /\ phase' = [phase EXCEPT ![b] = "raised"]
  /\ UNCHANGED <<disk, proc, run, translations, work, attempt, kept, breaker, since>>

\* asyncio.gather
Unwound == \A b \in Batch : phase[b] \in {"absent", "ended", "raised"}

-----------------------------------------------------------------------------
(* The end of a run: run_job saves the document and records the status *)

\* run() has returned, or has passed a cancellation on.
RunReturned ==
  \/ proc = "running" /\ \A b \in Batch : phase[b] \in {"absent", "ended"}
  \/ proc = "cancelling" /\ Unwound

\* Variant: only what this run has translated is saved.
SaveOnlyThisRun ==
  ir' = [s \in Seg |-> IF translations[s].run = run THEN translations[s] ELSE NoText]

\* build_translated_document: blocks without a translation show the source.
SaveTranslated == ir' = translations

\* BudgetExceeded, CircuitBreakerTripped and every other FolioError
RecordFailed ==
  /\ proc = "failing"
  /\ Unwound
  /\ jobStatus' = "failed"
  /\ proc' = "failed"
  /\ UNCHANGED <<status, final, ir, run, memory>>

\* _write_partial, after which run_job lets the exception out
WritePartial ==
  /\ proc = "failed"
  /\ SaveTranslated
  /\ Forget
  /\ UNCHANGED <<status, final, jobStatus, run>>

Remaining == {s \in Seg : status[s] = "pending"}

\* Variant: a run that was cut short is judged like one that returned.
EndStatusEvenIfPartial(partial) ==
  IF Remaining = {} THEN "completed" ELSE "translating"

EndStatus(partial) ==
  IF partial THEN "cancelled" ELSE IF Remaining = {} THEN "completed" ELSE "translating"

\* Variant: the status is recorded first, as a failure is.
RecordAndSave ==
  /\ RunReturned
  /\ jobStatus' = EndStatus(proc = "cancelling")
  /\ proc' = "failed"
  /\ UNCHANGED <<status, final, ir, run, memory>>

\* A run that returned or was cut short has its document saved first.
SaveDocument ==
  /\ RunReturned
  /\ SaveTranslated
  /\ proc' = IF proc = "cancelling" THEN "saved_partial" ELSE "saved"
  /\ UNCHANGED <<status, final, jobStatus, run, memory>>

RecordEnd ==
  /\ proc \in {"saved", "saved_partial"}
  /\ jobStatus' = EndStatus(proc = "saved_partial")
  /\ Forget
  /\ UNCHANGED <<status, final, ir, run>>

\* The document is written in place.  A save that fails, or that the process
\* does not survive, leaves the old document or a torn one.  _write_partial
\* hides the failure; elsewhere it ends the program with the status as it was.
SaveFails ==
  /\ FaultsAllowed
  /\ RunReturned \/ proc = "failed"
  /\ ir' \in {ir, TornDocument}
  /\ Forget
  /\ UNCHANGED <<status, final, jobStatus, run>>

-----------------------------------------------------------------------------
WorkerStep(b) ==
  \/ StartBatch(b)
  \/ AskJudge(b)
  \/ AttemptReturns(b)
  \/ TakeSummaryLock(b)
  \/ SummaryReturns(b)

Next ==
  \/ StartRun
  \/ \E b \in Batch : WorkerStep(b) \/ CallFails(b) \/ Unwind(b)
  \/ Interrupt
  \/ Kill
  \/ CancelWorkers
  \/ RecordFailed
  \/ WritePartial
  \/ SaveDocument
  \/ RecordEnd
  \/ SaveFails

Spec == Init /\ [][Next]_vars

(***************************************************************************)
(* The event loop runs every task that is ready, a model call returns or   *)
(* times out (client.py gives each a timeout), a cancelled task is woken   *)
(* to unwind, and run() and run_job go on when what they await is there:   *)
(* each worker and each step of the end of a run is weakly fair.  Nothing  *)
(* obliges a user to start a job again, a call or a save to fail or a      *)
(* process to be killed.                                                   *)
(***************************************************************************)
RunFairness ==
  /\ \A b \in Batch : WF_vars(WorkerStep(b)) /\ WF_vars(Unwind(b))
  /\ WF_vars(CancelWorkers)
  /\ WF_vars(RecordFailed)
  /\ WF_vars(WritePartial)
  /\ WF_vars(SaveDocument)
  /\ WF_vars(RecordEnd)

FairSpec == Spec /\ RunFairness

\* The user who starts an interrupted job again.
ResumingSpec == FairSpec /\ WF_vars(StartRun)

-----------------------------------------------------------------------------
(* Properties *)

\* Every variable holds a value of its type.
TypeOK ==
  /\ status \in [Seg -> Statuses]
  /\ final \in [Seg -> Text \cup {NoText}]
  /\ jobStatus \in {"pending", "translating", "failed", "cancelled", "completed"}
  /\ ir \in [Seg -> Text \cup {NoText, Torn}]
  /\ proc \in Procs
  /\ run \in Nat
  /\ translations \in [Seg -> Text \cup {NoText}]
  /\ work \in [Batch -> SUBSET Seg]
  /\ phase \in [Batch -> Phases]
  /\ attempt \in [Batch -> Nat]
  /\ kept \in [Seg -> KeptResults]
  /\ attempted \in [Chapter -> Nat]
  /\ failed \in [Chapter -> Nat]
  /\ since \in [Chapter -> Nat]

\* A row is done only with a text that passed: nothing a judge rejected, left
\* unread or never saw, and no source placeholder, is ever recorded as
\* finished, whatever order batches, crashes and resumes come in.
DoneIsAccepted == \A s \in Seg : status[s] = "done" => final[s].kind = "pass"

\* A finished row never changes again: no later run, retry or late worker
\* overwrites the text of a done segment or reopens it.
DoneIsStable ==
  [][\A s \in Seg : status[s] = "done" =>
                      status'[s] = "done" /\ final'[s] = final[s]]_vars

\* No worker ever holds a finished segment: what is queued or in front of a
\* model is unfinished, so a resume pays for nothing that is done.
NoRework ==
  \A b \in Batch : phase[b] \in {"queued", "translating", "judging"} =>
    \A s \in work[b] : status[s] # "done"

\* A job reported completed has a text in every row and a row for every text:
\* a flagged translation or the source, never a silent gap.
CompletedHasNoGap ==
  jobStatus = "completed" =>
    \A s \in Seg : status[s] \in {"done", "review"} /\ final[s] # NoText

\* Once the job's status says that the run is over, no worker is waiting for
\* anything or has still to unwind, whoever raised, was cancelled or interrupted
\* first: nothing can land after the summary said the run had stopped.
QuietWhenStopped ==
  jobStatus # "translating" =>
    \A b \in Batch : phase[b] \in {"absent", "ended", "raised"}

\* What the process believes to be translated is what the rows say, so the
\* context of later batches and the saved document never quote a text that a
\* resume would not find.
MemoryMatchesRows ==
  \A s \in Seg : translations[s] # NoText =>
    /\ final[s] = translations[s]
    /\ status[s] \in {"done", "review"}

\* While no worker has raised, the breaker has counted exactly the segments
\* this run has committed, chapter by chapter, and those it flagged; a run that
\* goes on has not committed a systematically failing chapter.
Committed(c) ==
  {s \in Seg : ChapterOf[BatchOf[s]] = c
               /\ translations[s] # NoText /\ translations[s].run = run}
CommittedFlagged(c) == {s \in Committed(c) : translations[s].kind # "pass"}

BreakerCountsCommitted ==
  proc = "running" =>
    \A c \in Chapter :
      /\ (\A b \in Batch : phase[b] # "raised") =>
           /\ attempted[c] = Cardinality(Committed(c))
           /\ failed[c] = Cardinality(CommittedFlagged(c))
      /\ ~Trips(Cardinality(Committed(c)), Cardinality(CommittedFlagged(c)))

\* A job whose status says it was cancelled or completed has a document on disk
\* that shows every finished segment, wherever a save failed or the process was
\* killed.  A failed job may not: its status is recorded before the save.
DoneIsExported ==
  jobStatus \in {"cancelled", "completed"} =>
    \A s \in Seg : status[s] = "done" => ir[s] = final[s]

\* The job keeps the promise of JobPromise, whatever its batches, retries,
\* breaker, crashes and resumes do: finished segments are settled, flagged ones
\* may be replaced, and a completed job shows a text everywhere.
Promise == INSTANCE JobPromise WITH
  Good    <- {t \in Text : t.kind = "pass"},
  book    <- final,
  settled <- {s \in Seg : status[s] = "done"},
  closed  <- jobStatus = "completed"

KeepsPromise == Promise!PromiseSpec

(***************************************************************************)
(* The inductive invariant behind the properties above: what ties the rows *)
(* to the workers that are entitled to change them.                        *)
(***************************************************************************)
WorkInBatch == \A b \in Batch : work[b] \subseteq UnitsOf(b)

OnlyLiveRunsWork ==
  /\ proc = "down" => \A b \in Batch : phase[b] = "absent"
  /\ proc = "failed" => jobStatus = "failed"
  /\ proc \notin {"down", "failed"} => jobStatus = "translating"

\* Nobody is working any more once the cancelled workers have been waited for.
StoppedInOrder ==
  /\ proc \in {"failing", "cancelling"} =>
       \A b \in Batch : phase[b] \in {"absent", "ended", "raised", "cancelled"}
  /\ proc \in {"failed", "saved", "saved_partial"} => Unwound
  /\ proc = "saved" => \A b \in Batch : phase[b] \in {"absent", "ended"}

\* Between the save and the status, the document is what was in memory.
SavedIsInMemory == proc \in {"saved", "saved_partial"} => ir = translations

FinishedHasText ==
  \A s \in Seg : status[s] \in {"done", "review"} => final[s] # NoText

DoneIsInMemory ==
  proc # "down" => \A s \in Seg : status[s] = "done" => translations[s] # NoText

UnfinishedNotInMemory ==
  \A b \in Batch : phase[b] \in {"queued", "translating", "judging"} =>
    \A s \in work[b] : translations[s] = NoText

RunCoversBook ==
  proc # "down" => \A b \in Batch : \A s \in UnitsOf(b) :
    /\ s \notin work[b] => status[s] = "done"
    /\ s \in work[b] => phase[b] # "absent"
    /\ phase[b] \in {"lock_wait", "refreshing", "ended"} => status[s] \in {"done", "review"}

Inductive ==
  /\ TypeOK
  /\ WorkInBatch
  /\ OnlyLiveRunsWork
  /\ StoppedInOrder
  /\ SavedIsInMemory
  /\ FinishedHasText
  /\ DoneIsAccepted
  /\ MemoryMatchesRows
  /\ DoneIsInMemory
  /\ UnfinishedNotInMemory
  /\ NoRework
  /\ RunCoversBook
  /\ DoneIsExported
  /\ CompletedHasNoGap

\* A text is of a run that has been started, and what a worker is about to
\* replace is of an earlier one: a commit never writes a text a second time.
TextsOfRuns ==
  /\ \A s \in Seg : final[s].run <= run
  /\ \A b \in Batch : phase[b] \in {"queued", "translating", "judging"} =>
       \A s \in work[b] : final[s].run < run

\* Every run ends: no worker waits for a slot or for the summary lock for
\* ever, and an exception in one worker ends the others.
RunEnds == proc # "down" ~> proc = "down"

\* Whatever happened in the runs before, a run without faults, with the
\* breaker out of reach, leaves every segment finished and the job completed.
EventuallyCompleted ==
  <>[](jobStatus = "completed" /\ \A s \in Seg : status[s] \in {"done", "review"})

-----------------------------------------------------------------------------
(* A claim of the documentation that the code does not keep *)

\* jobs.py says of the partial document that nothing done is lost by it: a
\* block that showed a translation does not show its source after the next save.
ShowsSource(text) == text.kind \in {"none", "source"}

TranslationStaysInDocument ==
  [][\A s \in Seg : ~ShowsSource(ir[s]) /\ ir # TornDocument => ~ShowsSource(ir'[s])]_vars

=============================================================================
