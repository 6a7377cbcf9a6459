-------------------------- MODULE OrchestratorProofs --------------------------
(***************************************************************************)
(* Proofs about Orchestrator, for every book, batch plan, concurrency,     *)
(* ladder, breaker and summary setting, and any number of runs and faults. *)
(*                                                                         *)
(* The inductive invariant is Inductive.  One lemma per action shows that  *)
(* the action preserves it; the theorems follow from it, and what a step   *)
(* may do to the rows: JobPromise is implemented, the breaker counts.      *)
(***************************************************************************)
EXTENDS Orchestrator, FiniteSetTheorems, TLAPS

-----------------------------------------------------------------------------
(* Lemmas about the operators *)

\* Every result an answer can give is one of the attempt kinds.
LEMMA ResultsTyped ==
  ASSUME NEW b \in Batch, NEW r \in Results(b)
  PROVE  r \in [work[b] -> AttemptResults]
<1>1. NoVerdict("unscored") \in AttemptResults /\ NoVerdict("unjudged") \in AttemptResults
  BY DEF NoVerdict, AttemptResults, AttemptKinds
<1>2. Malformed \cup {NoVerdict("unscored")} \subseteq AttemptResults /\ Judged \subseteq AttemptResults
  BY <1>1, OrchestratorAssumption
<1>. HIDE DEF AttemptResults
<1>. QED
  BY <1>1, <1>2 DEF Results, UnevaluatedResults, EvaluatedResults, UnparsedResults

\* Keep never returns a blank attempt.
LEMMA KeepTyped ==
  ASSUME NEW old \in KeptResults, NEW k \in AttemptResults
  PROVE  Keep(old, k) \in KeptResults
<1>1. k.kind \in AttemptKinds /\ k.composite \in Nat
      /\ k = [kind |-> k.kind, composite |-> k.composite]
  BY DEF AttemptResults
<1>2. ASSUME k.kind # "blank" PROVE k \in KeptResults
  BY <1>1, <1>2 DEF KeptResults, KeptKinds
<1>3. Passed(k) \/ HasText(k) => k.kind # "blank"
  BY DEF Passed, HasText
<1>. QED  BY <1>2, <1>3 DEF Keep

LEMMA PlaceholderTyped == Placeholder \in KeptResults
BY DEF Placeholder, NoVerdict, KeptResults, KeptKinds

\* What a batch keeps after another attempt is of the right type.
LEMMA BestTyped ==
  ASSUME TypeOK, NEW b \in Batch, NEW r \in Results(b)
  PROVE  BestOf(b, r) \in [Seg -> KeptResults]
<1>1. \A s \in work[b] : r[s] \in AttemptResults
  BY ResultsTyped
<1>2. kept \in [Seg -> KeptResults]
  BY DEF TypeOK
<1>3. \A s \in Seg : s \in work[b] => Keep(kept[s], r[s]) \in KeptResults
  BY <1>1, <1>2, KeepTyped
<1>. HIDE DEF KeptResults
<1>. QED  BY <1>2, <1>3 DEF BestOf

\* The kinds with which a text is committed are not "none".
LEMMA TextIsNotNoText ==
  ASSUME NEW k \in KeptKinds, NEW n \in Nat
  PROVE  [kind |-> k, run |-> n] \in Text /\ [kind |-> k, run |-> n] # NoText
BY DEF Text, NoText, KeptKinds, AttemptKinds

\* The text a segment is committed with is a text.
LEMMA OutcomeTyped ==
  ASSUME TypeOK, NEW best \in [Seg -> KeptResults], NEW s \in Seg
  PROVE  /\ Outcome(s, best) \in Text /\ Outcome(s, best) # NoText
         /\ Outcome(s, best).kind = best[s].kind /\ Outcome(s, best).run = run
<1>1. best[s].kind \in KeptKinds /\ run \in Nat
  BY DEF KeptResults, TypeOK
<1>. QED  BY <1>1, TextIsNotNoText DEF Outcome

LEMMA CountsAreNat ==
  ASSUME TypeOK, NEW b \in Batch, NEW best
  PROVE  /\ Cardinality(work[b]) \in Nat
         /\ Cardinality(Flagged(b, best)) \in Nat
<1>1. IsFiniteSet(work[b])
  BY FS_Subset, OrchestratorAssumption DEF TypeOK
<1>2. Flagged(b, best) \subseteq work[b]
  BY DEF Flagged
<1>3. IsFiniteSet(Flagged(b, best))
  BY <1>1, <1>2, FS_Subset
<1>. QED  BY <1>1, <1>3, FS_CardinalityType

\* The breaker's counters stay natural numbers when a batch is recorded.
LEMMA BreakerTyped ==
  ASSUME TypeOK, NEW b \in Batch, NEW best
  PROVE  /\ Attempted(b) \in [Chapter -> Nat]
         /\ FailedWith(b, best) \in [Chapter -> Nat]
BY CountsAreNat, OrchestratorAssumption DEF TypeOK, Attempted, FailedWith

\* What finalize_segment leaves behind, row by row.
LEMMA Finalized ==
  ASSUME TypeOK, NEW S \in SUBSET Seg, NEW best \in [Seg -> KeptResults],
         FinalizeSegments(S, best)
  PROVE  /\ status' \in [Seg -> Statuses]
         /\ final' \in [Seg -> Text \cup {NoText}]
         /\ \A s \in Seg \ S : status'[s] = status[s] /\ final'[s] = final[s]
         /\ \A s \in S : /\ status'[s] \in {"done", "review"}
                         /\ final'[s] = Outcome(s, best)
                         /\ final'[s] # NoText
                         /\ status'[s] = "done" => final'[s].kind = "pass"
<1>1. \A s \in S : Outcome(s, best) \in Text /\ Outcome(s, best) # NoText
  BY OutcomeTyped
<1>2. \A s \in Seg : final'[s] = IF s \in S THEN Outcome(s, best) ELSE final[s]
  BY DEF FinalizeSegments
<1>3. \A s \in Seg : status'[s] = IF s \notin S THEN status[s]
                                  ELSE IF Passed(best[s]) THEN "done" ELSE "review"
  BY DEF FinalizeSegments
<1>4. final' \in [Seg -> Text \cup {NoText}]
  BY <1>1 DEF FinalizeSegments, TypeOK
<1>5. status' \in [Seg -> Statuses]
  BY DEF FinalizeSegments, TypeOK, Statuses
<1>6. \A s \in S : Passed(best[s]) => Outcome(s, best).kind = "pass"
  BY OutcomeTyped DEF Passed
<1>. QED  BY <1>1, <1>2, <1>3, <1>4, <1>5, <1>6

\* Segments of one batch are not segments of another.
LEMMA BatchesDisjoint ==
  ASSUME WorkInBatch, NEW b \in Batch, NEW c \in Batch, b # c
  PROVE  work[b] \cap work[c] = {} /\ work[b] \cap UnitsOf(c) = {}
BY DEF WorkInBatch, UnitsOf

-----------------------------------------------------------------------------
(* The inductive invariant *)

\* A run in which workers are still let go on
Running == {"running", "stopping", "interrupted"}

\* A worker that waits for something has not been cancelled: its run goes on.
LEMMA BusyRun ==
  ASSUME Inductive, NEW b \in Batch,
         phase[b] \notin {"absent", "ended", "raised", "cancelled"}
  PROVE  proc \in Running /\ jobStatus = "translating"
<1>1. proc \in Procs
  BY DEF Inductive, TypeOK
<1>2. proc \notin {"down", "failing", "cancelling", "failed", "saved", "saved_partial"}
  BY DEF Inductive, OnlyLiveRunsWork, StoppedInOrder, Unwound
<1>3. proc \in Running
  BY <1>1, <1>2 DEF Procs, Running
<1>. QED  BY <1>3 DEF Running, Inductive, OnlyLiveRunsWork

\* While workers are let go on, nothing is recorded or saved.
LEMMA RunningIsFree ==
  ASSUME proc' \in Running, jobStatus' = "translating"
  PROVE  OnlyLiveRunsWork' /\ StoppedInOrder' /\ SavedIsInMemory' /\ DoneIsExported'
         /\ CompletedHasNoGap'
BY DEF Running, OnlyLiveRunsWork, StoppedInOrder, SavedIsInMemory, DoneIsExported,
       CompletedHasNoGap

LEMMA InitInductive == Init => Inductive
<1>. SUFFICES ASSUME Init PROVE Inductive
  OBVIOUS
<1>1. TypeOK
  BY PlaceholderTyped DEF Init, TypeOK, Statuses, Phases, Procs
<1>. QED
  BY <1>1 DEF Init, Inductive, WorkInBatch, OnlyLiveRunsWork, StoppedInOrder,
     SavedIsInMemory, FinishedHasText,
     DoneIsAccepted, MemoryMatchesRows, DoneIsInMemory, UnfinishedNotInMemory,
     NoRework, RunCoversBook, DoneIsExported, CompletedHasNoGap

LEMMA StartRunInductive == Inductive /\ StartRun => Inductive'
<1>. SUFFICES ASSUME Inductive, StartRun PROVE Inductive'
  OBVIOUS
<1>. USE DEF Inductive
<1>1. TypeOK'
  BY OrchestratorAssumption DEF StartRun, TypeOK, Phases, Procs, StripDone, UnitsOf
<1>2. \A b \in Batch : work'[b] = StripDone(b)
  BY DEF StartRun
<1>3. \A s \in Seg : translations'[s] # NoText => s \in AlreadyDone /\ translations'[s] = final[s]
  BY DEF StartRun
<1>4. \A s \in AlreadyDone : translations'[s] = final[s] /\ final[s] # NoText /\ status[s] = "done"
  BY DEF StartRun, AlreadyDone
<1>5. \A b \in Batch : phase'[b] = IF work'[b] = {} THEN "absent" ELSE "queued"
  BY <1>2 DEF StartRun
<1>6. AlreadyDone = {s \in Seg : status[s] = "done"}
  BY DEF AlreadyDone, FinishedHasText
<1>7. status' = status /\ final' = final /\ ir' = ir /\ proc' = "running" /\ jobStatus' = "translating"
  BY DEF StartRun
<1>8. WorkInBatch'
  BY <1>2 DEF WorkInBatch, StripDone, UnitsOf
<1>9. MemoryMatchesRows'
  BY <1>3, <1>4, <1>7 DEF MemoryMatchesRows
<1>10. DoneIsInMemory'
  BY <1>4, <1>6, <1>7 DEF DoneIsInMemory
<1>11. UnfinishedNotInMemory' /\ NoRework'
  BY <1>2, <1>3, <1>6, <1>7 DEF UnfinishedNotInMemory, NoRework, StripDone, UnitsOf
<1>12. RunCoversBook'
  BY <1>2, <1>5, <1>6, <1>7 DEF RunCoversBook, StripDone, UnitsOf
<1>13. FinishedHasText' /\ DoneIsAccepted'
  BY <1>7 DEF FinishedHasText, DoneIsAccepted
<1>14. proc' \in Running /\ jobStatus' = "translating"
  BY <1>7 DEF Running
<1>. QED
  BY <1>1, <1>8, <1>9, <1>10, <1>11, <1>12, <1>13, <1>14, RunningIsFree

LEMMA StartBatchInductive ==
  ASSUME NEW b \in Batch
  PROVE  Inductive /\ StartBatch(b) => Inductive'
<1>. SUFFICES ASSUME Inductive, StartBatch(b) PROVE Inductive'
  OBVIOUS
<1>. USE DEF Inductive
<1>1. TypeOK'
  BY DEF StartBatch, TypeOK, Statuses, Phases, breaker
<1>2. /\ \A s \in Seg : status'[s] = IF s \in work[b] THEN "translating" ELSE status[s]
      /\ \A c \in Batch : phase'[c] = IF c = b THEN "translating" ELSE phase[c]
      /\ final' = final /\ jobStatus' = jobStatus /\ ir' = ir /\ proc' = proc
      /\ translations' = translations /\ work' = work
      /\ phase[b] = "queued"
  BY DEF StartBatch, TypeOK
<1>3. \A c \in Batch : c # b => work[b] \cap work[c] = {} /\ work[b] \cap UnitsOf(c) = {}
  BY BatchesDisjoint
<1>4. work[b] \subseteq UnitsOf(b) /\ UnitsOf(b) \subseteq Seg
  BY DEF WorkInBatch, UnitsOf
<1>5. \A s \in work[b] : translations[s] = NoText /\ status[s] # "done"
  BY <1>2 DEF UnfinishedNotInMemory, NoRework
<1>6. WorkInBatch'
  BY <1>2 DEF WorkInBatch, UnitsOf
<1>7. FinishedHasText' /\ DoneIsAccepted' /\ DoneIsInMemory' /\ MemoryMatchesRows'
  BY <1>2, <1>5 DEF FinishedHasText, DoneIsAccepted, DoneIsInMemory, MemoryMatchesRows
<1>8. UnfinishedNotInMemory' /\ NoRework'
  BY <1>2, <1>5 DEF UnfinishedNotInMemory, NoRework, TypeOK
<1>9. RunCoversBook'
  BY <1>2, <1>3, <1>4 DEF RunCoversBook, UnitsOf
<1>10. proc' \in Running /\ jobStatus' = "translating"
  BY <1>2, BusyRun
<1>. QED
  BY <1>1, <1>6, <1>7, <1>8, <1>9, <1>10, RunningIsFree

(***************************************************************************)
(* Steps that leave the rows and the translations alone and only move one  *)
(* worker on, within the ladder, within the summary, or out of the run.    *)
(***************************************************************************)
SameBook == UNCHANGED <<status, final, jobStatus, ir, translations, work>>

LEMMA WorkerMoves ==
  ASSUME Inductive, TypeOK', SameBook, NEW b \in Batch, NEW p \in Phases,
         proc' \in Running,
         phase[b] \notin {"absent", "ended", "raised", "cancelled"},
         phase' = [phase EXCEPT ![b] = p],
         \/ p = "raised"
         \/ p \in {"translating", "judging"} /\ phase[b] \in {"translating", "judging"}
         \/ p \in {"refreshing", "ended"} /\ phase[b] \in {"lock_wait", "refreshing"}
  PROVE  Inductive'
<1>. USE DEF Inductive
<1>1. /\ status' = status /\ final' = final /\ jobStatus' = jobStatus /\ ir' = ir
      /\ translations' = translations /\ work' = work
      /\ \A c \in Batch : phase'[c] = IF c = b THEN p ELSE phase[c]
  BY DEF SameBook, TypeOK
<1>2. WorkInBatch' /\ proc \in Running /\ jobStatus' = "translating"
  BY <1>1, BusyRun DEF WorkInBatch, UnitsOf
<1>3. FinishedHasText' /\ DoneIsAccepted' /\ DoneIsInMemory' /\ MemoryMatchesRows'
  BY <1>1, <1>2 DEF FinishedHasText, DoneIsAccepted, DoneIsInMemory, MemoryMatchesRows, Running
<1>4. UnfinishedNotInMemory' /\ NoRework'
  BY <1>1 DEF UnfinishedNotInMemory, NoRework
<1>5. RunCoversBook'
  BY <1>1, <1>2 DEF RunCoversBook, UnitsOf, Running
<1>. QED  BY <1>2, <1>3, <1>4, <1>5, RunningIsFree

LEMMA AskJudgeInductive ==
  ASSUME NEW b \in Batch, Inductive, AskJudge(b)
  PROVE  Inductive'
<1>1. TypeOK'
  BY DEF Inductive, AskJudge, TypeOK, Phases, disk, breaker
<1>2. SameBook /\ proc' = proc
  BY DEF AskJudge, SameBook, disk
<1>3. proc' \in Running
  BY <1>2, BusyRun DEF AskJudge
<1>. QED
  BY <1>1, <1>2, <1>3, WorkerMoves DEF AskJudge, Phases

LEMMA RetryInductive ==
  ASSUME NEW b \in Batch, NEW r \in Results(b), Inductive, Live,
         phase[b] \in {"translating", "judging"}, Retry(b, r)
  PROVE  Inductive'
<1>1. TypeOK'
  <2>1. kept' \in [Seg -> KeptResults]
    BY BestTyped DEF Retry, Inductive
  <2>. QED  BY <2>1 DEF Inductive, Retry, TypeOK, Phases, disk, breaker
<1>2. SameBook /\ proc' = proc
  BY DEF Retry, SameBook, disk
<1>3. proc' \in Running
  BY <1>2, BusyRun
<1>. QED
  BY <1>1, <1>2, <1>3, WorkerMoves DEF Retry, Phases

LEMMA TripInductive ==
  ASSUME NEW b \in Batch, NEW r \in Results(b), Inductive, Live,
         phase[b] \in {"translating", "judging"}, Trip(b, r)
  PROVE  Inductive'
<1>1. TypeOK'
  <2>1. kept' \in [Seg -> KeptResults]
    BY BestTyped DEF Trip, Inductive
  <2>2. attempted' \in [Chapter -> Nat] /\ failed' \in [Chapter -> Nat]
    BY BreakerTyped DEF Trip, Inductive
  <2>. QED  BY <2>1, <2>2 DEF Inductive, Trip, Raise, TypeOK, Phases, Procs, disk
<1>2. SameBook /\ proc' \in Running
  <2>1. proc \in Running
    BY BusyRun
  <2>. QED  BY <2>1 DEF Trip, Raise, SameBook, disk, Running
<1>. QED
  BY <1>1, <1>2, WorkerMoves DEF Trip, Raise, Phases

LEMMA TakeSummaryLockInductive ==
  ASSUME NEW b \in Batch, Inductive, TakeSummaryLock(b)
  PROVE  Inductive'
<1>1. TypeOK'
  BY DEF Inductive, TakeSummaryLock, TypeOK, Phases, disk, breaker
<1>2. SameBook /\ proc' = proc
  BY DEF TakeSummaryLock, SameBook, disk
<1>3. proc' \in Running
  BY <1>2, BusyRun DEF TakeSummaryLock
<1>. QED
  BY <1>1, <1>2, <1>3, WorkerMoves DEF TakeSummaryLock, Phases

LEMMA SummaryReturnsInductive ==
  ASSUME NEW b \in Batch, Inductive, SummaryReturns(b)
  PROVE  Inductive'
<1>1. TypeOK'
  BY OrchestratorAssumption DEF Inductive, SummaryReturns, TypeOK, Phases, disk, breaker
<1>2. SameBook /\ proc' = proc
  BY DEF SummaryReturns, SameBook, disk
<1>3. proc' \in Running
  BY <1>2, BusyRun DEF SummaryReturns
<1>. QED
  BY <1>1, <1>2, <1>3, WorkerMoves DEF SummaryReturns, Phases

LEMMA CallFailsInductive ==
  ASSUME NEW b \in Batch, Inductive, CallFails(b)
  PROVE  Inductive'
<1>1. TypeOK'
  BY DEF Inductive, CallFails, Raise, TypeOK, Phases, Procs, disk, breaker
<1>2. SameBook /\ proc' \in Running
  <2>1. proc \in Running
    BY BusyRun DEF CallFails
  <2>. QED  BY <2>1 DEF CallFails, Raise, SameBook, disk, Running
<1>. QED
  BY <1>1, <1>2, WorkerMoves DEF CallFails, Raise, Phases

-----------------------------------------------------------------------------
(* The end of the ladder *)

LEMMA CommitInductive ==
  ASSUME NEW b \in Batch, NEW r \in Results(b), Inductive, Live,
         phase[b] \in {"translating", "judging"}, Commit(b, r)
  PROVE  Inductive'
<1>. DEFINE best == BestOf(b, r)
<1>. USE DEF Inductive
<1>1. best \in [Seg -> KeptResults]
  BY BestTyped
<1>2. work[b] \in SUBSET Seg /\ work[b] \subseteq UnitsOf(b)
  BY DEF TypeOK, WorkInBatch
<1>3. FinalizeSegments(work[b], best)
  BY DEF Commit
<1>. HIDE DEF best
<1>4. /\ status' \in [Seg -> Statuses]
      /\ final' \in [Seg -> Text \cup {NoText}]
      /\ \A s \in Seg \ work[b] : status'[s] = status[s] /\ final'[s] = final[s]
      /\ \A s \in work[b] : /\ status'[s] \in {"done", "review"}
                            /\ final'[s] = Outcome(s, best)
                            /\ final'[s] # NoText
                            /\ status'[s] = "done" => final'[s].kind = "pass"
  BY <1>1, <1>2, <1>3, Finalized
<1>5. translations' = [s \in Seg |-> IF s \in work[b] THEN Outcome(s, best)
                                     ELSE translations[s]]
  BY DEF Commit, best
<1>6. translations' \in [Seg -> Text \cup {NoText}]
  <2>1. \A s \in work[b] : Outcome(s, best) \in Text
    BY <1>1, <1>2, OutcomeTyped
  <2>. QED  BY <1>5, <2>1 DEF TypeOK
<1>7. /\ jobStatus' = jobStatus /\ ir' = ir /\ proc' = proc /\ work' = work /\ run' = run
      /\ \A c \in Batch \ {b} : phase'[c] = phase[c]
      /\ phase'[b] \in {"ended", "lock_wait", "refreshing"}
      /\ attempt' = attempt
      /\ phase' \in [Batch -> Phases]
  BY DEF Commit, TypeOK, Phases
<1>8. TypeOK'
  <2>1. attempted' \in [Chapter -> Nat] /\ failed' \in [Chapter -> Nat]
    BY BreakerTyped DEF Commit
  <2>2. since' \in [Chapter -> Nat]
    <3>1. since' = [since EXCEPT ![ChapterOf[b]] = since[ChapterOf[b]] + 1]
      BY DEF Commit
    <3>2. since \in [Chapter -> Nat]
      BY DEF TypeOK
    <3>. QED  BY <3>1, <3>2, OrchestratorAssumption
  <2>3. kept' = best
    BY DEF Commit, best
  <2>. QED  BY <1>1, <1>4, <1>6, <1>7, <2>1, <2>2, <2>3 DEF TypeOK
<1>9. \A c \in Batch : c # b => work[b] \cap work[c] = {} /\ work[b] \cap UnitsOf(c) = {}
  BY BatchesDisjoint
<1>10. proc # "down" /\ proc' \in Running /\ jobStatus' = "translating"
  BY <1>7, BusyRun DEF Live
<1>11. WorkInBatch'
  BY <1>7 DEF WorkInBatch, UnitsOf
<1>12. FinishedHasText' /\ DoneIsAccepted'
  BY <1>4 DEF FinishedHasText, DoneIsAccepted
<1>13. DoneIsInMemory' /\ MemoryMatchesRows'
  BY <1>4, <1>5, <1>7, <1>10 DEF DoneIsInMemory, MemoryMatchesRows
<1>14. UnfinishedNotInMemory' /\ NoRework'
  <2>. SUFFICES ASSUME NEW c \in Batch,
                       phase'[c] \in {"queued", "translating", "judging"},
                       NEW s \in work[c]
                PROVE  translations'[s] = NoText /\ status'[s] # "done"
    BY <1>7 DEF UnfinishedNotInMemory, NoRework
  <2>1. c # b /\ phase'[c] = phase[c]
    BY <1>7
  <2>2. s \in Seg \ work[b]
    BY <1>9, <2>1 DEF TypeOK
  <2>. QED
    BY <1>4, <1>5, <2>1, <2>2 DEF UnfinishedNotInMemory, NoRework
<1>15. RunCoversBook'
  <2>. SUFFICES ASSUME NEW c \in Batch, NEW s \in UnitsOf(c)
                PROVE  /\ s \notin work[c] => status'[s] = "done"
                       /\ s \in work[c] => phase'[c] # "absent"
                       /\ phase'[c] \in {"lock_wait", "refreshing", "ended"} =>
                            status'[s] \in {"done", "review"}
    BY <1>7 DEF RunCoversBook, UnitsOf
  <2>1. CASE c = b
    BY <1>4, <1>7, <1>10, <2>1 DEF RunCoversBook, UnitsOf
  <2>2. CASE c # b
    <3>1. s \in Seg \ work[b]
      BY <1>9, <2>2 DEF UnitsOf
    <3>. QED  BY <1>4, <1>7, <1>10, <2>2, <3>1 DEF RunCoversBook
  <2>. QED  BY <2>1, <2>2
<1>. QED
  BY <1>8, <1>10, <1>11, <1>12, <1>13, <1>14, <1>15, RunningIsFree

-----------------------------------------------------------------------------
(* Steps that end the process *)

LEMMA ForgetTyped ==
  ASSUME Forget
  PROVE  /\ proc' = "down"
         /\ translations' \in [Seg -> Text \cup {NoText}]
         /\ work' \in [Batch -> SUBSET Seg]
         /\ phase' \in [Batch -> Phases]
         /\ attempt' \in [Batch -> Nat]
         /\ kept' \in [Seg -> KeptResults]
         /\ attempted' \in [Chapter -> Nat]
         /\ failed' \in [Chapter -> Nat]
         /\ since' \in [Chapter -> Nat]
BY PlaceholderTyped DEF Forget, Phases

\* What a process that is gone leaves of the invariant to be shown: the rows.
LEMMA ProcessEnds ==
  ASSUME Forget, TypeOK', FinishedHasText', DoneIsAccepted', DoneIsExported',
         CompletedHasNoGap'
  PROVE  Inductive'
<1>1. /\ \A b \in Batch : phase'[b] = "absent" /\ work'[b] = {}
      /\ \A s \in Seg : translations'[s] = NoText
      /\ proc' = "down"
  BY DEF Forget
<1>2. WorkInBatch' /\ OnlyLiveRunsWork' /\ MemoryMatchesRows' /\ DoneIsInMemory'
      /\ StoppedInOrder' /\ SavedIsInMemory'
  BY <1>1 DEF WorkInBatch, OnlyLiveRunsWork, MemoryMatchesRows, DoneIsInMemory, UnitsOf,
       StoppedInOrder, SavedIsInMemory
<1>3. UnfinishedNotInMemory' /\ NoRework' /\ RunCoversBook'
  BY <1>1 DEF UnfinishedNotInMemory, NoRework, RunCoversBook, UnitsOf
<1>. QED  BY <1>2, <1>3 DEF Inductive

LEMMA KilledCommittingInductive ==
  ASSUME NEW b \in Batch, NEW r \in Results(b), Inductive, Live,
         phase[b] \in {"translating", "judging"}, KilledCommitting(b, r)
  PROVE  Inductive'
<1>. DEFINE best == BestOf(b, r)
<1>. USE DEF Inductive
<1>1. best \in [Seg -> KeptResults]
  BY BestTyped
<1>2. PICK last \in work[b] : FinalizeSegments({s \in work[b] : s <= last}, best)
  BY DEF KilledCommitting
<1>. DEFINE S == {s \in work[b] : s <= last}
<1>3. S \in SUBSET Seg
  BY DEF TypeOK
<1>. HIDE DEF best, S
<1>4. /\ status' \in [Seg -> Statuses]
      /\ final' \in [Seg -> Text \cup {NoText}]
      /\ \A s \in Seg \ S : status'[s] = status[s] /\ final'[s] = final[s]
      /\ \A s \in S : /\ status'[s] \in {"done", "review"}
                      /\ final'[s] = Outcome(s, best)
                      /\ final'[s] # NoText
                      /\ status'[s] = "done" => final'[s].kind = "pass"
  BY <1>1, <1>2, <1>3, Finalized DEF S
<1>5. Forget /\ jobStatus' = jobStatus /\ ir' = ir /\ run' = run
  BY DEF KilledCommitting
<1>6. TypeOK'
  BY <1>4, <1>5, ForgetTyped DEF TypeOK, Procs
<1>7. FinishedHasText' /\ DoneIsAccepted'
  BY <1>4 DEF FinishedHasText, DoneIsAccepted
<1>8. jobStatus' = "translating"
  BY <1>5, BusyRun
<1>9. DoneIsExported' /\ CompletedHasNoGap'
  BY <1>8 DEF DoneIsExported, CompletedHasNoGap
<1>. QED  BY <1>5, <1>6, <1>7, <1>9, ProcessEnds

LEMMA KillInductive == Inductive /\ Kill => Inductive'
<1>. SUFFICES ASSUME Inductive, Kill PROVE Inductive'
  OBVIOUS
<1>. USE DEF Inductive
<1>1. /\ Forget /\ status' = status /\ final' = final /\ jobStatus' = jobStatus
      /\ ir' = ir /\ run' = run
  BY DEF Kill, disk
<1>2. TypeOK'
  BY <1>1, ForgetTyped DEF TypeOK, Procs
<1>3. FinishedHasText' /\ DoneIsAccepted' /\ DoneIsExported' /\ CompletedHasNoGap'
  BY <1>1 DEF FinishedHasText, DoneIsAccepted, DoneIsExported, CompletedHasNoGap
<1>. QED  BY <1>1, <1>2, <1>3, ProcessEnds

-----------------------------------------------------------------------------
(* The end of a run *)

\* What the steps have in common that change neither rows nor memory
BooksAgree ==
  /\ WorkInBatch /\ FinishedHasText /\ DoneIsAccepted /\ MemoryMatchesRows
  /\ DoneIsInMemory /\ UnfinishedNotInMemory /\ NoRework /\ RunCoversBook

LEMMA QuietStep ==
  ASSUME Inductive, proc # "down", proc' # "down",
         status' = status, final' = final, translations' = translations, work' = work,
         \A b \in Batch : phase'[b] = phase[b] \/ phase'[b] = "cancelled"
                           \/ (phase[b] = "cancelled" /\ phase'[b] = "raised")
  PROVE  BooksAgree'
<1>. USE DEF Inductive
<1>1. WorkInBatch' /\ FinishedHasText' /\ DoneIsAccepted'
  BY DEF WorkInBatch, FinishedHasText, DoneIsAccepted, UnitsOf
<1>2. MemoryMatchesRows' /\ DoneIsInMemory'
  BY DEF MemoryMatchesRows, DoneIsInMemory
<1>3. UnfinishedNotInMemory' /\ NoRework'
  BY DEF UnfinishedNotInMemory, NoRework
<1>4. RunCoversBook'
  BY DEF RunCoversBook, UnitsOf
<1>. QED  BY <1>1, <1>2, <1>3, <1>4 DEF BooksAgree

LEMMA InterruptInductive == Inductive /\ Interrupt => Inductive'
<1>. SUFFICES ASSUME Inductive, Interrupt PROVE Inductive'
  OBVIOUS
<1>1. /\ UNCHANGED <<status, final, jobStatus, ir, run, translations, work, phase,
                     attempt, kept, attempted, failed, since>>
      /\ proc \in {"running", "stopping", "failing"}
      /\ proc' = IF proc = "failing" THEN "cancelling" ELSE "interrupted"
  BY DEF Interrupt, disk, memory
<1>2. TypeOK'
  BY <1>1 DEF Inductive, TypeOK, Procs
<1>3. OnlyLiveRunsWork' /\ StoppedInOrder' /\ SavedIsInMemory'
  BY <1>1 DEF Inductive, OnlyLiveRunsWork, StoppedInOrder, SavedIsInMemory
<1>4. DoneIsExported' /\ CompletedHasNoGap'
  BY <1>1 DEF Inductive, OnlyLiveRunsWork, DoneIsExported, CompletedHasNoGap
<1>5. BooksAgree'
  <2>1. proc # "down" /\ proc' # "down"
    BY <1>1
  <2>2. status' = status /\ final' = final /\ translations' = translations /\ work' = work
    BY <1>1
  <2>3. \A c \in Batch : phase'[c] = phase[c] \/ phase'[c] = "cancelled"
                             \/ (phase[c] = "cancelled" /\ phase'[c] = "raised")
    BY <1>1
  <2>. QED  BY <2>1, <2>2, <2>3, QuietStep
<1>. QED  BY <1>1, <1>2, <1>3, <1>4, <1>5 DEF Inductive, BooksAgree

LEMMA CancelWorkersInductive == Inductive /\ CancelWorkers => Inductive'
<1>. SUFFICES ASSUME Inductive, CancelWorkers PROVE Inductive'
  OBVIOUS
<1>1. /\ UNCHANGED <<status, final, jobStatus, ir, run, translations, work,
                     attempt, kept, attempted, failed, since>>
      /\ proc \in {"stopping", "interrupted"} /\ proc' \in {"failing", "cancelling"}
      /\ phase' = [b \in Batch |-> IF Cancellable(b) THEN "cancelled" ELSE phase[b]]
  BY DEF CancelWorkers, disk, breaker
<1>2. TypeOK'
  BY <1>1 DEF Inductive, TypeOK, Procs, Phases
<1>3. jobStatus = "translating"
  BY <1>1 DEF Inductive, OnlyLiveRunsWork
<1>4. OnlyLiveRunsWork' /\ StoppedInOrder' /\ SavedIsInMemory'
  BY <1>1, <1>3 DEF OnlyLiveRunsWork, StoppedInOrder, SavedIsInMemory, Cancellable
<1>5. DoneIsExported' /\ CompletedHasNoGap'
  BY <1>1, <1>3 DEF DoneIsExported, CompletedHasNoGap
<1>6. BooksAgree'
  <2>1. proc # "down" /\ proc' # "down"
    BY <1>1
  <2>2. status' = status /\ final' = final /\ translations' = translations /\ work' = work
    BY <1>1
  <2>3. \A c \in Batch : phase'[c] = phase[c] \/ phase'[c] = "cancelled"
                             \/ (phase[c] = "cancelled" /\ phase'[c] = "raised")
    BY <1>1
  <2>. QED  BY <2>1, <2>2, <2>3, QuietStep
<1>. QED  BY <1>1, <1>2, <1>4, <1>5, <1>6 DEF Inductive, BooksAgree

LEMMA UnwindInductive ==
  ASSUME NEW b \in Batch, Inductive, Unwind(b)
  PROVE  Inductive'
<1>1. /\ UNCHANGED <<status, final, jobStatus, ir, proc, run, translations, work,
                     attempt, kept, attempted, failed, since>>
      /\ phase[b] = "cancelled" /\ phase' = [phase EXCEPT ![b] = "raised"]
  BY DEF Unwind, disk, breaker
<1>2. phase \in [Batch -> Phases] /\ proc \in Procs
  BY DEF Inductive, TypeOK
<1>3. TypeOK'
  BY <1>1, <1>2 DEF Inductive, TypeOK, Phases
<1>4. proc # "down" /\ proc \notin {"failed", "saved", "saved_partial"}
  BY <1>1 DEF Inductive, OnlyLiveRunsWork, StoppedInOrder, Unwound
<1>5. OnlyLiveRunsWork' /\ StoppedInOrder' /\ SavedIsInMemory'
  BY <1>1, <1>2, <1>4 DEF Inductive, OnlyLiveRunsWork, StoppedInOrder, SavedIsInMemory
<1>6. DoneIsExported' /\ CompletedHasNoGap'
  BY <1>1 DEF Inductive, DoneIsExported, CompletedHasNoGap
<1>7. BooksAgree'
  <2>1. proc # "down" /\ proc' # "down"
    BY <1>1, <1>2, <1>4
  <2>2. status' = status /\ final' = final /\ translations' = translations /\ work' = work
    BY <1>1
  <2>3. \A c \in Batch : phase'[c] = phase[c] \/ phase'[c] = "cancelled"
                             \/ (phase[c] = "cancelled" /\ phase'[c] = "raised")
    BY <1>1, <1>2, <1>4
  <2>. QED  BY <2>1, <2>2, <2>3, QuietStep
<1>. QED  BY <1>1, <1>2, <1>3, <1>4, <1>5, <1>6, <1>7 DEF Inductive, BooksAgree

LEMMA RecordFailedInductive == Inductive /\ RecordFailed => Inductive'
<1>. SUFFICES ASSUME Inductive, RecordFailed PROVE Inductive'
  OBVIOUS
<1>1. /\ UNCHANGED <<status, final, ir, run, translations, work, phase,
                     attempt, kept, attempted, failed, since>>
      /\ proc = "failing" /\ proc' = "failed" /\ jobStatus' = "failed" /\ Unwound
  BY DEF RecordFailed, memory
<1>2. TypeOK'
  BY <1>1 DEF Inductive, TypeOK, Procs
<1>3. OnlyLiveRunsWork' /\ StoppedInOrder' /\ SavedIsInMemory'
  BY <1>1 DEF OnlyLiveRunsWork, StoppedInOrder, SavedIsInMemory, Unwound
<1>4. DoneIsExported' /\ CompletedHasNoGap'
  BY <1>1 DEF DoneIsExported, CompletedHasNoGap
<1>5. BooksAgree'
  <2>1. proc # "down" /\ proc' # "down"
    BY <1>1
  <2>2. status' = status /\ final' = final /\ translations' = translations /\ work' = work
    BY <1>1
  <2>3. \A c \in Batch : phase'[c] = phase[c] \/ phase'[c] = "cancelled"
                             \/ (phase[c] = "cancelled" /\ phase'[c] = "raised")
    BY <1>1
  <2>. QED  BY <2>1, <2>2, <2>3, QuietStep
<1>. QED  BY <1>1, <1>2, <1>3, <1>4, <1>5 DEF Inductive, BooksAgree

LEMMA SaveDocumentInductive == Inductive /\ SaveDocument => Inductive'
<1>. SUFFICES ASSUME Inductive, SaveDocument PROVE Inductive'
  OBVIOUS
<1>1. /\ UNCHANGED <<status, final, jobStatus, run, translations, work, phase,
                     attempt, kept, attempted, failed, since>>
      /\ RunReturned /\ ir' = translations
      /\ proc' = IF proc = "cancelling" THEN "saved_partial" ELSE "saved"
  BY DEF SaveDocument, SaveTranslated, memory
<1>2. TypeOK'
  BY <1>1 DEF Inductive, TypeOK, Procs
<1>3. jobStatus = "translating" /\ proc # "down"
  BY <1>1 DEF RunReturned, Inductive, OnlyLiveRunsWork
<1>4. OnlyLiveRunsWork' /\ SavedIsInMemory'
  BY <1>1, <1>3 DEF OnlyLiveRunsWork, SavedIsInMemory
<1>5. StoppedInOrder'
  BY <1>1 DEF StoppedInOrder, RunReturned, Unwound
<1>6. DoneIsExported' /\ CompletedHasNoGap'
  BY <1>1, <1>3 DEF DoneIsExported, CompletedHasNoGap
<1>7. BooksAgree'
  <2>1. proc # "down" /\ proc' # "down"
    BY <1>1, <1>3
  <2>2. status' = status /\ final' = final /\ translations' = translations /\ work' = work
    BY <1>1
  <2>3. \A c \in Batch : phase'[c] = phase[c] \/ phase'[c] = "cancelled"
                             \/ (phase[c] = "cancelled" /\ phase'[c] = "raised")
    BY <1>1, <1>3
  <2>. QED  BY <2>1, <2>2, <2>3, QuietStep
<1>. QED  BY <1>1, <1>2, <1>3, <1>4, <1>5, <1>6, <1>7 DEF Inductive, BooksAgree

LEMMA WritePartialInductive == Inductive /\ WritePartial => Inductive'
<1>. SUFFICES ASSUME Inductive, WritePartial PROVE Inductive'
  OBVIOUS
<1>1. /\ Forget /\ ir' = translations /\ status' = status /\ final' = final
      /\ run' = run /\ jobStatus' = jobStatus /\ jobStatus = "failed"
  BY DEF WritePartial, SaveTranslated, Inductive, OnlyLiveRunsWork
<1>2. TypeOK'
  BY <1>1, ForgetTyped DEF Inductive, TypeOK, Procs
<1>3. FinishedHasText' /\ DoneIsAccepted' /\ DoneIsExported' /\ CompletedHasNoGap'
  BY <1>1 DEF Inductive, FinishedHasText, DoneIsAccepted, DoneIsExported, CompletedHasNoGap
<1>. QED  BY <1>1, <1>2, <1>3, ProcessEnds

LEMMA SaveFailsInductive == Inductive /\ SaveFails => Inductive'
<1>. SUFFICES ASSUME Inductive, SaveFails PROVE Inductive'
  OBVIOUS
<1>1. /\ Forget /\ ir' \in {ir, TornDocument} /\ status' = status /\ final' = final
      /\ run' = run /\ jobStatus' = jobStatus /\ jobStatus \in {"failed", "translating"}
  BY DEF SaveFails, RunReturned, Inductive, OnlyLiveRunsWork
<1>2. ir' \in [Seg -> Text \cup {NoText, Torn}]
  BY <1>1 DEF Inductive, TypeOK, TornDocument
<1>3. TypeOK'
  BY <1>1, <1>2, ForgetTyped DEF Inductive, TypeOK, Procs
<1>4. FinishedHasText' /\ DoneIsAccepted' /\ DoneIsExported' /\ CompletedHasNoGap'
  BY <1>1 DEF Inductive, FinishedHasText, DoneIsAccepted, DoneIsExported, CompletedHasNoGap
<1>. QED  BY <1>1, <1>3, <1>4, ProcessEnds

\* A run that returned has brought every segment to an end.
LEMMA ReturnedRunFinished ==
  ASSUME Inductive, proc = "saved", NEW s \in Seg
  PROVE  status[s] \in {"done", "review"}
<1>1. BatchOf[s] \in Batch /\ s \in UnitsOf(BatchOf[s])
  BY OrchestratorAssumption DEF UnitsOf
<1>2. phase[BatchOf[s]] \in {"absent", "ended"}
  BY <1>1 DEF Inductive, StoppedInOrder
<1>3. CASE phase[BatchOf[s]] = "absent"
  BY <1>1, <1>3 DEF Inductive, RunCoversBook
<1>4. CASE phase[BatchOf[s]] = "ended"
  BY <1>1, <1>4 DEF Inductive, RunCoversBook
<1>. QED  BY <1>2, <1>3, <1>4

\* The document was saved before, so the status tells the truth about it.
LEMMA RecordEndInductive == Inductive /\ RecordEnd => Inductive'
<1>. SUFFICES ASSUME Inductive, RecordEnd PROVE Inductive'
  OBVIOUS
<1>1. /\ Forget /\ status' = status /\ final' = final /\ ir' = ir /\ run' = run
      /\ proc \in {"saved", "saved_partial"}
      /\ jobStatus' = EndStatus(proc = "saved_partial")
  BY DEF RecordEnd
<1>2. /\ jobStatus' \in {"cancelled", "completed", "translating"}
      /\ jobStatus' = "completed" => proc = "saved"
  BY <1>1 DEF EndStatus
<1>3. TypeOK'
  BY <1>1, <1>2, ForgetTyped DEF Inductive, TypeOK, Procs
<1>4. FinishedHasText' /\ DoneIsAccepted'
  BY <1>1 DEF Inductive, FinishedHasText, DoneIsAccepted
<1>5. \A s \in Seg : status[s] = "done" => ir[s] = final[s]
  BY <1>1 DEF Inductive, SavedIsInMemory, DoneIsInMemory, MemoryMatchesRows
<1>6. DoneIsExported'
  BY <1>1, <1>5 DEF DoneIsExported
<1>7. CompletedHasNoGap'
  BY <1>1, <1>2, ReturnedRunFinished DEF CompletedHasNoGap, Inductive, FinishedHasText
<1>. QED  BY <1>1, <1>3, <1>4, <1>6, <1>7, ProcessEnds

-----------------------------------------------------------------------------
(* Every step *)

LEMMA NextInductive == Inductive /\ [Next]_vars => Inductive'
<1>. SUFFICES ASSUME Inductive, [Next]_vars PROVE Inductive'
  OBVIOUS
<1>1. CASE StartRun
  BY <1>1, StartRunInductive
<1>2. ASSUME NEW b \in Batch, WorkerStep(b) PROVE Inductive'
  <2>1. CASE StartBatch(b)
    BY <2>1, StartBatchInductive
  <2>2. CASE AskJudge(b)
    BY <2>2, AskJudgeInductive
  <2>3. CASE AttemptReturns(b)
    <3>1. PICK r \in Results(b) :
            Retry(b, r) \/ Commit(b, r) \/ Trip(b, r) \/ KilledCommitting(b, r)
      BY <2>3 DEF AttemptReturns
    <3>2. Live /\ phase[b] \in {"translating", "judging"}
      BY <2>3 DEF AttemptReturns
    <3>. QED
      BY <3>1, <3>2, RetryInductive, CommitInductive, TripInductive,
         KilledCommittingInductive
  <2>4. CASE TakeSummaryLock(b)
    BY <2>4, TakeSummaryLockInductive
  <2>5. CASE SummaryReturns(b)
    BY <2>5, SummaryReturnsInductive
  <2>. QED  BY <1>2, <2>1, <2>2, <2>3, <2>4, <2>5 DEF WorkerStep
<1>3. ASSUME NEW b \in Batch, CallFails(b) PROVE Inductive'
  BY <1>3, CallFailsInductive
<1>4. CASE Interrupt
  BY <1>4, InterruptInductive
<1>5. CASE Kill
  BY <1>5, KillInductive
<1>6. ASSUME NEW b \in Batch, Unwind(b) PROVE Inductive'
  BY <1>6, UnwindInductive
<1>7. CASE CancelWorkers \/ RecordFailed \/ WritePartial \/ SaveDocument \/ RecordEnd \/ SaveFails
  BY <1>7, CancelWorkersInductive, RecordFailedInductive, WritePartialInductive,
     SaveDocumentInductive, RecordEndInductive, SaveFailsInductive
<1>8. CASE UNCHANGED vars
  BY <1>8 DEF vars, Inductive, TypeOK, WorkInBatch, OnlyLiveRunsWork, StoppedInOrder,
     SavedIsInMemory, Unwound, FinishedHasText, DoneIsAccepted, MemoryMatchesRows, DoneIsInMemory, UnfinishedNotInMemory,
     NoRework, RunCoversBook, DoneIsExported, CompletedHasNoGap, UnitsOf
<1>. QED
  BY <1>1, <1>2, <1>3, <1>4, <1>5, <1>6, <1>7, <1>8 DEF Next

-----------------------------------------------------------------------------
(* Theorems *)

\* In every state any job can reach, the inductive invariant holds.
THEOREM InductiveInvariant == Spec => []Inductive
BY InitInductive, NextInductive, PTL DEF Spec

\* Every variable keeps its type through any number of runs and faults.
THEOREM TypeCorrect == Spec => []TypeOK
<1>1. Inductive => TypeOK
  BY DEF Inductive
<1>. QED  BY <1>1, InductiveInvariant, PTL

\* finalize_segment never marks a row done whose text did not pass.
THEOREM DoneIsAlwaysAccepted == Spec => []DoneIsAccepted
<1>1. Inductive => DoneIsAccepted
  BY DEF Inductive
<1>. QED  BY <1>1, InductiveInvariant, PTL

\* No worker of any run holds a finished segment before its ladder is over.
THEOREM ResumeNeverReworks == Spec => []NoRework
<1>1. Inductive => NoRework
  BY DEF Inductive
<1>. QED  BY <1>1, InductiveInvariant, PTL

\* Orchestrator.translations never says anything the rows do not.
THEOREM MemoryAlwaysMatchesRows == Spec => []MemoryMatchesRows
<1>1. Inductive => MemoryMatchesRows
  BY DEF Inductive
<1>. QED  BY <1>1, InductiveInvariant, PTL

\* What run_job saves before it records a cancelled or completed run shows every
\* finished row, and no kill or failing save comes between the two unnoticed.
THEOREM DoneIsAlwaysExported == Spec => []DoneIsExported
<1>1. Inductive => DoneIsExported
  BY DEF Inductive
<1>. QED  BY <1>1, InductiveInvariant, PTL

\* run_job reports completed only for a book with a text in every row.
THEOREM CompletedNeverHasGap == Spec => []CompletedHasNoGap
<1>1. Inductive => CompletedHasNoGap
  BY DEF Inductive
<1>. QED  BY <1>1, InductiveInvariant, PTL

\* When the job's status says the run is over, run() has cancelled every worker
\* that was left and waited until it had unwound.
THEOREM AlwaysQuietWhenStopped == Spec => []QuietWhenStopped
<1>1. Inductive => QuietWhenStopped
  BY DEF Inductive, OnlyLiveRunsWork, StoppedInOrder, Unwound, QuietWhenStopped
<1>. QED  BY <1>1, InductiveInvariant, PTL

-----------------------------------------------------------------------------
(* What a step may do to the rows, and what follows: finished rows are     *)
(* stable, the breaker counts what is committed, and the job implements    *)
(* JobPromise under the mapping of Orchestrator!Promise.                   *)

\* The rows a finalize writes are not done before, and the job is running.
Finalizes(S, best) ==
  /\ FinalizeSegments(S, best)
  /\ \A s \in S : status[s] # "done" /\ final[s].run < run
  /\ run' = run
  /\ jobStatus = "translating" /\ jobStatus' = "translating"

\* A step that writes no text: it may start a batch or change the job.
KeepsRows ==
  /\ final' = final
  /\ \A s \in Seg : status'[s] = "done" <=> status[s] = "done"
  /\ run' >= run
  /\ jobStatus' = "completed" => jobStatus = "completed" \/ CompletedHasNoGap'

-----------------------------------------------------------------------------
\* A step of a worker either finalizes rows that were not done or leaves
\* every text and every finished row as it is.
LEMMA AnswerOnRows ==
  ASSUME Inductive, TextsOfRuns, NEW b \in Batch, AttemptReturns(b)
  PROVE  \/ KeepsRows
         \/ \E S \in SUBSET Seg : \E best \in [Seg -> KeptResults] : Finalizes(S, best)
<1>1. PICK r \in Results(b) :
        Retry(b, r) \/ Commit(b, r) \/ Trip(b, r) \/ KilledCommitting(b, r)
  BY DEF AttemptReturns
<1>2. Live /\ phase[b] \in {"translating", "judging"}
  BY DEF AttemptReturns
<1>3. jobStatus = "translating"
  BY <1>2, BusyRun
<1>4. \A s \in work[b] : s \in Seg /\ status[s] # "done" /\ final[s].run < run
  BY <1>2 DEF Inductive, NoRework, TextsOfRuns, TypeOK
<1>5. BestOf(b, r) \in [Seg -> KeptResults] /\ run \in Nat
  BY BestTyped DEF Inductive, TypeOK
<1>6. CASE Retry(b, r)
  BY <1>3, <1>5, <1>6 DEF Retry, KeepsRows, disk
<1>7. CASE Trip(b, r)
  BY <1>3, <1>5, <1>7 DEF Trip, KeepsRows, disk
<1>8. CASE Commit(b, r)
  <2>1. FinalizeSegments(work[b], BestOf(b, r)) /\ jobStatus' = jobStatus /\ run' = run
    BY <1>8 DEF Commit
  <2>2. Finalizes(work[b], BestOf(b, r))
    BY <1>3, <1>4, <2>1 DEF Finalizes
  <2>. QED  BY <1>4, <1>5, <2>2
<1>9. CASE KilledCommitting(b, r)
  <2>1. PICK last \in work[b] : FinalizeSegments({s \in work[b] : s <= last}, BestOf(b, r))
    BY <1>9 DEF KilledCommitting
  <2>. DEFINE S == {s \in work[b] : s <= last}
  <2>2. jobStatus' = jobStatus /\ run' = run
    BY <1>9 DEF KilledCommitting
  <2>3. Finalizes(S, BestOf(b, r))
    BY <1>3, <1>4, <2>1, <2>2 DEF Finalizes
  <2>. QED  BY <1>4, <1>5, <2>3
<1>. QED  BY <1>1, <1>6, <1>7, <1>8, <1>9

\* Every step of the job does one or the other.
LEMMA StepOnRows ==
  ASSUME Inductive, TextsOfRuns, [Next]_vars
  PROVE  \/ KeepsRows
         \/ \E S \in SUBSET Seg : \E best \in [Seg -> KeptResults] : Finalizes(S, best)
<1>1. run \in Nat /\ Inductive'
  BY NextInductive DEF Inductive, TypeOK
<1>2. CompletedHasNoGap'
  BY <1>1 DEF Inductive
<1>3. ASSUME NEW b \in Batch, WorkerStep(b)
      PROVE  \/ KeepsRows
             \/ \E S \in SUBSET Seg : \E best \in [Seg -> KeptResults] : Finalizes(S, best)
  <2>1. CASE StartBatch(b)
    <3>1. \A s \in work[b] : status[s] # "done"
      BY <2>1 DEF StartBatch, Inductive, NoRework
    <3>2. \A s \in Seg : status'[s] = IF s \in work[b] THEN "translating" ELSE status[s]
      BY <2>1 DEF StartBatch
    <3>3. final' = final /\ run' = run
      BY <2>1 DEF StartBatch
    <3>. QED  BY <1>1, <1>2, <3>1, <3>2, <3>3 DEF KeepsRows
  <2>2. CASE AskJudge(b) \/ TakeSummaryLock(b) \/ SummaryReturns(b)
    BY <1>1, <1>2, <2>2 DEF AskJudge, TakeSummaryLock, SummaryReturns, KeepsRows, disk
  <2>3. CASE AttemptReturns(b)
    BY <2>3, AnswerOnRows
  <2>. QED  BY <1>3, <2>1, <2>2, <2>3 DEF WorkerStep
<1>4. ASSUME NEW b \in Batch, CallFails(b) PROVE KeepsRows
  BY <1>1, <1>2, <1>4 DEF CallFails, KeepsRows, disk
<1>5. CASE StartRun
  BY <1>1, <1>2, <1>5 DEF StartRun, KeepsRows
<1>6. CASE Interrupt \/ Kill
  BY <1>1, <1>2, <1>6 DEF Interrupt, Kill, KeepsRows, disk
<1>7. CASE WritePartial \/ RecordEnd \/ SaveFails
  BY <1>1, <1>2, <1>7 DEF WritePartial, RecordEnd, SaveFails, KeepsRows
<1>8. CASE CancelWorkers \/ RecordFailed \/ SaveDocument
  BY <1>1, <1>2, <1>8 DEF CancelWorkers, RecordFailed, SaveDocument, KeepsRows, disk
<1>9. ASSUME NEW b \in Batch, Unwind(b) PROVE KeepsRows
  BY <1>1, <1>2, <1>9 DEF Unwind, KeepsRows, disk
<1>10. CASE UNCHANGED vars
  BY <1>1, <1>2, <1>10 DEF vars, KeepsRows
<1>. QED  BY <1>3, <1>4, <1>5, <1>6, <1>7, <1>8, <1>9, <1>10 DEF Next

-----------------------------------------------------------------------------
(* Texts and runs *)

\* What a commit writes is dated with the running run, and a worker only ever
\* holds segments whose text is of an earlier one.
LEMMA TextsOfRunsStep ==
  Inductive /\ TextsOfRuns /\ [Next]_vars => TextsOfRuns'
<1>. SUFFICES ASSUME Inductive, TextsOfRuns, [Next]_vars PROVE TextsOfRuns'
  OBVIOUS
<1>1. run \in Nat /\ work \in [Batch -> SUBSET Seg] /\ phase \in [Batch -> Phases]
      /\ \A s \in Seg : final[s].run \in Nat
  BY DEF Inductive, TypeOK, Text, NoText
<1>2. CASE StartRun
  <2>1. final' = final /\ run' = run + 1
    BY <1>2 DEF StartRun
  <2>2. work' \in [Batch -> SUBSET Seg]
    BY <1>2, NextInductive DEF Inductive, TypeOK
  <2>. QED  BY <1>1, <2>1, <2>2 DEF TextsOfRuns
<1>3. ASSUME final' = final, run' = run, work' = work,
             \A b \in Batch : phase'[b] \in {"queued", "translating", "judging"} =>
                                phase[b] \in {"queued", "translating", "judging"}
      PROVE  TextsOfRuns'
  BY <1>3 DEF TextsOfRuns
<1>4. ASSUME Forget, final' = final, run' = run PROVE TextsOfRuns'
  BY <1>4 DEF Forget, TextsOfRuns
<1>5. ASSUME NEW b \in Batch, WorkerStep(b) PROVE TextsOfRuns'
  <2>1. CASE StartBatch(b) \/ AskJudge(b) \/ TakeSummaryLock(b) \/ SummaryReturns(b)
    BY <1>1, <1>3, <2>1
       DEF StartBatch, AskJudge, TakeSummaryLock, SummaryReturns, disk
  <2>2. CASE AttemptReturns(b)
    <3>1. PICK r \in Results(b) :
            Retry(b, r) \/ Commit(b, r) \/ Trip(b, r) \/ KilledCommitting(b, r)
      BY <2>2 DEF AttemptReturns
    <3>2. phase[b] \in {"translating", "judging"} /\ BestOf(b, r) \in [Seg -> KeptResults]
      BY <2>2, BestTyped DEF AttemptReturns, Inductive
    <3>3. CASE Retry(b, r) \/ Trip(b, r)
      BY <1>1, <1>3, <3>2, <3>3 DEF Retry, Trip, Raise, disk
    <3>4. CASE Commit(b, r)
      <4>1. /\ FinalizeSegments(work[b], BestOf(b, r)) /\ run' = run /\ work' = work
            /\ \A c \in Batch \ {b} : phase'[c] = phase[c]
            /\ phase'[b] \in {"ended", "lock_wait", "refreshing"}
        BY <1>1, <3>4 DEF Commit
      <4>2. \A s \in Seg : final'[s].run = IF s \in work[b] THEN run ELSE final[s].run
        BY <4>1 DEF FinalizeSegments, Outcome
      <4>3. \A c \in Batch \ {b} : work[b] \cap work[c] = {}
        BY BatchesDisjoint DEF Inductive
      <4>4. \A s \in Seg : final'[s].run <= run
        BY <1>1, <4>2 DEF TextsOfRuns
      <4>5. ASSUME NEW c \in Batch, phase'[c] \in {"queued", "translating", "judging"},
                   NEW s \in work[c]
            PROVE  final'[s].run < run
        <5>1. c # b /\ phase[c] \in {"queued", "translating", "judging"}
          BY <4>1, <4>5
        <5>2. s \in Seg /\ s \notin work[b]
          BY <1>1, <4>3, <5>1
        <5>. QED  BY <4>2, <5>1, <5>2 DEF TextsOfRuns
      <4>. QED  BY <4>1, <4>4, <4>5 DEF TextsOfRuns
    <3>5. CASE KilledCommitting(b, r)
      <4>1. PICK last \in work[b] :
              FinalizeSegments({s \in work[b] : s <= last}, BestOf(b, r))
        BY <3>5 DEF KilledCommitting
      <4>2. \A s \in Seg : final'[s].run = run \/ final'[s].run = final[s].run
        BY <4>1 DEF FinalizeSegments, Outcome
      <4>3. run' = run /\ Forget
        BY <3>5 DEF KilledCommitting
      <4>. QED  BY <1>1, <4>2, <4>3 DEF Forget, TextsOfRuns
    <3>. QED  BY <3>1, <3>3, <3>4, <3>5
  <2>. QED  BY <1>5, <2>1, <2>2 DEF WorkerStep
<1>6. ASSUME NEW b \in Batch, CallFails(b) PROVE TextsOfRuns'
  BY <1>1, <1>3, <1>6 DEF CallFails, Raise, disk
<1>7. CASE Interrupt
  BY <1>3, <1>7 DEF Interrupt, disk, memory
<1>8. CASE Kill \/ WritePartial \/ RecordEnd \/ SaveFails
  BY <1>4, <1>8 DEF Kill, WritePartial, RecordEnd, SaveFails, disk
<1>9. CASE CancelWorkers
  BY <1>3, <1>9 DEF CancelWorkers, disk
<1>10. ASSUME NEW b \in Batch, Unwind(b) PROVE TextsOfRuns'
  BY <1>1, <1>3, <1>10 DEF Unwind, disk
<1>11. CASE RecordFailed \/ SaveDocument
  BY <1>3, <1>11 DEF RecordFailed, SaveDocument, memory
<1>12. CASE UNCHANGED vars
  BY <1>3, <1>12 DEF vars
<1>. QED  BY <1>2, <1>5, <1>6, <1>7, <1>8, <1>9, <1>10, <1>11, <1>12 DEF Next

LEMMA TextsOfRunsInvariant == Spec => []TextsOfRuns
<1>1. Init => TextsOfRuns
  BY DEF Init, TextsOfRuns, NoText
<1>. QED  BY <1>1, InductiveInvariant, TextsOfRunsStep, PTL DEF Spec

-----------------------------------------------------------------------------
(* The circuit breaker *)

\* The breaker starts from nothing, and as long as no worker has raised it has
\* counted what the run has committed.
BreakerKnows ==
  /\ proc = "down" => \A c \in Chapter : attempted[c] = 0 /\ failed[c] = 0
  /\ proc = "running" => \A c \in Chapter :
       /\ attempted[c] = Cardinality(Committed(c))
       /\ failed[c] = Cardinality(CommittedFlagged(c))
       /\ ~Trips(attempted[c], failed[c])

LEMMA CommittedFinite ==
  ASSUME NEW c \in Chapter
  PROVE  /\ IsFiniteSet(Committed(c)) /\ IsFiniteSet(CommittedFlagged(c))
         /\ Committed(c) \subseteq Seg
BY OrchestratorAssumption, FS_Subset DEF Committed, CommittedFlagged

LEMMA CountOfBoth ==
  ASSUME NEW S, NEW T, IsFiniteSet(S), IsFiniteSet(T), S \cap T = {}
  PROVE  Cardinality(S \cup T) = Cardinality(S) + Cardinality(T)
<1>1. /\ Cardinality(S \cup T) = Cardinality(S) + Cardinality(T) - Cardinality(S \cap T)
      /\ Cardinality(S) \in Nat /\ Cardinality(T) \in Nat
  BY FS_Union, FS_CardinalityType
<1>. QED  BY <1>1, FS_EmptySet

\* A run begins with nothing committed: every text it finds is of an earlier run.
LEMMA StartRunCounts ==
  ASSUME Inductive, TextsOfRuns, BreakerKnows, StartRun
  PROVE  BreakerKnows'
<1>1. proc' = "running" /\ run' = run + 1 /\ attempted' = attempted /\ failed' = failed
  BY DEF StartRun
<1>2. run \in Nat /\ \A s \in Seg : final[s].run \in Nat
  BY DEF Inductive, TypeOK, Text, NoText
<1>3. \A s \in Seg : translations'[s] # NoText => translations'[s].run # run'
  BY <1>1, <1>2 DEF StartRun, TextsOfRuns
<1>4. \A c \in Chapter : Committed(c)' = {} /\ CommittedFlagged(c)' = {}
  BY <1>3 DEF Committed, CommittedFlagged
<1>5. \A c \in Chapter : attempted'[c] = 0 /\ failed'[c] = 0
  BY <1>1 DEF StartRun, BreakerKnows
<1>. QED  BY <1>1, <1>4, <1>5, FS_EmptySet DEF BreakerKnows, Trips

\* CircuitBreaker.record counts a batch when it is committed, once.
LEMMA CommitCounts ==
  ASSUME Inductive, BreakerKnows, NEW b \in Batch, NEW r \in Results(b), Commit(b, r),
         phase[b] \in {"translating", "judging"}, proc # "down"
  PROVE  BreakerKnows'
<1>. DEFINE best == BestOf(b, r)
            d == ChapterOf[b]
<1>1. /\ attempted' = Attempted(b) /\ failed' = FailedWith(b, best) /\ proc' = proc /\ run' = run
      /\ ~BreakerTrips(b, best)
      /\ translations' =
           [s \in Seg |-> IF s \in work[b] THEN Outcome(s, best) ELSE translations[s]]
  BY DEF Commit
<1>2. /\ d \in Chapter /\ work[b] \subseteq UnitsOf(b) /\ UnitsOf(b) \subseteq Seg
      /\ attempted \in [Chapter -> Nat] /\ failed \in [Chapter -> Nat]
      /\ \A s \in work[b] : translations[s] = NoText /\ ChapterOf[BatchOf[s]] = d
      /\ best \in [Seg -> KeptResults] /\ run \in Nat
  BY BestTyped, OrchestratorAssumption
     DEF Inductive, TypeOK, WorkInBatch, UnitsOf, UnfinishedNotInMemory
<1>. HIDE DEF best
<1>3. \A s \in work[b] : /\ Outcome(s, best) # NoText /\ Outcome(s, best).run = run
                         /\ Outcome(s, best).kind # "pass" <=> s \in Flagged(b, best)
  <2>. SUFFICES ASSUME NEW s \in work[b]
                PROVE  /\ Outcome(s, best) # NoText /\ Outcome(s, best).run = run
                       /\ Outcome(s, best).kind # "pass" <=> s \in Flagged(b, best)
    OBVIOUS
  <2>1. s \in Seg
    BY <1>2
  <2>2. Outcome(s, best) # NoText /\ Outcome(s, best).kind = best[s].kind
        /\ Outcome(s, best).run = run
    BY <1>2, <2>1, OutcomeTyped DEF Inductive
  <2>. QED  BY <2>2 DEF Flagged, Passed
<1>4. SUFFICES ASSUME proc = "running", NEW c \in Chapter
               PROVE  /\ attempted'[c] = Cardinality(Committed(c)')
                      /\ failed'[c] = Cardinality(CommittedFlagged(c)')
                      /\ ~Trips(attempted'[c], failed'[c])
  BY <1>1 DEF BreakerKnows
<1>5. /\ attempted[c] = Cardinality(Committed(c))
      /\ failed[c] = Cardinality(CommittedFlagged(c))
      /\ ~Trips(attempted[c], failed[c])
  BY <1>4 DEF BreakerKnows
<1>6. CASE c # d
  <2>1. Committed(c)' = Committed(c) /\ CommittedFlagged(c)' = CommittedFlagged(c)
    BY <1>1, <1>2, <1>6 DEF Committed, CommittedFlagged
  <2>2. attempted'[c] = attempted[c] /\ failed'[c] = failed[c]
    BY <1>1, <1>2, <1>6 DEF Attempted, FailedWith
  <2>. QED  BY <1>5, <2>1, <2>2
<1>7. CASE c = d
  <2>1. Committed(c)' = Committed(c) \cup work[b] /\ Committed(c) \cap work[b] = {}
    BY <1>1, <1>2, <1>3, <1>7 DEF Committed
  <2>2. /\ CommittedFlagged(c)' = CommittedFlagged(c) \cup Flagged(b, best)
        /\ CommittedFlagged(c) \cap Flagged(b, best) = {}
    BY <1>1, <1>2, <1>3, <1>7 DEF Committed, CommittedFlagged, Flagged
  <2>3. /\ IsFiniteSet(work[b]) /\ IsFiniteSet(Flagged(b, best))
        /\ IsFiniteSet(Committed(c)) /\ IsFiniteSet(CommittedFlagged(c))
    <3>1. IsFiniteSet(work[b])
      BY <1>2, FS_Subset, OrchestratorAssumption
    <3>2. Flagged(b, best) \subseteq work[b]
      BY DEF Flagged
    <3>. QED  BY <3>1, <3>2, FS_Subset, CommittedFinite
  <2>4. /\ Cardinality(Committed(c)') = attempted[c] + Cardinality(work[b])
        /\ Cardinality(CommittedFlagged(c)') = failed[c] + Cardinality(Flagged(b, best))
    BY <1>5, <2>1, <2>2, <2>3, CountOfBoth
  <2>5. /\ attempted'[c] = attempted[c] + Cardinality(work[b])
        /\ failed'[c] = failed[c] + Cardinality(Flagged(b, best))
    BY <1>1, <1>2, <1>7 DEF Attempted, FailedWith
  <2>6. ~Trips(attempted'[c], failed'[c])
    BY <1>1, <1>7 DEF BreakerTrips
  <2>. QED  BY <2>4, <2>5, <2>6
<1>. QED  BY <1>6, <1>7

LEMMA BreakerStep ==
  Inductive /\ TextsOfRuns /\ BreakerKnows /\ [Next]_vars => BreakerKnows'
<1>. SUFFICES ASSUME Inductive, TextsOfRuns, BreakerKnows, [Next]_vars PROVE BreakerKnows'
  OBVIOUS
<1>1. ASSUME UNCHANGED <<run, translations, attempted, failed>>,
             proc' = proc \/ (proc # "down" /\ proc' \notin {"down", "running"})
      PROVE  BreakerKnows'
  BY <1>1 DEF BreakerKnows, Committed, CommittedFlagged
<1>2. ASSUME Forget PROVE BreakerKnows'
  BY <1>2 DEF Forget, BreakerKnows
<1>3. ASSUME NEW b \in Batch, WorkerStep(b) PROVE BreakerKnows'
  <2>1. CASE StartBatch(b) \/ AskJudge(b) \/ TakeSummaryLock(b) \/ SummaryReturns(b)
    BY <1>1, <2>1 DEF StartBatch, AskJudge, TakeSummaryLock, SummaryReturns, breaker
  <2>2. CASE AttemptReturns(b)
    <3>1. PICK r \in Results(b) :
            Retry(b, r) \/ Commit(b, r) \/ Trip(b, r) \/ KilledCommitting(b, r)
      BY <2>2 DEF AttemptReturns
    <3>2. phase[b] \in {"translating", "judging"} /\ proc # "down"
      BY <2>2 DEF AttemptReturns, Live
    <3>3. CASE Retry(b, r)
      BY <1>1, <3>3 DEF Retry, breaker
    <3>4. CASE Commit(b, r)
      BY <3>2, <3>4, CommitCounts
    <3>5. CASE Trip(b, r)
      BY <3>2, <3>5 DEF Trip, Raise, BreakerKnows
    <3>6. CASE KilledCommitting(b, r)
      BY <1>2, <3>6 DEF KilledCommitting
    <3>. QED  BY <3>1, <3>3, <3>4, <3>5, <3>6
  <2>. QED  BY <1>3, <2>1, <2>2 DEF WorkerStep
<1>4. ASSUME NEW b \in Batch, CallFails(b) PROVE BreakerKnows'
  BY <1>1, <1>4 DEF CallFails, Live, Raise, breaker
<1>5. CASE Interrupt
  BY <1>1, <1>5 DEF Interrupt, memory
<1>6. CASE Kill \/ WritePartial \/ RecordEnd \/ SaveFails
  BY <1>2, <1>6 DEF Kill, WritePartial, RecordEnd, SaveFails
<1>7. CASE CancelWorkers \/ RecordFailed \/ SaveDocument
  <2>1. proc # "down" /\ proc' \notin {"down", "running"}
    BY <1>7 DEF CancelWorkers, RecordFailed, SaveDocument, RunReturned
  <2>. QED  BY <1>1, <1>7, <2>1 DEF CancelWorkers, RecordFailed, SaveDocument, memory, breaker
<1>8. ASSUME NEW b \in Batch, Unwind(b) PROVE BreakerKnows'
  BY <1>1, <1>8 DEF Unwind, breaker
<1>9. CASE UNCHANGED vars
  BY <1>1, <1>9 DEF vars
<1>. QED  BY <1>3, <1>4, <1>5, <1>6, <1>7, <1>8, <1>9, StartRunCounts DEF Next

-----------------------------------------------------------------------------
(* Theorems *)

\* While a run goes on, the breaker has counted exactly what it committed, and
\* no chapter it committed is failing systematically (CircuitBreaker).
THEOREM BreakerAlwaysCounts == Spec => []BreakerCountsCommitted
<1>1. Init => BreakerKnows
  BY DEF Init, BreakerKnows
<1>2. BreakerKnows => BreakerCountsCommitted
  BY DEF BreakerKnows, BreakerCountsCommitted
<1>. QED
  BY <1>1, <1>2, InductiveInvariant, TextsOfRunsInvariant, BreakerStep, PTL DEF Spec

\* No step of any run, retry, crash or resume reopens a finished segment or
\* replaces its text.
THEOREM DoneIsAlwaysStable == Spec => DoneIsStable
<1>1. ASSUME Inductive, TextsOfRuns, [Next]_vars
      PROVE  \A s \in Seg : status[s] = "done" =>
               status'[s] = "done" /\ final'[s] = final[s]
  <2>1. CASE KeepsRows
    BY <2>1 DEF KeepsRows
  <2>2. ASSUME NEW S \in SUBSET Seg, NEW best \in [Seg -> KeptResults], Finalizes(S, best)
        PROVE  \A s \in Seg : status[s] = "done" =>
                 status'[s] = "done" /\ final'[s] = final[s]
    <3>1. \A s \in Seg \ S : status'[s] = status[s] /\ final'[s] = final[s]
      BY <1>1, <2>2, Finalized DEF Finalizes, Inductive
    <3>2. \A s \in S : status[s] # "done"
      BY <2>2 DEF Finalizes
    <3>. QED  BY <3>1, <3>2
  <2>. QED  BY <1>1, <2>1, <2>2, StepOnRows
<1>. QED
  BY <1>1, InductiveInvariant, TextsOfRunsInvariant, PTL DEF Spec, DoneIsStable

\* A step that writes no text closes, reopens or leaves the promised job alone.
LEMMA KeepsRowsRefines ==
  ASSUME Inductive', KeepsRows
  PROVE  [Promise!PromiseNext]_(Promise!promiseVars)
<1>1. final' = final /\ \A s \in Seg : status'[s] = "done" <=> status[s] = "done"
  BY DEF KeepsRows
<1>2. {s \in Seg : status'[s] = "done"} = {s \in Seg : status[s] = "done"}
  BY <1>1
<1>3. CASE jobStatus' = "completed" /\ jobStatus # "completed"
  <2>1. \A s \in Seg : final[s] \in Text
    BY <1>1, <1>3 DEF KeepsRows, CompletedHasNoGap, Inductive, TypeOK
  <2>. QED
    BY <1>1, <1>2, <1>3, <2>1 DEF Promise!PromiseNext, Promise!Close
<1>4. CASE jobStatus' # "completed"
  BY <1>1, <1>2, <1>4 DEF Promise!PromiseNext, Promise!Reopen
<1>5. CASE jobStatus' = "completed" /\ jobStatus = "completed"
  BY <1>1, <1>2, <1>5 DEF Promise!promiseVars
<1>. QED  BY <1>3, <1>4, <1>5

\* A finalize delivers the texts it writes and settles those that passed.
LEMMA FinalizesRefines ==
  ASSUME Inductive, NEW S \in SUBSET Seg, NEW best \in [Seg -> KeptResults],
         Finalizes(S, best)
  PROVE  [Promise!PromiseNext]_(Promise!promiseVars)
<1>. DEFINE Good     == {t \in Text : t.kind = "pass"}
            done     == {s \in Seg : status[s] = "done"}
            doneNext == {s \in Seg : status'[s] = "done"}
<1>1. /\ final' \in [Seg -> Text \cup {NoText}]
      /\ \A s \in Seg \ S : status'[s] = status[s] /\ final'[s] = final[s]
      /\ \A s \in S : final'[s] = Outcome(s, best) /\ final'[s] # NoText
  BY Finalized DEF Finalizes, Inductive
<1>2. run \in Nat /\ \A s \in S : status[s] # "done" /\ final[s].run < run
  BY DEF Finalizes, Inductive, TypeOK
<1>3. \A s \in S : status'[s] = "done" <=> final'[s].kind = "pass"
  BY <1>1 DEF Finalizes, FinalizeSegments, Passed, Outcome
<1>4. \A s \in S : final'[s] # final[s] /\ final'[s] \in Text
  <2>1. \A s \in S : final[s].run \in Nat
    BY DEF Inductive, TypeOK, Text, NoText
  <2>2. ASSUME NEW s \in S PROVE final'[s].run = run
    <3>1. final'[s] = Outcome(s, best)
      BY <1>1
    <3>. QED  BY <3>1 DEF Outcome
  <2>3. \A s \in S : final'[s].run # final[s].run
    BY <1>2, <2>1, <2>2
  <2>4. \A s \in S : final'[s] # final[s]
    BY <2>3
  <2>5. \A s \in S : final'[s] \in Text
    BY <1>1
  <2>. QED  BY <2>4, <2>5
<1>5. {s \in Seg : final'[s] # final[s]} = S
  BY <1>1, <1>4
<1>6. doneNext = done \cup {s \in S : final'[s] \in Good}
  BY <1>1, <1>2, <1>3, <1>4
<1>7. jobStatus # "completed" /\ jobStatus' # "completed"
  BY DEF Finalizes
<1>8. CASE S = {}
  BY <1>1, <1>5, <1>6, <1>7, <1>8 DEF Promise!promiseVars, Inductive, TypeOK
<1>9. CASE S # {}
  <2>1. Promise!Changed = S
    BY <1>5 DEF Promise!Changed
  <2>2. Promise!Deliver
    BY <1>1, <1>2, <1>4, <1>6, <1>7, <1>9, <2>1 DEF Promise!Deliver
  <2>. QED  BY <2>2 DEF Promise!PromiseNext
<1>. QED  BY <1>8, <1>9

\* The job implements the promise it makes to its user: every step of every
\* worker, run, crash and resume is a delivery, a closing, a reopening or
\* invisible.
THEOREM JobKeepsPromise == Spec => KeepsPromise
<1>1. Init => Promise!PromiseInit
  BY DEF Init, Promise!PromiseInit
<1>2. Inductive /\ TextsOfRuns /\ [Next]_vars =>
        [Promise!PromiseNext]_(Promise!promiseVars)
  <2>. SUFFICES ASSUME Inductive, TextsOfRuns, [Next]_vars
                PROVE  [Promise!PromiseNext]_(Promise!promiseVars)
    OBVIOUS
  <2>1. Inductive'
    BY NextInductive
  <2>2. CASE KeepsRows
    BY <2>1, <2>2, KeepsRowsRefines
  <2>3. ASSUME NEW S \in SUBSET Seg, NEW best \in [Seg -> KeptResults], Finalizes(S, best)
        PROVE  [Promise!PromiseNext]_(Promise!promiseVars)
    BY <2>3, FinalizesRefines
  <2>. QED  BY <2>2, <2>3, StepOnRows
<1>. QED
  BY <1>1, <1>2, InductiveInvariant, TextsOfRunsInvariant, PTL
     DEF Spec, KeepsPromise, Promise!PromiseSpec

=============================================================================
