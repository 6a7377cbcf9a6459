-------------------------- MODULE JobLifecycleProofs --------------------------
(***************************************************************************)
(* Proofs about JobLifecycle, for every book, every division of it into    *)
(* chapters and every number of commands: what a reviewer wrote stays, no  *)
(* segment is taken up that nobody asked for, and the saved document shows *)
(* what was finished when it was saved.                                    *)
(*                                                                         *)
(* Each of the three needs to know more of the run under way.  A run       *)
(* spares an edit because it has not planned the segment; it stays within  *)
(* the selection because its document does, and because a row without a    *)
(* text cannot be reviewed into being; it saves what is finished because   *)
(* its memory has it, whether it did that work or a run before.            *)
(***************************************************************************)
EXTENDS JobLifecycle, TLAPS

Statuses == {"absent", "pending", "translating", "review", "done"}
Texts == {"none", "blank", "source", "draft", "good", "human"}
Rows == [status : Statuses, text : Texts]

TypeInv ==
  /\ row \in [Segments -> Rows]
  /\ ir \subseteq Segments /\ scope \subseteq Segments /\ todo \subseteq Segments
  /\ edited \subseteq Segments

\* A row that is not there has no text.
AbsentIsEmpty == \A s \in Segments : row[s].status = "absent" => row[s].text = "none"

\* A run under way has not planned a segment with an edit.
EditsUnplanned == phase = "running" => edited \cap todo = {}

ScopeSelected == scope \subseteq selected /\ todo \subseteq selected /\ Seeded \subseteq selected

\* The memory of a run has what is finished, but for what is reviewed meanwhile.
MemoryShows ==
  phase = "running" =>
    \A s \in AlreadyDone \ touched : s \in DOMAIN memory /\ memory[s] = row[s].text

Inductive ==
  /\ TypeInv /\ AbsentIsEmpty
  /\ EditsSurvive /\ EditsUnplanned
  /\ ScopeSelected
  /\ MemoryShows /\ SavedShowsFinished

-----------------------------------------------------------------------------
LEMMA InitIsInductive == Init => Inductive
<1> SUFFICES ASSUME Init PROVE Inductive
  OBVIOUS
<1> USE DEF Init
<1>1. TypeInv /\ AbsentIsEmpty
  BY DEF TypeInv, AbsentIsEmpty, Rows, Statuses, Texts, Absent
<1>2. EditsSurvive /\ EditsUnplanned /\ MemoryShows
  BY DEF EditsSurvive, EditsUnplanned, MemoryShows
<1>3. ScopeSelected
  BY DEF ScopeSelected, Seeded, Absent
<1>4. SavedShowsFinished
  BY DEF SavedShowsFinished, NoFile
<1> QED
  BY <1>1, <1>2, <1>3, <1>4 DEF Inductive

\* Seeding leaves every row alone that is there, and adds none but empty ones.
LEMMA SeedKeeps ==
  ASSUME TypeInv, AbsentIsEmpty, NEW segments \in SUBSET Segments, Seed(segments)
  PROVE  /\ row' \in [Segments -> Rows]
         /\ AbsentIsEmpty'
         /\ \A s \in Segments : row[s].status # "absent" => row'[s] = row[s]
         /\ \A s \in Segments : row'[s].status # "absent" => s \in segments \/ row[s].status # "absent"
<1>1. \A s \in Segments : row'[s] = IF s \in segments /\ row[s] = Absent THEN Queued ELSE row[s]
  BY DEF Seed
<1>2. row' \in [Segments -> Rows]
  BY DEF Seed, TypeInv, Rows, Statuses, Texts, Queued
<1>3. \A s \in Segments : row[s].status # "absent" => row'[s] = row[s]
  BY <1>1 DEF Absent
<1>4. AbsentIsEmpty'
  BY <1>1 DEF AbsentIsEmpty, Queued
<1>5. \A s \in Segments : row'[s].status # "absent" => s \in segments \/ row[s].status # "absent"
  BY <1>1
<1> QED
  BY <1>2, <1>3, <1>4, <1>5

LEMMA TranslateStep ==
  ASSUME Inductive, NEW chapters \in SUBSET Chapters, NEW from \in BOOLEAN,
         Translate(chapters, from)
  PROVE  Inductive'
<1>1. scope' \subseteq Segments /\ scope' \subseteq selected' /\ selected \subseteq selected'
  BY DEF Inductive, TypeInv, Translate, Selection, In
<1>2. /\ row' \in [Segments -> Rows] /\ AbsentIsEmpty'
      /\ \A s \in Segments : row[s].status # "absent" => row'[s] = row[s]
      /\ \A s \in Segments : row'[s].status # "absent" => s \in scope' \/ row[s].status # "absent"
  BY <1>1, SeedKeeps DEF Inductive, Translate
<1>3. TypeInv'
  BY <1>1, <1>2 DEF Inductive, TypeInv, Translate
<1>4. EditsSurvive'
  BY <1>2 DEF Inductive, TypeInv, EditsSurvive, Translate
<1>5. EditsUnplanned' /\ MemoryShows'
  BY DEF EditsUnplanned, MemoryShows, Translate
<1>6. ScopeSelected'
  BY <1>1, <1>2 DEF Inductive, ScopeSelected, Seeded, Translate
<1>7. SavedShowsFinished'
  BY DEF Inductive, SavedShowsFinished, Translate
<1> QED
  BY <1>2, <1>3, <1>4, <1>5, <1>6, <1>7 DEF Inductive

LEMMA ResumeStep ==
  ASSUME Inductive, Resume
  PROVE  Inductive'
<1> USE DEF Inductive, Resume, disk, past
<1>1. TypeInv'
  BY DEF TypeInv, ResumedScope
<1>2. AbsentIsEmpty' /\ EditsSurvive' /\ SavedShowsFinished'
  BY DEF AbsentIsEmpty, EditsSurvive, SavedShowsFinished
<1>3. EditsUnplanned' /\ MemoryShows'
  BY DEF EditsUnplanned, MemoryShows
<1>4. ScopeSelected'
  BY DEF ScopeSelected, Seeded, ResumedScope
<1> QED
  BY <1>1, <1>2, <1>3, <1>4

LEMMA DryRunStep ==
  ASSUME Inductive, DryRun
  PROVE  Inductive'
<1> USE DEF Inductive, DryRun, disk, past
<1>1. TypeInv' /\ AbsentIsEmpty'
  BY DEF TypeInv, AbsentIsEmpty
<1>2. EditsSurvive' /\ SavedShowsFinished'
  BY DEF EditsSurvive, SavedShowsFinished
<1>3. EditsUnplanned' /\ MemoryShows'
  BY DEF EditsUnplanned, MemoryShows
<1>4. ScopeSelected'
  BY DEF ScopeSelected, Seeded
<1> QED
  BY <1>1, <1>2, <1>3, <1>4

\* The plan of a run leaves out the finished rows, so the edits, and its memory
\* begins with all of them.
LEMMA StartRunStep ==
  ASSUME Inductive, StartRun
  PROVE  Inductive'
<1> USE DEF Inductive, StartRun
<1>1. TypeInv' /\ AbsentIsEmpty'
  BY DEF TypeInv, AbsentIsEmpty
<1>2. EditsSurvive' /\ SavedShowsFinished'
  BY DEF EditsSurvive, SavedShowsFinished
<1>3. EditsUnplanned'
  <2>1. edited \subseteq AlreadyDone
    BY DEF TypeInv, EditsSurvive, AlreadyDone, HasText
  <2> QED
    BY <2>1 DEF EditsUnplanned
<1>4. ScopeSelected'
  BY DEF ScopeSelected, Seeded
<1>5. MemoryShows'
  BY DEF MemoryShows, AlreadyDone, HasText
<1> QED
  BY <1>1, <1>2, <1>3, <1>4, <1>5

LEMMA BeginStep ==
  ASSUME Inductive, NEW s \in Segments, Begin(s)
  PROVE  Inductive'
<1> USE DEF Inductive, Begin, past
<1>1. /\ row'[s].status = "translating"
      /\ \A t \in Segments \ {s} : row'[t] = row[t]
  BY DEF TypeInv
<1>2. TypeInv'
  BY DEF TypeInv, Rows, Statuses
<1>3. AbsentIsEmpty'
  BY <1>1 DEF AbsentIsEmpty
<1>4. EditsSurvive'
  BY <1>1 DEF EditsSurvive, EditsUnplanned, TypeInv
<1>5. EditsUnplanned' /\ SavedShowsFinished'
  BY DEF EditsUnplanned, SavedShowsFinished
<1>6. ScopeSelected'
  BY <1>1 DEF ScopeSelected, Seeded
<1>7. MemoryShows'
  BY <1>1 DEF MemoryShows, AlreadyDone, HasText
<1> QED
  BY <1>2, <1>3, <1>4, <1>5, <1>6, <1>7

LEMMA CommitStep ==
  ASSUME Inductive, NEW s \in Segments, NEW text \in {"good", "draft", "source"}, Commit(s, text)
  PROVE  Inductive'
<1> USE DEF Inductive, Commit, past
<1>1. /\ row'[s] = [status |-> IF text = "good" THEN "done" ELSE "review", text |-> text]
      /\ \A t \in Segments \ {s} : row'[t] = row[t]
  BY DEF TypeInv
<1>2. TypeInv'
  BY DEF TypeInv, Rows, Statuses, Texts
<1>3. AbsentIsEmpty'
  BY <1>1 DEF AbsentIsEmpty
<1>4. EditsSurvive'
  BY <1>1 DEF EditsSurvive, EditsUnplanned, TypeInv
<1>5. EditsUnplanned' /\ SavedShowsFinished'
  BY DEF EditsUnplanned, SavedShowsFinished
<1>6. ScopeSelected'
  BY <1>1 DEF ScopeSelected, Seeded
<1>7. MemoryShows'
  BY <1>1 DEF MemoryShows, AlreadyDone, HasText
<1> QED
  BY <1>2, <1>3, <1>4, <1>5, <1>6, <1>7

-----------------------------------------------------------------------------
\* A run that saves keeps its promise: its memory has what is finished.
LEMMA SaveShows ==
  ASSUME Inductive, phase = "running", Save
  PROVE  SavedShowsFinished'
<1>1. \A s \in DOMAIN promised' :
        /\ s \in Segments /\ s \in DOMAIN memory
        /\ promised'[s] = row[s].text /\ memory[s] = row[s].text
  BY DEF Inductive, MemoryShows, AlreadyDone, Save
<1>2. \A s \in DOMAIN promised' : saved'[s] = memory[s]
  BY <1>1 DEF Save, Build
<1> QED
  BY <1>1, <1>2 DEF SavedShowsFinished

\* However a run ends, only the document and the status change on disk.
LEMMA EndStep ==
  ASSUME Inductive, phase = "running", NoRun, Save \/ UNCHANGED <<saved, promised>>,
         UNCHANGED <<ir, row, selected, edited, touched>>
  PROVE  Inductive'
<1> USE DEF NoRun
<1>1. TypeInv' /\ AbsentIsEmpty'
  BY DEF Inductive, TypeInv, AbsentIsEmpty
<1>2. EditsSurvive' /\ EditsUnplanned' /\ MemoryShows'
  BY DEF Inductive, EditsSurvive, EditsUnplanned, MemoryShows
<1>3. ScopeSelected'
  BY DEF Inductive, ScopeSelected, Seeded
<1>4. SavedShowsFinished'
  <2>1. CASE Save
    BY <2>1, SaveShows
  <2>2. CASE UNCHANGED <<saved, promised>>
    BY <2>2 DEF Inductive, SavedShowsFinished
  <2> QED
    BY <2>1, <2>2
<1> QED
  BY <1>1, <1>2, <1>3, <1>4 DEF Inductive

-----------------------------------------------------------------------------
\* What a review may do to a row: the row was there, and a run under way takes
\* note of it.
LEMMA ReviewStep ==
  ASSUME Inductive, NEW s \in Segments, Reviewed(s), NEW r \in Rows, r.status # "absent",
         row' = [row EXCEPT ![s] = r],
         \/ edited' = edited \ {s}
         \/ /\ edited' = edited \cup {s} /\ r = [status |-> "done", text |-> "human"]
            /\ ~(phase = "running" /\ s \in todo)
         \/ edited' = edited /\ r.status = "done" /\ r.text = row[s].text,
         UNCHANGED <<ir, saved, phase, scope, todo, memory, selected, promised>>
  PROVE  Inductive'
<1>1. row'[s] = r /\ \A t \in Segments \ {s} : row'[t] = row[t]
  BY DEF Inductive, TypeInv
<1>2. row[s].status # "absent"
  BY DEF Inductive, AbsentIsEmpty, Reviewed, HasText
<1>3. TypeInv'
  BY DEF Inductive, TypeInv
<1>4. AbsentIsEmpty'
  BY <1>1 DEF Inductive, AbsentIsEmpty
<1>5. EditsSurvive'
  <2>1. \A t \in edited' \ {s} : row'[t] = [status |-> "done", text |-> "human"]
    BY <1>1 DEF Inductive, TypeInv, EditsSurvive
  <2>2. s \in edited' => row'[s] = [status |-> "done", text |-> "human"]
    BY <1>1 DEF Inductive, EditsSurvive, Rows
  <2> QED
    BY <2>1, <2>2 DEF EditsSurvive
<1>6. EditsUnplanned'
  BY DEF Inductive, EditsUnplanned
<1>7. ScopeSelected'
  BY <1>1, <1>2 DEF Inductive, ScopeSelected, Seeded
<1>8. MemoryShows'
  BY <1>1 DEF Inductive, MemoryShows, AlreadyDone, HasText, Reviewed
<1>9. SavedShowsFinished'
  BY DEF Inductive, SavedShowsFinished
<1> QED
  BY <1>3, <1>4, <1>5, <1>6, <1>7, <1>8, <1>9 DEF Inductive

LEMMA AcceptStep ==
  ASSUME Inductive, NEW s \in Segments, Accept(s)
  PROVE  Inductive'
<1> DEFINE r == [row[s] EXCEPT !.status = "done"]
<1>1. r \in Rows /\ r.status = "done" /\ r.text = row[s].text
  BY DEF Inductive, TypeInv, Rows, Statuses
<1>2. row' = [row EXCEPT ![s] = r]
  BY DEF Accept
<1> QED
  BY <1>1, <1>2, ReviewStep DEF Accept

LEMMA RequeueStep ==
  ASSUME Inductive, NEW s \in Segments, Requeue(s)
  PROVE  Inductive'
<1> DEFINE r == [row[s] EXCEPT !.status = "pending"]
<1>1. r \in Rows /\ r.status = "pending"
  BY DEF Inductive, TypeInv, Rows, Statuses
<1>2. row' = [row EXCEPT ![s] = r]
  BY DEF Requeue
<1> QED
  BY <1>1, <1>2, ReviewStep DEF Requeue

LEMMA EditStep ==
  ASSUME Inductive, NEW s \in Segments, NEW text \in {"human", "blank"}, Edit(s, text)
  PROVE  Inductive'
<1> DEFINE r == [status |-> "done", text |-> text]
<1>1. r \in Rows /\ r.status # "absent"
  BY DEF Rows, Statuses, Texts
<1>2. \/ edited' = edited \ {s}
      \/ /\ edited' = edited \cup {s} /\ r = [status |-> "done", text |-> "human"]
         /\ ~(phase = "running" /\ s \in todo)
  BY DEF Edit
<1> QED
  BY <1>1, <1>2, ReviewStep DEF Edit

LEMMA ExportStep ==
  ASSUME Inductive, UNCHANGED <<ir, row, saved, phase, scope, todo, memory, past>>
  PROVE  Inductive'
<1> USE DEF Inductive, past
<1>1. TypeInv' /\ AbsentIsEmpty' /\ EditsSurvive' /\ EditsUnplanned'
  BY DEF TypeInv, AbsentIsEmpty, EditsSurvive, EditsUnplanned
<1>2. ScopeSelected' /\ MemoryShows' /\ SavedShowsFinished'
  BY DEF ScopeSelected, Seeded, MemoryShows, AlreadyDone, HasText, SavedShowsFinished
<1> QED
  BY <1>1, <1>2

LEMMA NextIsInductive == Inductive /\ [Next]_vars => Inductive'
<1> SUFFICES ASSUME Inductive, [Next]_vars PROVE Inductive'
  OBVIOUS
<1>1. CASE \E chapters \in SUBSET Chapters \ {{}}, from \in BOOLEAN : Translate(chapters, from)
  BY <1>1, TranslateStep
<1>2. CASE Resume \/ DryRun \/ StartRun
  BY <1>2, ResumeStep, DryRunStep, StartRunStep
<1>3. ASSUME NEW s \in Segments, Begin(s) PROVE Inductive'
  BY <1>3, BeginStep
<1>4. ASSUME NEW s \in Segments, NEW text \in {"good", "draft", "source"}, Commit(s, text)
      PROVE  Inductive'
  BY <1>4, CommitStep
<1>5. ASSUME NEW s \in Segments, Accept(s) \/ Requeue(s) PROVE Inductive'
  BY <1>5, AcceptStep, RequeueStep
<1>6. ASSUME NEW s \in Segments, NEW text \in {"human", "blank"}, Edit(s, text) PROVE Inductive'
  BY <1>6, EditStep
<1>7. CASE Finished
  BY <1>7, EndStep DEF Finished
<1>8. CASE Killed
  BY <1>8, EndStep DEF Killed
<1>9. ASSUME NEW how \in {"cancelled", "failed"}, Stopped(how) PROVE Inductive'
  BY <1>9, EndStep DEF Stopped
<1>10. CASE Export
  BY <1>10, ExportStep DEF Export
<1>11. CASE UNCHANGED vars
  BY <1>11, ExportStep DEF vars, past
<1> QED
  BY <1>1, <1>2, <1>3, <1>4, <1>5, <1>6, <1>7, <1>8, <1>9, <1>10, <1>11 DEF Next

LEMMA AlwaysInductive == Spec => []Inductive
  BY InitIsInductive, NextIsInductive, PTL DEF Spec

-----------------------------------------------------------------------------
\* What a reviewer wrote stays through runs, kills, resumes and selections
\* (review.record_human_edit, Orchestrator._already_done).
THEOREM EditsAlwaysSurvive == Spec => []EditsSurvive
<1>1. Inductive => EditsSurvive
  BY DEF Inductive
<1> QED
  BY <1>1, AlwaysInductive, PTL

\* No row is made and no segment planned outside the chapters asked for
\* (chapters.apply_selection, chapters.restrict_to_seeded).
THEOREM NoneUnaskedFor == Spec => []OnlySelected
<1>1. Inductive => OnlySelected
  BY DEF Inductive, TypeInv, ScopeSelected, Seeded, OnlySelected
<1> QED
  BY <1>1, AlwaysInductive, PTL

\* The saved document shows each row that was finished when it was saved, of
\* whatever run and selection (jobs.run_job, jobs._write_partial).
THEOREM SavedAlwaysShowsFinished == Spec => []SavedShowsFinished
<1>1. Inductive => SavedShowsFinished
  BY DEF Inductive
<1> QED
  BY <1>1, AlwaysInductive, PTL

=============================================================================
