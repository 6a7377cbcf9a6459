----------------------------- MODULE JobLifecycle -----------------------------
(***************************************************************************)
(* One job from the user's side: the commands of cli.py that change it     *)
(* (translate with --chapters, --from and --dry-run, resume, review,       *)
(* export), over jobs.py, review.py, export.py and chapters.py.  jobs rm   *)
(* takes the job back to the initial state, and is left out.               *)
(*                                                                         *)
(* A run is seen from the rows: which segments it planned, and which text  *)
(* it commits for each; Orchestrator says how it comes to that text.  A    *)
(* review is another process, and may be at work while a run is under way. *)
(***************************************************************************)
EXTENDS Integers, FiniteSets

CONSTANTS
  Chapters,
  Segments,     \* the segments of the book's translatable blocks
  ChapterOf,    \* the chapter of each
  MaxCommands   \* bound: how many commands are given

ASSUME JobLifecycleAssumption ==
  /\ ChapterOf \in [Segments -> Chapters]
  /\ MaxCommands \in Nat

VARIABLES
  \* on disk
  ir,        \* the segments ir.json marks translatable
  row,       \* per segment: its status in the database, and its text
  status,    \* of the job
  saved,     \* ir.translated.json: the text each segment shows
  exported,  \* the last export: what it shows, and of which edits
  \* the run under way
  phase,     \* "none", "prepared" or "running"
  scope,     \* the segments its document marks translatable
  todo,      \* the segments it has still to commit
  memory,    \* Orchestrator.translations
  \* history
  selected,  \* the segments of the chapters ever asked for
  edited,    \* those whose last word was an edit no run was about to overwrite
  touched,   \* those reviewed while the run is under way
  promised,  \* what the finished rows said when the document was saved
  commands

disk == <<ir, row, status, saved, exported>>
past == <<selected, edited, touched, promised>>
vars == <<ir, row, status, saved, exported, phase, scope, todo, memory,
          selected, edited, touched, promised, commands>>

Absent == [status |-> "absent", text |-> "none"]
Queued == [status |-> "pending", text |-> "none"]

Untranslated == [s \in Segments |-> "source"]
NoFile == [s \in {} |-> "source"]

In(chapters) == {s \in Segments : ChapterOf[s] \in chapters}
Seeded == {s \in Segments : row[s].status # "absent"}

\* final_text is there and is not empty.
HasText(s) == row[s].text \notin {"none", "blank"}

Init ==
  /\ ir = Segments
  /\ row = [s \in Segments |-> Absent]
  /\ status = "none" /\ saved = NoFile
  /\ exported = [shows |-> NoFile, edits |-> {}]
  /\ phase = "none" /\ scope = {} /\ todo = {} /\ memory = NoFile
  /\ selected = {} /\ edited = {} /\ touched = {} /\ promised = NoFile
  /\ commands = 0

Command == commands < MaxCommands /\ commands' = commands + 1

-----------------------------------------------------------------------------
(* translate and resume *)

\* apply_selection: a selection never turns a block on.
Selection(chapters) == ir \cap In(chapters)

\* Variant: a resume takes the document as it is on disk.
WholeIr == ir

\* restrict_to_seeded, after reopen_job has loaded the IR again
ResumedScope == ir \cap Seeded

\* seed_segments, upsert_segments: rows that are there stay as they are.
Seed(segments) ==
  row' = [s \in Segments |-> IF s \in segments /\ row[s] = Absent THEN Queued ELSE row[s]]

\* prepare_job, and --from, which saves the document once more; then the
\* structure is shown, and --dry-run or a "no" ends the command here.
Translate(chapters, from) ==
  /\ phase = "none" /\ Command
  /\ scope' = Selection(chapters)
  /\ Seed(scope')
  /\ ir' = IF from THEN scope' ELSE ir
  /\ status' = IF status = "none" THEN "created" ELSE status
  /\ selected' = selected \cup In(chapters)
  /\ phase' = "prepared"
  /\ UNCHANGED <<saved, exported, todo, memory, edited, touched, promised>>

\* reopen_job and the count of what is left
Resume ==
  /\ phase = "none" /\ status # "none" /\ Command
  /\ \E s \in Segments : row[s].status \in {"pending", "translating"}
  /\ scope' = ResumedScope
  /\ phase' = "prepared"
  /\ UNCHANGED <<disk, todo, memory, past>>

DryRun ==
  /\ phase = "prepared"
  /\ phase' = "none" /\ scope' = {}
  /\ UNCHANGED <<disk, todo, memory, past, commands>>

\* Variant: only what this run may translate is looked up.
DoneInScope == {s \in scope : row[s].status = "done" /\ HasText(s)}

\* Variant: a finished row is one with a score.
DoneWithScore == {s \in Segments : row[s].status = "done" /\ row[s].text = "good"}

\* Orchestrator._already_done: a finished row without text is not.
AlreadyDone == {s \in Segments : row[s].status = "done" /\ HasText(s)}

\* run_job up to the first batch
StartRun ==
  /\ phase = "prepared"
  /\ phase' = "running"
  /\ status' = "translating"
  /\ todo' = scope \ AlreadyDone
  /\ memory' = [s \in AlreadyDone |-> row[s].text]
  /\ touched' = {}
  /\ UNCHANGED <<ir, row, saved, exported, scope, selected, edited, promised, commands>>

\* _process_batch takes the segment up.
Begin(s) ==
  /\ phase = "running" /\ s \in todo /\ row[s].status # "translating"
  /\ row' = [row EXCEPT ![s].status = "translating"]
  /\ UNCHANGED <<ir, status, saved, exported, phase, scope, todo, memory, past, commands>>

\* _finish_batch: a text that passed, a flagged one, or the source text.
Commit(s, text) ==
  /\ phase = "running" /\ s \in todo
  /\ row' = [row EXCEPT ![s] =
               [status |-> IF text = "good" THEN "done" ELSE "review", text |-> text]]
  /\ memory' = [t \in DOMAIN memory \cup {s} |-> IF t = s THEN text ELSE memory[t]]
  /\ todo' = todo \ {s}
  /\ UNCHANGED <<ir, status, saved, exported, phase, scope, past, commands>>

-----------------------------------------------------------------------------
(* The end of a run *)

\* build_translated_document
Build == [s \in Segments |-> IF s \in DOMAIN memory THEN memory[s] ELSE "source"]

Save ==
  /\ saved' = Build
  /\ promised' = [s \in {s \in Segments : row[s].status = "done" /\ HasText(s)} \ touched
                    |-> row[s].text]

NoRun == phase' = "none" /\ scope' = {} /\ todo' = {} /\ memory' = NoFile

\* Rows left 'translating' are not counted among what remains.
Remaining == {s \in Segments : row[s].status = "pending"}

Finished ==
  /\ phase = "running" /\ todo = {}
  /\ Save
  /\ status' = IF Remaining = {} THEN "completed" ELSE "translating"
  /\ NoRun
  /\ UNCHANGED <<ir, row, exported, selected, edited, touched, commands>>

\* Ctrl-C, the budget, the breaker, or a failing endpoint
Stopped(how) ==
  /\ phase = "running"
  /\ Save
  /\ status' = how
  /\ NoRun
  /\ UNCHANGED <<ir, row, exported, selected, edited, touched, commands>>

\* The process dies, or raises what is no FolioError.  A failed run sets the
\* status and then saves, any other saves and then sets the status.
Killed ==
  /\ phase = "running"
  /\ \/ status' \in {status, "failed"} /\ UNCHANGED <<saved, promised>>
     \/ Save /\ UNCHANGED status
  /\ NoRun
  /\ UNCHANGED <<ir, row, exported, selected, edited, touched, commands>>

-----------------------------------------------------------------------------
(* review and export *)

Reviewed(s) ==
  /\ HasText(s) /\ Command
  /\ touched' = IF phase = "running" THEN touched \cup {s} ELSE touched

\* mark_accepted
Accept(s) ==
  /\ Reviewed(s)
  /\ row' = [row EXCEPT ![s].status = "done"]
  /\ UNCHANGED <<ir, status, saved, exported, phase, scope, todo, memory,
                 selected, edited, promised>>

\* record_human_edit; the editor may come back with nothing in it.
Edit(s, text) ==
  /\ Reviewed(s)
  /\ row' = [row EXCEPT ![s] = [status |-> "done", text |-> text]]
  /\ edited' = IF text = "blank" \/ (phase = "running" /\ s \in todo) THEN edited \ {s}
               ELSE edited \cup {s}
  /\ UNCHANGED <<ir, status, saved, exported, phase, scope, todo, memory, selected, promised>>

\* queue_for_retranslation keeps the text.
Requeue(s) ==
  /\ Reviewed(s)
  /\ row' = [row EXCEPT ![s].status = "pending"]
  /\ edited' = edited \ {s}
  /\ UNCHANGED <<ir, status, saved, exported, phase, scope, todo, memory, selected, promised>>

\* export_job takes the saved document, or the rows when there is none.
Export ==
  /\ Command /\ status # "none"
  /\ saved # NoFile \/ \E s \in Segments : HasText(s)
  /\ exported' = [shows |-> IF saved # NoFile THEN saved
                            ELSE [s \in Segments |-> IF HasText(s) THEN row[s].text ELSE "source"],
                  edits |-> edited]
  /\ UNCHANGED <<ir, row, status, saved, phase, scope, todo, memory, past>>

-----------------------------------------------------------------------------
Next ==
  \/ \E chapters \in SUBSET Chapters \ {{}}, from \in BOOLEAN : Translate(chapters, from)
  \/ Resume \/ DryRun \/ StartRun
  \/ \E s \in Segments :
       \/ Begin(s)
       \/ \E text \in {"good", "draft", "source"} : Commit(s, text)
       \/ Accept(s) \/ Requeue(s)
       \/ \E text \in {"human", "blank"} : Edit(s, text)
  \/ Finished \/ Killed
  \/ \E how \in {"cancelled", "failed"} : Stopped(how)
  \/ Export

Spec == Init /\ [][Next]_vars

-----------------------------------------------------------------------------
(* Properties *)

\* What a reviewer wrote stays, over runs, kills, resumes and other selections,
\* unless the reviewer takes it back or a run had planned the segment before.
EditsSurvive ==
  \A s \in edited : row[s] = [status |-> "done", text |-> "human"]

\* No run, a resume least of all, takes up a segment nobody asked for.
OnlySelected ==
  \A s \in Segments : row[s].status # "absent" \/ s \in todo => s \in selected

\* The document saved last shows every row that was finished by then, in this
\* run or another, in this selection or another.
SavedShowsFinished == \A s \in DOMAIN promised : saved[s] = promised[s]

-----------------------------------------------------------------------------
(* Claims of the documentation that the code does not keep *)

\* The IR on disk stays complete.
IrStaysComplete == ir = Segments

\* An export picks up the edits made before it.
ExportShowsEdits == \A s \in exported.edits : exported.shows[s] = "human"

=============================================================================
