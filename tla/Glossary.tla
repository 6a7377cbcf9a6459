------------------------------ MODULE Glossary ------------------------------
(***************************************************************************)
(* The terms of one job: glossary.yaml, its backup and the rows of the     *)
(* store (glossary.py, glossary_build.py and the glossary commands of      *)
(* cli.py), and what translation makes of them.  A file that exists is the *)
(* glossary; else the rows are.  "glossary build" asks a model about       *)
(* passages of the book, adds to what is there, lets the user edit the     *)
(* file and stores rows; "glossary edit" is the second half of that;       *)
(* "translate" reads the terms, writes a few segments and checks them.     *)
(* A process may be killed between two steps or in the midst of a write.   *)
(*                                                                         *)
(* A source stands for a term in the book, in alphabetical order; a target *)
(* for its rendering, 0 for none; a translation is the set of renderings   *)
(* found in it, inflected or not.                                          *)
(***************************************************************************)
EXTENDS Integers, Sequences, FiniteSets

CONSTANTS
  Sources, Targets,  \* the terms of the book, and renderings of them
  Names,             \* kinds kept however rare (ALWAYS_KEEP_KINDS)
  Kinds,             \* the kinds of TermKind
  Blocks,            \* blocks with text: tokens, whether longer than 120, counts of sources
  Samples,           \* --samples
  BatchTokens,       \* translation.batch_tokens
  MinOccurrences,    \* --min-occurrences
  Answers,           \* sets of candidates a model may answer with
  Segments,          \* for each segment the sources in it
  MaxCommands,       \* bound: commands in a behaviour
  NoFile, Broken     \* there is no such file; what is in it is not valid

\* count_occurrences, in all the blocks
Occurrences(source) ==
  LET sum[n \in 0..Len(Blocks)] == IF n = 0 THEN 0 ELSE sum[n - 1] + Blocks[n].count[source]
  IN sum[Len(Blocks)]

Terms == [source : Sources, target : Targets \cup {0}, kind : Kinds, locked : BOOLEAN,
          occurrences : {Occurrences(s) : s \in Sources}]

Candidates == [source : Sources, target : Targets \cup {0}, kind : Kinds]

ASSUME GlossaryAssumption ==
  /\ Sources \subseteq Nat /\ IsFiniteSet(Terms)
  /\ Blocks \in Seq([tokens : Nat, long : BOOLEAN, count : [Sources -> Nat]])
  /\ Answers \subseteq SUBSET Candidates
  /\ NoFile # Broken /\ {NoFile, Broken} \cap Seq(Terms) = {}

VARIABLES
  file, backup,      \* glossary.yaml and glossary.yaml.bak
  rows,              \* glossary_terms
  command, phase,    \* the command that runs and the step it is at
  glossary,          \* JobContext.glossary
  passages, found, failures, \* of build_glossary
  draft,             \* the glossary that will be saved
  written,           \* what was saved last
  texts,             \* the translations of segments
  checked,           \* the terms check_glossary looked for in them, and missed
  commands           \* commands so far

building == <<passages, found, failures>>
stored == <<file, backup, rows, written>>
translated == <<texts, checked>>
vars == <<stored, command, phase, glossary, building, draft, translated, commands>>

SourcesOf(terms) == {terms[i].source : i \in DOMAIN terms}

-----------------------------------------------------------------------------
(* What is there *)

Frequent(s, t) == s.occurrences > t.occurrences \/ (s.occurrences = t.occurrences /\ s.source < t.source)

\* A set of terms with different sources, the most frequent first
Ranked(terms) ==
  {seq \in [1..Cardinality(terms) -> terms] :
     \A i, j \in DOMAIN seq : i < j => Frequent(seq[i], seq[j])}

\* prepare_job and reopen_job: the file, else the rows
Loadable == IF file = NoFile THEN Ranked(rows) ELSE {file}

\* upsert_glossary: of terms with one source the last stays; none is deleted.
Upserted(terms) ==
  {r \in rows : r.source \notin SourcesOf(terms)}
    \cup {terms[i] : i \in {j \in DOMAIN terms :
            \A k \in DOMAIN terms : terms[k].source = terms[j].source => k <= j}}

-----------------------------------------------------------------------------
(* build_glossary *)

Long == SelectSeq(Blocks, LAMBDA b : b.long)

\* The first of the long blocks from "start" on that one batch has room for
PassageFrom(start) ==
  LET tokens[n \in start - 1..Len(Long)] ==
        IF n < start THEN 0 ELSE tokens[n - 1] + Long[n].tokens
  IN {n \in start..Len(Long) : n = start \/ tokens[n] <= BatchTokens}

\* sample_passages
Stride == IF Len(Long) < Samples THEN 1 ELSE Len(Long) \div Samples

Starts == {n \in 1..Len(Long) : (n - 1) % Stride = 0 /\ (n - 1) \div Stride < Samples}

Passages == [k \in 1..Cardinality(Starts) |-> PassageFrom((k - 1) * Stride + 1)]

\* What is new: frequent or a name, with a rendering; a source the glossary has
\* is left as it is there.
Kept ==
  {t \in {[source |-> c.source, target |-> c.target, kind |-> c.kind, locked |-> FALSE,
           occurrences |-> Occurrences(c.source)] : c \in found} :
     /\ t.target # 0
     /\ t.occurrences >= MinOccurrences \/ t.kind \in Names
     /\ t.source \notin SourcesOf(glossary)}

\* Variant: what the model found goes before what the user had.
NewFirst(old, new) == new \o SelectSeq(old, LAMBDA t : t.source \notin SourcesOf(new))

Merged(old, new) == old \o new

\* A command begins; with a file that is not valid it ends at once.
Open ==
  /\ phase = "idle" /\ commands > 0 /\ file # Broken
  /\ command' \in {"build", "build --yes", "edit", "translate"}
  /\ commands' = commands - 1
  /\ glossary' \in Loadable
  /\ draft' = glossary' /\ found' = {} /\ failures' = 0
  /\ IF command' \in {"build", "build --yes"} THEN passages' = Passages ELSE passages' = <<>>
  /\ phase' = CASE command' = "translate" -> "translate"
                [] passages' # <<>> -> "sample"
                [] OTHER -> "save"
  /\ UNCHANGED <<stored, translated>>

\* One passage: the call fails, or the first candidate for each source stays.
Sample ==
  /\ phase = "sample" /\ passages # <<>>
  /\ passages' = Tail(passages)
  /\ \/ failures' = failures + 1 /\ UNCHANGED found
     \/ /\ \E answer \in Answers :
             /\ \A c \in answer : \E n \in Head(passages) : Long[n].count[c.source] > 0 \/ c.kind \in Names
             /\ found' = found \cup {c \in answer : \A d \in found : d.source # c.source}
        /\ UNCHANGED failures
  /\ UNCHANGED <<stored, command, phase, glossary, draft, translated, commands>>

\* The end of build_glossary: an error when every call has failed
Merge ==
  /\ phase = "sample" /\ passages = <<>>
  /\ IF failures = Len(Passages) THEN phase' = "idle" /\ UNCHANGED draft
     ELSE \E new \in Ranked(Kept) : draft' = Merged(glossary, new) /\ phase' = "save"
  /\ UNCHANGED <<stored, command, glossary, building, translated, commands>>

-----------------------------------------------------------------------------
(* review_glossary and the end of the commands *)

\* Glossary.save
Save ==
  /\ phase = "save"
  /\ file' = draft /\ written' = draft
  /\ phase' = IF command = "build --yes" THEN "upsert" ELSE "backup"
  /\ UNCHANGED <<backup, rows, command, glossary, building, draft, translated, commands>>

\* Variant: the backup is what was there before.
BackupOld == glossary

BackupOf == file

Backup ==
  /\ phase = "backup"
  /\ backup' = BackupOf
  /\ phase' = "edit"
  /\ UNCHANGED <<file, rows, written, command, glossary, building, draft, translated, commands>>

\* What a user may do to the terms: leave them, drop one, render it otherwise,
\* lock it, or say it twice
Edits(terms) ==
  {terms}
    \cup {[j \in 1..(Len(terms) - 1) |-> terms[IF j < i THEN j ELSE j + 1]] : i \in DOMAIN terms}
    \cup {[terms EXCEPT ![i].target = x] : i \in DOMAIN terms, x \in Targets}
    \cup {[terms EXCEPT ![i].locked = TRUE] : i \in DOMAIN terms}
    \cup {Append(terms, [terms[i] EXCEPT !.target = x]) : i \in DOMAIN terms, x \in Targets}

\* The editor is closed.  When it fails, what was built is taken, whatever it
\* has left in the file; when the file is not valid the command ends.
Edit ==
  /\ phase = "edit"
  /\ file' \in {Broken} \cup Edits(draft)
  /\ \/ draft' = file' /\ file' # Broken /\ phase' = "upsert"
     \/ file' = Broken /\ phase' = "idle" /\ UNCHANGED draft
     \/ phase' = "upsert" /\ UNCHANGED draft
  /\ UNCHANGED <<backup, rows, written, command, glossary, building, translated, commands>>

\* upsert_glossary
Upsert ==
  /\ phase = "upsert"
  /\ rows' = Upserted(draft) /\ phase' = "idle"
  /\ UNCHANGED <<file, backup, written, command, glossary, building, draft, translated, commands>>

\* The process is killed; in a write, the file is left empty, a glossary
\* without terms.
Kill ==
  /\ phase # "idle" /\ phase' = "idle"
  /\ \/ UNCHANGED <<file, backup>>
     \/ phase = "save" /\ file' = <<>> /\ UNCHANGED backup
     \/ phase = "backup" /\ backup' = <<>> /\ UNCHANGED file
  /\ UNCHANGED <<rows, written, command, glossary, building, draft, translated, commands>>

\* What the errors advise for a file that is not valid: to delete it or to
\* restore the backup
Remedy ==
  /\ phase = "idle" /\ file = Broken
  /\ file' \in {NoFile, backup}
  /\ UNCHANGED <<backup, rows, written, command, phase, glossary, building, draft, translated, commands>>

-----------------------------------------------------------------------------
(* Translation *)

\* Term.occurs_in
OccursIn(term, segment) == term.source \in Segments[segment]

\* for_text: the terms in a text, and the locked ones
ForText(segment) ==
  {i \in DOMAIN glossary : OccursIn(glossary[i], segment) \/ glossary[i].locked}

\* target_form_present
FormPresent(term, text) == term.target = 0 \/ term.target \in text

\* check_glossary
Missing(segment, text) ==
  {glossary[i] : i \in {j \in DOMAIN glossary :
     OccursIn(glossary[j], segment) /\ ~FormPresent(glossary[j], text)}}

\* Segments are translated; any of the renderings that the prompt had may have
\* been used in one.
Translate ==
  /\ phase = "translate"
  /\ \E segment \in DOMAIN Segments \ DOMAIN texts :
     \E text \in SUBSET {glossary[i].target : i \in ForText(segment)} :
       /\ texts' = [s \in DOMAIN texts \cup {segment} |-> IF s = segment THEN text ELSE texts[s]]
       /\ checked' = [s \in DOMAIN texts' |->
            IF s = segment THEN [terms |-> {glossary[i] : i \in DOMAIN glossary},
                                 missed |-> Missing(segment, text)]
            ELSE checked[s]]
  /\ phase' \in {"translate", "idle"}
  /\ UNCHANGED <<stored, command, glossary, building, draft, commands>>

\* Variant: a segment without the rendering is left out of the audit.
OnlyFound(term) ==
  {<<term.target, s>> : s \in {r \in DOMAIN Segments :
     OccursIn(term, r) /\ r \in DOMAIN texts /\ FormPresent(term, texts[r])}}

\* audit_adherence: how a term was rendered in each segment that has it; 0 when
\* it was not, or when the segment has no translation
Renderings(term) ==
  {<<IF s \in DOMAIN texts /\ FormPresent(term, texts[s]) THEN term.target ELSE 0, s>> :
     s \in {r \in DOMAIN Segments : OccursIn(term, r)}}

Consistent(term) == \A u, v \in Renderings(term) : u[1] = v[1]

\* The glossary a command shows: the file, or the rows when there is none
Shown == IF file = NoFile THEN rows ELSE {file[i] : i \in DOMAIN file}

\* glossary show --audit
Audit == {term \in Shown : Renderings(term) # {} /\ ~Consistent(term)}

-----------------------------------------------------------------------------
Init ==
  /\ file = NoFile /\ backup = NoFile /\ rows = {} /\ written = NoFile
  /\ command = "none" /\ phase = "idle" /\ glossary = <<>>
  /\ passages = <<>> /\ found = {} /\ failures = 0 /\ draft = <<>>
  /\ texts = <<>> /\ checked = <<>> /\ commands = MaxCommands

Next ==
  \/ Open \/ Sample \/ Merge \/ Save \/ Backup \/ Edit \/ Upsert \/ Kill \/ Remedy \/ Translate

Spec == Init /\ [][Next]_vars

-----------------------------------------------------------------------------
(* Properties *)

Is(f) == f # NoFile /\ f # Broken

\* Nothing but the user's editor, or a kill in the midst of a write, changes or
\* takes out a term that glossary.yaml has: what a command saves over it begins
\* with all of it, and what it adds has other sources.
TermsKept ==
  [][Is(file) /\ phase \notin {"idle", "edit"} /\ file' # file =>
       \/ phase = "save" /\ phase' = "idle"
       \/ /\ Len(file') > Len(file)
          /\ \A i \in DOMAIN file : file'[i] = file[i]
          /\ \A i \in DOMAIN file' \ DOMAIN file : file'[i].source \notin SourcesOf(file)]_vars

\* When the glossary cannot be read because of what an editor left, the backup
\* is what the last command to save it had saved, a draft just paid for included.
NothingLostToASlip == file = Broken => backup = written

\* The audit calls a term inconsistent exactly when check_glossary missed it in
\* some of its segments and found it in others, if all of them were translated
\* while the glossary had the term as it is now.
AuditAgreesWithWarnings == file # Broken =>
  LET Having(term) == {s \in DOMAIN Segments : OccursIn(term, s)}
  IN \A term \in Shown :
       Having(term) \subseteq {s \in DOMAIN texts : term \in checked[s].terms} =>
         (term \in Audit <=> \E u, v \in Having(term) : /\ term \in checked[u].missed
                                                       /\ term \notin checked[v].missed)

=============================================================================
