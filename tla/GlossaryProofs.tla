--------------------------- MODULE GlossaryProofs ---------------------------
(***************************************************************************)
(* Proofs about Glossary, for every book, every set of answers a model may *)
(* give and every number of commands: no command loses a term the file     *)
(* has, and what was paid for is in the backup when the file is not valid. *)
(*                                                                         *)
(* The argument follows a command through its phases: what it read is      *)
(* still what the file has when it comes to save, what it saves goes on    *)
(* from there, and the backup is what it saved once the editor opens.      *)
(***************************************************************************)
EXTENDS Glossary, FiniteSetTheorems, SequenceTheorems, TLAPS

TypeInv ==
  /\ file \in Seq(Terms) \cup {NoFile, Broken}
  /\ backup \in Seq(Terms) \cup {NoFile}
  /\ written \in Seq(Terms) \cup {NoFile}
  /\ rows \subseteq Terms /\ found \subseteq Candidates
  /\ glossary \in Seq(Terms) /\ draft \in Seq(Terms)
  /\ phase \in {"idle", "sample", "save", "backup", "edit", "upsert", "translate"}

\* The terms of "long" begin with those of "short" and add other sources.
GoesOn(short, long) ==
  /\ Len(long) >= Len(short)
  /\ \A i \in DOMAIN short : long[i] = short[i]
  /\ \A i \in DOMAIN long \ DOMAIN short : long[i].source \notin SourcesOf(short)

\* Where a command that writes has come to
Saving ==
  /\ phase = "sample" /\ Is(file) => glossary = file
  /\ phase = "save" /\ Is(file) => GoesOn(file, draft)
  /\ phase = "backup" => file = written
  /\ phase = "edit" => backup = written
  /\ file = Broken => backup = written /\ phase \in {"idle", "upsert"}

Inv == TypeInv /\ Saving

-----------------------------------------------------------------------------
\* Terms in order are a sequence of them.
LEMMA RankedIsSeq ==
  ASSUME NEW terms \in SUBSET Terms, NEW seq \in Ranked(terms)
  PROVE  /\ seq \in Seq(Terms)
         /\ \A i \in DOMAIN seq : seq[i] \in terms
<1>1. IsFiniteSet(terms)
  BY FS_Subset, GlossaryAssumption
<1>2. Cardinality(terms) \in Nat
  BY <1>1, FS_CardinalityType
<1>3. seq \in [1..Cardinality(terms) -> terms]
  BY DEF Ranked
<1> QED
  BY <1>2, <1>3

\* What build_glossary keeps are terms that the glossary does not have.
LEMMA KeptIsNew ==
  ASSUME found \subseteq Candidates
  PROVE  Kept \subseteq {t \in Terms : t.source \notin SourcesOf(glossary)}
<1> DEFINE term(c) == [source |-> c.source, target |-> c.target, kind |-> c.kind, locked |-> FALSE,
                       occurrences |-> Occurrences(c.source)]
<1>1. ASSUME NEW c \in Candidates
      PROVE  term(c) \in Terms
  BY DEF Terms, Candidates
<1> HIDE DEF term
<1>2. Kept \subseteq {t \in {term(c) : c \in found} : t.source \notin SourcesOf(glossary)}
  BY Zenon DEF Kept, term
<1> QED
  BY <1>1, <1>2

\* Terms with other sources put at the end go on from what is there.
LEMMA MergedGoesOn ==
  ASSUME NEW old \in Seq(Terms), NEW new \in Seq(Terms),
         \A i \in DOMAIN new : new[i].source \notin SourcesOf(old)
  PROVE  Merged(old, new) \in Seq(Terms) /\ GoesOn(old, Merged(old, new))
<1> DEFINE all == old \o new
<1>1. /\ all \in Seq(Terms) /\ Len(all) = Len(old) + Len(new)
      /\ \A i \in 1..Len(old) + Len(new) :
           all[i] = IF i <= Len(old) THEN old[i] ELSE new[i - Len(old)]
  BY ConcatProperties
<1>2. /\ DOMAIN old = 1..Len(old) /\ DOMAIN new = 1..Len(new) /\ DOMAIN all = 1..Len(all)
      /\ Len(old) \in Nat /\ Len(new) \in Nat
  BY <1>1
<1>3. ASSUME NEW i \in DOMAIN all \ DOMAIN old
      PROVE  all[i].source \notin SourcesOf(old)
  <2>1. i - Len(old) \in DOMAIN new /\ all[i] = new[i - Len(old)]
    BY <1>1, <1>2, <1>3
  <2> QED
    BY <2>1
<1>4. Len(all) >= Len(old) /\ \A i \in DOMAIN old : all[i] = old[i]
  BY <1>1, <1>2
<1> QED
  BY <1>1, <1>3, <1>4 DEF Merged, GoesOn

\* A glossary goes on from itself.
LEMMA GoesOnFromItself ==
  ASSUME NEW terms \in Seq(Terms)
  PROVE  GoesOn(terms, terms)
BY DEF GoesOn

\* Whatever a user does to the terms, they are terms.
LEMMA EditsAreTerms ==
  ASSUME NEW terms \in Seq(Terms)
  PROVE  Edits(terms) \subseteq Seq(Terms)
<1>1. DOMAIN terms = 1..Len(terms) /\ Len(terms) \in Nat /\ \A i \in DOMAIN terms : terms[i] \in Terms
  OBVIOUS
<1>2. ASSUME NEW i \in DOMAIN terms
      PROVE  [j \in 1..(Len(terms) - 1) |-> terms[IF j < i THEN j ELSE j + 1]] \in Seq(Terms)
  <2>1. Len(terms) - 1 \in Nat
    BY <1>1
  <2>2. \A j \in 1..(Len(terms) - 1) : terms[IF j < i THEN j ELSE j + 1] \in Terms
    BY <1>1
  <2> QED
    BY <2>1, <2>2
<1>3. ASSUME NEW i \in DOMAIN terms, NEW x \in Targets
      PROVE  [terms[i] EXCEPT !.target = x] \in Terms
  BY <1>1 DEF Terms
<1>4. ASSUME NEW i \in DOMAIN terms
      PROVE  [terms[i] EXCEPT !.locked = TRUE] \in Terms
  BY <1>1 DEF Terms
<1>5. ASSUME NEW i \in DOMAIN terms, NEW x \in Targets
      PROVE  [terms EXCEPT ![i].target = x] \in Seq(Terms)
  BY <1>1, <1>3, <1>5
<1>6. ASSUME NEW i \in DOMAIN terms
      PROVE  [terms EXCEPT ![i].locked = TRUE] \in Seq(Terms)
  BY <1>1, <1>4, <1>6
<1>7. ASSUME NEW i \in DOMAIN terms, NEW x \in Targets
      PROVE  Append(terms, [terms[i] EXCEPT !.target = x]) \in Seq(Terms)
  BY <1>3, <1>7, AppendProperties
<1> DEFINE without(i) == [j \in 1..(Len(terms) - 1) |-> terms[IF j < i THEN j ELSE j + 1]]
           rendered(i, x) == [terms EXCEPT ![i].target = x]
           lock(i) == [terms EXCEPT ![i].locked = TRUE]
           again(i, x) == Append(terms, [terms[i] EXCEPT !.target = x])
<1>8. Edits(terms) = {terms} \cup {without(i) : i \in DOMAIN terms}
                             \cup {rendered(i, x) : i \in DOMAIN terms, x \in Targets}
                             \cup {lock(i) : i \in DOMAIN terms}
                             \cup {again(i, x) : i \in DOMAIN terms, x \in Targets}
  BY DEF Edits
<1>9. \A i \in DOMAIN terms : /\ without(i) \in Seq(Terms) /\ lock(i) \in Seq(Terms)
                              /\ \A x \in Targets : rendered(i, x) \in Seq(Terms) /\ again(i, x) \in Seq(Terms)
  BY <1>2, <1>5, <1>6, <1>7
<1> HIDE DEF without, rendered, lock, again
<1> QED
  BY <1>8, <1>9

-----------------------------------------------------------------------------
LEMMA Initially == Init => Inv
BY GlossaryAssumption DEF Init, Inv, TypeInv, Saving, Is

\* A command reads the file, or the rows when there is none.
LEMMA OpenKeeps == Inv /\ Open => Inv'
<1> SUFFICES ASSUME Inv, Open PROVE Inv'
  OBVIOUS
<1> USE DEF Inv, TypeInv
<1>1. UNCHANGED stored /\ glossary' \in Loadable /\ draft' = glossary' /\ found' = {} /\ file # Broken
  BY DEF Open
<1>2. phase' \in {"translate", "sample", "save"}
  BY DEF Open
<1>3. glossary' \in Seq(Terms) /\ (Is(file) => glossary' = file)
  BY <1>1, RankedIsSeq DEF Loadable, Is
<1>4. TypeInv'
  BY <1>1, <1>2, <1>3 DEF stored
<1>5. Is(file) => GoesOn(file, glossary')
  BY <1>3, GoesOnFromItself
<1>6. Saving'
  BY <1>1, <1>2, <1>3, <1>5 DEF stored, Saving, Is, GoesOn, SourcesOf
<1> QED
  BY <1>4, <1>6

LEMMA SampleKeeps == Inv /\ Sample => Inv'
<1> SUFFICES ASSUME Inv, Sample PROVE Inv'
  OBVIOUS
<1>1. UNCHANGED <<stored, phase, glossary, draft>> /\ found' \subseteq Candidates
  BY GlossaryAssumption DEF Sample, Inv, TypeInv
<1> QED
  BY <1>1 DEF Inv, TypeInv, Saving, stored, Is, GoesOn, SourcesOf

\* What is saved goes on from what was read.
LEMMA MergeKeeps == Inv /\ Merge => Inv'
<1> SUFFICES ASSUME Inv, Merge PROVE Inv'
  OBVIOUS
<1> USE DEF Inv, TypeInv
<1>1. UNCHANGED <<stored, glossary, found>> /\ phase = "sample"
  BY DEF Merge, building
<1>2. CASE phase' = "idle" /\ UNCHANGED draft
  BY <1>1, <1>2 DEF Saving, stored
<1>3. ASSUME NEW new \in Ranked(Kept), draft' = Merged(glossary, new), phase' = "save"
      PROVE  Inv'
  <2>1. Kept \subseteq Terms /\ \A t \in Kept : t.source \notin SourcesOf(glossary)
    BY KeptIsNew
  <2>2. new \in Seq(Terms) /\ \A i \in DOMAIN new : new[i] \in Kept
    BY <2>1, RankedIsSeq
  <2>3. draft' \in Seq(Terms) /\ GoesOn(glossary, draft')
    BY <1>3, <2>1, <2>2, MergedGoesOn
  <2>4. TypeInv'
    BY <1>1, <1>3, <2>3 DEF stored
  <2>5. Saving'
    BY <1>1, <1>3, <2>3 DEF Saving, stored, Is, GoesOn, SourcesOf
  <2> QED
    BY <2>4, <2>5
<1> QED
  BY <1>2, <1>3 DEF Merge

\* The file, the backup and the rows are written in this order.
LEMMA SaveKeeps == Inv /\ Save => Inv'
BY GlossaryAssumption DEF Inv, TypeInv, Saving, Save, building, Is

LEMMA BackupKeeps == Inv /\ Backup => Inv'
BY GlossaryAssumption DEF Inv, TypeInv, Saving, Backup, BackupOf, building, Is

LEMMA EditKeeps == Inv /\ Edit => Inv'
<1> SUFFICES ASSUME Inv, Edit PROVE Inv'
  OBVIOUS
<1>1. file' \in Seq(Terms) \cup {Broken}
  BY EditsAreTerms DEF Inv, TypeInv, Edit
<1> QED
  BY <1>1, GlossaryAssumption DEF Inv, TypeInv, Saving, Edit, building, Is

LEMMA UpsertKeeps == Inv /\ Upsert => Inv'
<1> SUFFICES ASSUME Inv, Upsert PROVE Inv'
  OBVIOUS
<1>1. rows' \subseteq Terms
  BY DEF Inv, TypeInv, Upsert, Upserted
<1> QED
  BY <1>1 DEF Inv, TypeInv, Saving, Upsert, building, Is

\* A kill leaves the file as it was, or without terms.
LEMMA KillKeeps == Inv /\ Kill => Inv'
<1> SUFFICES ASSUME Inv, Kill PROVE Inv'
  OBVIOUS
<1>1. <<>> \in Seq(Terms) /\ Broken \notin Seq(Terms)
  BY EmptySeq, GlossaryAssumption
<1>2. UNCHANGED <<rows, written, glossary, draft, found>> /\ phase # "idle" /\ phase' = "idle"
  BY DEF Kill, building
<1>3. CASE UNCHANGED <<file, backup>>
  BY <1>2, <1>3 DEF Inv, TypeInv, Saving
<1>4. CASE phase = "save" /\ file' = <<>> /\ UNCHANGED backup
  BY <1>1, <1>2, <1>4 DEF Inv, TypeInv, Saving
<1>5. CASE phase = "backup" /\ backup' = <<>> /\ UNCHANGED file
  BY <1>1, <1>2, <1>5 DEF Inv, TypeInv, Saving
<1> QED
  BY <1>3, <1>4, <1>5 DEF Kill

LEMMA RemedyKeeps == Inv /\ Remedy => Inv'
BY GlossaryAssumption DEF Inv, TypeInv, Saving, Remedy, building, Is

LEMMA TranslateKeeps == Inv /\ Translate => Inv'
BY DEF Inv, TypeInv, Saving, Translate, building, stored, Is

LEMMA NextKeeps == Inv /\ [Next]_vars => Inv'
<1> SUFFICES ASSUME Inv, [Next]_vars PROVE Inv'
  OBVIOUS
<1>1. CASE Next
  BY <1>1, OpenKeeps, SampleKeeps, MergeKeeps, SaveKeeps, BackupKeeps, EditKeeps, UpsertKeeps,
     KillKeeps, RemedyKeeps, TranslateKeeps DEF Next
<1>2. CASE UNCHANGED vars
  BY <1>2 DEF vars, stored, building, Inv, TypeInv, Saving, Is, GoesOn, SourcesOf
<1> QED
  BY <1>1, <1>2

\* In every state the file, the backup and the rows are glossaries, and a
\* command that writes has read what it goes on from.
THEOREM InvHolds == Spec => []Inv
<1>1. Inv /\ [Next]_vars => Inv'
  BY NextKeeps
<1> QED
  BY Initially, <1>1, PTL DEF Spec

\* A file that is not valid has a backup of what was saved last.
THEOREM BackupHolds == Spec => []NothingLostToASlip
<1>1. Inv => NothingLostToASlip
  BY DEF Inv, Saving, NothingLostToASlip
<1> QED
  BY InvHolds, <1>1, PTL

\* What is saved is longer than what it goes on from, if it is something else.
LEMMA LongerWhenOther ==
  ASSUME NEW short \in Seq(Terms), NEW long \in Seq(Terms), GoesOn(short, long), long # short
  PROVE  Len(long) > Len(short)
<1>1. Len(short) \in Nat /\ Len(long) \in Nat /\ DOMAIN short = 1..Len(short)
  OBVIOUS
<1>2. CASE Len(long) = Len(short)
  BY <1>1, <1>2, SeqEqual DEF GoesOn
<1> QED
  BY <1>1, <1>2 DEF GoesOn

\* No command takes a term out of the file or changes one, and what it adds has
\* other sources; only the editor, and a kill in the midst of saving, does.
THEOREM TermsAreKept == Spec => TermsKept
<1> DEFINE Kept1 ==
      Is(file) /\ phase \notin {"idle", "edit"} /\ file' # file =>
        \/ phase = "save" /\ phase' = "idle"
        \/ /\ Len(file') > Len(file)
           /\ \A i \in DOMAIN file : file'[i] = file[i]
           /\ \A i \in DOMAIN file' \ DOMAIN file : file'[i].source \notin SourcesOf(file)
<1>1. Inv /\ [Next]_vars => [Kept1]_vars
  <2> SUFFICES ASSUME Inv, Next, Is(file), phase \notin {"idle", "edit"}, file' # file,
                      ~(phase = "save" /\ phase' = "idle")
               PROVE  /\ Len(file') > Len(file)
                      /\ \A i \in DOMAIN file : file'[i] = file[i]
                      /\ \A i \in DOMAIN file' \ DOMAIN file : file'[i].source \notin SourcesOf(file)
    OBVIOUS
  <2>1. Save
    BY DEF Next, Open, Sample, Merge, Backup, Edit, Upsert, Kill, Remedy, Translate, stored
  <2>2. file' = draft /\ GoesOn(file, draft)
    BY <2>1 DEF Save, Inv, Saving
  <2>3. file \in Seq(Terms) /\ draft \in Seq(Terms)
    BY DEF Inv, TypeInv, Is
  <2> QED
    BY <2>2, <2>3, LongerWhenOther DEF GoesOn
<1> QED
  BY InvHolds, <1>1, PTL DEF Spec, TermsKept

-----------------------------------------------------------------------------
(* The warnings of translation and the audit *)

\* What check_glossary kept of a segment is what it would find there now: the
\* terms it looked for that are in the segment and not in its translation.
Warned ==
  /\ DOMAIN checked = DOMAIN texts /\ DOMAIN texts \subseteq DOMAIN Segments
  /\ \A s \in DOMAIN texts : \A t \in checked[s].terms :
       t \in checked[s].missed <=> OccursIn(t, s) /\ ~FormPresent(t, texts[s])

\* A segment is checked as it is translated, and those before stay as they were.
LEMMA TranslateWarns == Warned /\ Translate => Warned'
<1> SUFFICES ASSUME Warned, Translate PROVE Warned'
  OBVIOUS
<1>1. PICK segment \in DOMAIN Segments \ DOMAIN texts :
      \E text \in SUBSET {glossary[i].target : i \in ForText(segment)} :
        /\ texts' = [s \in DOMAIN texts \cup {segment} |-> IF s = segment THEN text ELSE texts[s]]
        /\ checked' = [s \in DOMAIN texts' |->
             IF s = segment THEN [terms |-> {glossary[i] : i \in DOMAIN glossary},
                                  missed |-> Missing(segment, text)]
             ELSE checked[s]]
  BY DEF Translate
<1>2. PICK text :
        /\ texts' = [s \in DOMAIN texts \cup {segment} |-> IF s = segment THEN text ELSE texts[s]]
        /\ checked' = [s \in DOMAIN texts' |->
             IF s = segment THEN [terms |-> {glossary[i] : i \in DOMAIN glossary},
                                  missed |-> Missing(segment, text)]
             ELSE checked[s]]
  BY <1>1
<1>3. /\ DOMAIN texts' = DOMAIN texts \cup {segment} /\ DOMAIN checked' = DOMAIN texts'
      /\ texts'[segment] = text
      /\ checked'[segment].terms = {glossary[i] : i \in DOMAIN glossary}
      /\ checked'[segment].missed = Missing(segment, text)
      /\ \A s \in DOMAIN texts : texts'[s] = texts[s] /\ checked'[s] = checked[s]
  BY <1>1, <1>2
<1>4. ASSUME NEW t \in {glossary[i] : i \in DOMAIN glossary}
      PROVE  t \in Missing(segment, text) <=> OccursIn(t, segment) /\ ~FormPresent(t, text)
  <2>1. PICK i \in DOMAIN glossary : t = glossary[i]
    BY <1>4
  <2> QED
    BY <2>1 DEF Missing
<1>5. ASSUME NEW s \in DOMAIN texts', NEW t \in checked'[s].terms
      PROVE  t \in checked'[s].missed <=> OccursIn(t, s) /\ ~FormPresent(t, texts'[s])
  <2>1. CASE s = segment
    BY <1>3, <1>4, <1>5, <2>1
  <2>2. CASE s # segment
    <3>1. s \in DOMAIN texts /\ texts'[s] = texts[s] /\ checked'[s] = checked[s]
      BY <1>3, <1>5, <2>2
    <3> QED
      BY <1>5, <3>1 DEF Warned
  <2> QED
    BY <2>1, <2>2
<1>6. DOMAIN texts' \subseteq DOMAIN Segments
  BY <1>3 DEF Warned
<1> QED
  BY <1>3, <1>5, <1>6 DEF Warned, OccursIn, FormPresent

\* Whatever becomes of the glossary afterwards, the warnings stay what they were.
THEOREM WarningsStay == Spec => []Warned
<1>1. Init => Warned
  BY DEF Init, Warned
<1>2. Warned /\ [Next]_vars => Warned'
  <2> SUFFICES ASSUME Warned, [Next]_vars, ~Translate PROVE Warned'
    BY TranslateWarns
  <2>1. UNCHANGED translated
    BY DEF Next, Open, Sample, Merge, Save, Backup, Edit, Upsert, Kill, Remedy, vars
  <2> QED
    BY <2>1 DEF Warned, translated, OccursIn, FormPresent
<1> QED
  BY <1>1, <1>2, PTL DEF Spec

\* In segments translated with a term, the rendering of the term in one is its
\* target when check_glossary found it there, and 0 when it was missed.
LEMMA RenderingIs ==
  ASSUME Warned, NEW term, NEW s \in DOMAIN Segments, OccursIn(term, s),
         s \in DOMAIN texts, term \in checked[s].terms
  PROVE  /\ FormPresent(term, texts[s]) <=> term \notin checked[s].missed
         /\ term \in checked[s].missed => term.target # 0
BY DEF Warned, FormPresent

\* glossary show --audit calls a term inconsistent exactly when translation had
\* warned of it in some of its segments and not in others.
THEOREM AuditAgrees == Spec => []AuditAgreesWithWarnings
<1>1. Warned => AuditAgreesWithWarnings
  <2> SUFFICES ASSUME Warned, NEW term \in Shown,
                      {s \in DOMAIN Segments : OccursIn(term, s)}
                        \subseteq {s \in DOMAIN texts : term \in checked[s].terms}
               PROVE  term \in Audit <=>
                        \E u, v \in {s \in DOMAIN Segments : OccursIn(term, s)} :
                          term \in checked[u].missed /\ term \notin checked[v].missed
    BY DEF AuditAgreesWithWarnings
  <2> DEFINE Having == {s \in DOMAIN Segments : OccursIn(term, s)}
             In(s) == IF s \in DOMAIN texts /\ FormPresent(term, texts[s]) THEN term.target ELSE 0
  <2>1. \A s \in Having :
          /\ s \in DOMAIN texts
          /\ In(s) = IF term \in checked[s].missed THEN 0 ELSE term.target
          /\ term \in checked[s].missed => term.target # 0
    BY RenderingIs
  <2>2. Renderings(term) = {<<In(s), s>> : s \in Having}
    BY DEF Renderings
  <2>3. term \in Audit <=> Renderings(term) # {} /\ ~Consistent(term)
    BY DEF Audit
  <2> HIDE DEF Having, In
  <2>4. Consistent(term) <=> \A u, v \in Having : In(u) = In(v)
    <3>1. ASSUME Consistent(term), NEW u \in Having, NEW v \in Having
          PROVE  In(u) = In(v)
      <4>1. <<In(u), u>> \in Renderings(term) /\ <<In(v), v>> \in Renderings(term)
        BY <2>2
      <4>2. <<In(u), u>>[1] = <<In(v), v>>[1]
        BY <3>1, <4>1 DEF Consistent
      <4> QED
        BY <4>2
    <3>2. ASSUME \A u, v \in Having : In(u) = In(v), NEW x \in Renderings(term), NEW y \in Renderings(term)
          PROVE  x[1] = y[1]
      <4>1. PICK u \in Having, v \in Having : x = <<In(u), u>> /\ y = <<In(v), v>>
        BY <2>2
      <4> QED
        BY <3>2, <4>1
    <3> QED
      BY <3>1, <3>2 DEF Consistent
  <2>5. ~Consistent(term) => Renderings(term) # {}
    BY DEF Consistent
  <2>6. ~(\A u, v \in Having : In(u) = In(v)) <=>
          \E u, v \in Having : term \in checked[u].missed /\ term \notin checked[v].missed
    BY <2>1
  <2>7. term \in Audit <=>
          \E u, v \in Having : term \in checked[u].missed /\ term \notin checked[v].missed
    BY <2>3, <2>4, <2>5, <2>6
  <2> QED
    BY <2>7 DEF Having
<1> QED
  BY <1>1, WarningsStay, PTL

=============================================================================
