----------------------------- MODULE JobPromise -----------------------------
(***************************************************************************)
(* What a translation job promises its user, with no workers, batches,     *)
(* retries, crashes or resumes in it: a book whose segments are delivered  *)
(* a few at a time, some for good (they are settled), some flagged for a   *)
(* later run to replace; and a job that may be called closed only when     *)
(* every segment shows a text, and that delivers nothing while closed.     *)
(***************************************************************************)
CONSTANTS
  Seg,       \* the segments of the book
  Text,      \* what a segment may show once delivered
  NoText,    \* what a segment shows before
  Good       \* the texts that settle a segment

VARIABLES
  book,      \* the text each segment shows
  settled,   \* the segments delivered for good
  closed     \* whether the job is called complete

promiseVars == <<book, settled, closed>>

PromiseInit ==
  /\ book = [s \in Seg |-> NoText]
  /\ settled = {}
  /\ closed = FALSE

Changed == {s \in Seg : book'[s] # book[s]}

\* Some unsettled segments get a new text; the good ones are settled by it.
Deliver ==
  /\ ~closed
  /\ book' \in [Seg -> Text \cup {NoText}]
  /\ Changed # {}
  /\ \A s \in Changed : s \notin settled /\ book'[s] \in Text
  /\ settled' = settled \cup {s \in Changed : book'[s] \in Good}
  /\ UNCHANGED closed

Close ==
  /\ \A s \in Seg : book[s] \in Text
  /\ closed' = TRUE
  /\ UNCHANGED <<book, settled>>

Reopen ==
  /\ closed' = FALSE
  /\ UNCHANGED <<book, settled>>

PromiseNext == Deliver \/ Close \/ Reopen

PromiseSpec == PromiseInit /\ [][PromiseNext]_promiseVars

=============================================================================
