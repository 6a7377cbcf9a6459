------------------------------ MODULE Attempts ------------------------------
(***************************************************************************)
(* What one attempt at one segment is worth, and which attempt a segment   *)
(* keeps when the ladder is done with it (orchestrate.py, class Attempt    *)
(* and Orchestrator._best_outcome).                                        *)
(*                                                                         *)
(* An attempt is abstracted to the kind of result it is and to the         *)
(* composite score of its verdict, 0 where there is none:                  *)
(*   "pass"       judged, no finding against it, above every threshold;    *)
(*   "rejected"   judged and scored, but not passed;                       *)
(*   "unscored"   no verdict: the judge omitted the segment, or was not    *)
(*                called (sampled out, or another segment was malformed);  *)
(*   "unjudged"   the judge's answer could not be parsed, twice;           *)
(*   "malformed"  a critical validation finding, but there is text;        *)
(*   "blank"      a critical validation finding, and no text at all.       *)
(***************************************************************************)
EXTENDS Integers, Sequences

AttemptKinds ==
  {"pass", "rejected", "unscored", "unjudged", "malformed", "blank"}

\* What a segment keeps: an attempt with text, or the source as placeholder.
KeptKinds == (AttemptKinds \ {"blank"}) \cup {"source"}

Verdict(kind, composite) == [kind |-> kind, composite |-> composite]
NoVerdict(kind) == [kind |-> kind, composite |-> 0]

Placeholder == NoVerdict("source")

AttemptResults == [kind : AttemptKinds, composite : Nat]
KeptResults    == [kind : KeptKinds, composite : Nat]

\* Attempt.passed
Passed(k) == k.kind = "pass"

\* Attempt.unjudged
Unjudged(k) == k.kind = "unjudged"

HasText(k) == k.kind # "blank"

\* Attempt.score: an attempt that failed validation ranks below everything,
\* one without a score is worth 0; the placeholder is not an attempt.
Score(k) ==
  IF k.kind \in {"malformed", "blank"} THEN -1
  ELSE IF k.kind = "source" THEN -2
  ELSE k.composite

(***************************************************************************)
(* _best_outcome over the whole history of a segment: the last attempt     *)
(* that passed; else the first of the highest-scoring attempts that have   *)
(* text (Python's max keeps the first of equals); else the source text,    *)
(* as attempt number 0.                                                    *)
(***************************************************************************)
BestOutcome(history) ==
  LET N        == DOMAIN history
      passing  == {i \in N : Passed(history[i])}
      withText == {i \in N : HasText(history[i])}
  IN IF passing # {}
     THEN LET i == CHOOSE i \in passing : \A j \in passing : j <= i
          IN [result |-> history[i], no |-> i]
     ELSE IF withText # {}
     THEN LET i == CHOOSE i \in withText :
                     \A j \in withText :
                       \/ Score(history[j]) < Score(history[i])
                       \/ Score(history[j]) = Score(history[i]) /\ i <= j
          IN [result |-> history[i], no |-> i]
     ELSE [result |-> Placeholder, no |-> 0]

\* Variants of Keep: an empty answer displaces the placeholder; the last of
\* equally good attempts is kept.
KeepEvenBlank(old, k) ==
  IF Passed(k) \/ (~Passed(old) /\ Score(k) > Score(old)) THEN k ELSE old

KeepLastOfEquals(old, k) ==
  IF \/ Passed(k)
     \/ ~Passed(old) /\ HasText(k) /\ Score(k) >= Score(old)
  THEN k
  ELSE old

(***************************************************************************)
(* The same choice made one attempt at a time: what is kept once attempt k *)
(* comes after a history whose best outcome was old.  A state machine that *)
(* carries only the best outcome so far uses this form; BatchLadder checks *)
(* that the two agree.                                                     *)
(***************************************************************************)
Keep(old, k) ==
  IF \/ Passed(k)
     \/ ~Passed(old) /\ HasText(k) /\ Score(k) > Score(old)
  THEN k
  ELSE old

=============================================================================
