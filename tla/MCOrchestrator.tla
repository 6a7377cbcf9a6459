--------------------------- MODULE MCOrchestrator ---------------------------
(***************************************************************************)
(* Instances of Orchestrator for TLC.                                      *)
(***************************************************************************)
EXTENDS Orchestrator

\* Two batches in the first chapter, the first with two segments, and one
\* batch in the second chapter.
QuadBatchOf == <<1, 1, 2, 3>>
QuadChapterOf == <<"c1", "c1", "c2">>

\* Three batches of one segment over two chapters.
TrioBatchOf == <<1, 2, 3>>
TrioChapterOf == <<"c1", "c1", "c2">>

\* What a judge may say: it passes a segment, scores it too low or leaves it
\* out; and what validation may leave of one.
PassOnly == {Verdict("pass", 90)}
PassOrOmit == {Verdict("pass", 90), NoVerdict("unscored")}
PassOrReject == {Verdict("pass", 90), Verdict("rejected", 60)}

Blank == {NoVerdict("blank")}
Mangled == {NoVerdict("malformed")}
Sound == {}

=============================================================================
