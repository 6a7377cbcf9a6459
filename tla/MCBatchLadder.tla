---------------------------- MODULE MCBatchLadder ----------------------------
(***************************************************************************)
(* Instances of BatchLadder for TLC: a batch of two segments.              *)
(***************************************************************************)
EXTENDS BatchLadder

TwoIds == <<"b1", "b2">>

Ladder2 == <<2, 3>>

\* Completeness weighs 35, accuracy 30, terminology and fluency 15
\* each and formatting 5, as in the default configuration.
DefaultWeights ==
  [d \in Dimensions |-> CASE d = "completeness" -> 35 [] d = "accuracy" -> 30
                          [] d = "terminology" -> 15 [] d = "fluency" -> 15
                          [] OTHER -> 5]

Even(n) == [d \in Dimensions |-> n]

Whole2 == [elements |-> <<Paired("b1", "clean"), Paired("b2", "clean")>>,
           stray |-> "none", unclosed |-> 0, cut |-> FALSE]

\* The answers: sound; doubtful; second segment omitted; cut off in the second
\* segment; nothing in the tags; a duplicate; an invented id; swapped; one
\* declined in a self-closing tag.
Answer(elements, unclosed, cut) ==
  [Whole2 EXCEPT !.elements = elements, !.unclosed = unclosed, !.cut = cut]

CoreAnswers ==
  {Whole2,
   Answer(<<Paired("b1", "clean"), Paired("b2", "doubtful")>>, 0, FALSE),
   Answer(<<Paired("b1", "clean")>>, 0, FALSE),
   Answer(<<Paired("b1", "clean")>>, 1, TRUE),
   Answer(<<Paired("b1", "empty"), Paired("b2", "empty")>>, 0, FALSE)}

OddAnswers ==
  {Whole2,
   Answer(<<Paired("b1", "clean"), Paired("b2", "clean"), Paired("b1", "looping")>>, 0, FALSE),
   Answer(<<Paired("b1", "looping"), Paired("b1", "clean"), Paired("b2", "clean")>>, 0, FALSE),
   Answer(<<Paired("b1", "clean"), Paired("b9", "clean"), Paired("b2", "clean")>>, 0, FALSE),
   Answer(<<Paired("b2", "clean"), Paired("b1", "clean")>>, 0, FALSE),
   Answer(<<SelfClosing("b1"), Paired("b2", "clean")>>, 0, FALSE),
   Answer(<<Declined("b1"), Paired("b2", "refusal")>>, 0, FALSE)}

AllAnswers == CoreAnswers \cup OddAnswers

\* For two runs: sound, and cut off in the second segment.
CutOff == Answer(<<Paired("b1", "clean")>>, 1, TRUE)
FewAnswers == {Whole2, CutOff}

\* The replies: both pass; the first passes, the second is good but incomplete;
\* both poor, the first with a critical issue; both poor, the second as poor as
\* it was and the first worse; the second left out; unreadable.
Incomplete == [Even(95) EXCEPT !["completeness"] = 60]

BothPass == Readable("b1" :> Even(90) @@ "b2" :> Even(90), {})
BothPoor == Readable("b1" :> Even(50) @@ "b2" :> Even(50), {<<"b1", "critical">>})

AllReplies ==
  {BothPass, BothPoor,
   Readable("b1" :> Even(90) @@ "b2" :> Incomplete, {<<"b2", "major">>}),
   Readable("b1" :> Even(30) @@ "b2" :> Even(50), {}),
   Readable("b1" :> Even(0), {}),
   Unreadable}

FewReplies == {BothPoor, Unreadable}

\* Models that go wrong in every way, in one run, and models of a job that is
\* stopped and run again
SomeModels ==
  {[answers |-> AllAnswers, replies |-> AllReplies, runs |-> 1],
   [answers |-> FewAnswers, replies |-> FewReplies, runs |-> 2]}

=============================================================================
