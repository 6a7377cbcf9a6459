------------------------------- MODULE Verdicts -------------------------------
(***************************************************************************)
(* What a judge's reply is taken for (evaluate.py).                        *)
(*                                                                         *)
(* A reply is readable or not.  A readable one is a record                 *)
(*   scores  by segment id, a score of 0..100 in each of five dimensions,  *)
(*           for the segments the judge scored;                            *)
(*   issues  the pairs of segment id and severity it reported.             *)
(***************************************************************************)
EXTENDS Integers, FiniteSets

CONSTANTS
  Weights,            \* evaluation.weights, in percent, by dimension
  CompletenessFloor,  \* evaluation.completeness_floor
  MinScore            \* evaluation.min_score

Dimensions == {"completeness", "accuracy", "terminology", "fluency", "formatting"}

ASSUME VerdictsAssumption ==
  /\ Weights \in [Dimensions -> Nat]
  /\ CompletenessFloor \in 0..100
  /\ MinScore \in 0..100

Unreadable == [readable |-> FALSE]
Readable(scores, issues) == [readable |-> TRUE, scores |-> scores, issues |-> issues]

\* What _parse_reply can make of a string
IsReply(reply) ==
  \/ reply = Unreadable
  \/ /\ reply = Readable(reply.scores, reply.issues)
     /\ \A id \in DOMAIN reply.scores : reply.scores[id] \in [Dimensions -> 0..100]

\* SegmentScore.compute_composite, in hundredths of a point
Composite(score) ==
  score["completeness"] * Weights["completeness"] + score["accuracy"] * Weights["accuracy"]
    + score["terminology"] * Weights["terminology"] + score["fluency"] * Weights["fluency"]
    + score["formatting"] * Weights["formatting"]

Scored(reply, id) == id \in DOMAIN reply.scores

HasCriticalIssue(reply, id) == <<id, "critical">> \in reply.issues

\* Variant: the weighted mean alone decides.
PassesOnAverage(reply, id) ==
  Scored(reply, id) /\ Composite(reply.scores[id]) >= 100 * MinScore

\* decide: SegmentVerdict.passed
Passes(reply, id) ==
  /\ Scored(reply, id)
  /\ ~HasCriticalIssue(reply, id)
  /\ reply.scores[id]["completeness"] >= CompletenessFloor
  /\ Composite(reply.scores[id]) >= 100 * MinScore

\* SegmentVerdict.composite
VerdictComposite(reply, id) ==
  IF Scored(reply, id) THEN Composite(reply.scores[id]) ELSE 0

=============================================================================
