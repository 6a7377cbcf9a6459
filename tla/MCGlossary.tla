----------------------------- MODULE MCGlossary -----------------------------
(***************************************************************************)
(* Instances of Glossary for TLC: a book of six blocks, three terms and    *)
(* two segments.                                                           *)
(***************************************************************************)
EXTENDS Glossary

SomeSources == {1, 2, 3}
SomeTargets == {1, 2}
SomeKinds == {"character", "other"}
SomeNames == {"character"}

Block(tokens, long, one, two, three) ==
  [tokens |-> tokens, long |-> long, count |-> <<one, two, three>>]

\* The first term is frequent only with the short block, the third is rare.
SomeBlocks ==
  <<Block(3, TRUE, 1, 0, 0), Block(1, FALSE, 1, 0, 0), Block(2, TRUE, 0, 3, 0),
    Block(5, TRUE, 1, 0, 1), Block(2, TRUE, 0, 0, 0), Block(1, TRUE, 0, 0, 0)>>

Candidate(source, target, kind) == [source |-> source, target |-> target, kind |-> kind]

SomeAnswers ==
  {{}, {Candidate(1, 1, "other"), Candidate(2, 2, "other")}, {Candidate(1, 2, "other")},
   {Candidate(3, 1, "other"), Candidate(2, 0, "other")}, {Candidate(3, 2, "character")}}

SomeSegments == <<{1}, {1, 2}>>
=============================================================================
