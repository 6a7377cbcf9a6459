------------------------------- MODULE Answers -------------------------------
(***************************************************************************)
(* What a translator's answer is taken for: the <seg> protocol (tags.py)   *)
(* and the checks with a critical finding (validate.py).                   *)
(*                                                                         *)
(* An answer is a record                                                   *)
(*   elements  the segments with a well-formed tag, as they stand in it:   *)
(*             their id, whether the tag is self-closing, whether it says  *)
(*             status="blocked", and what the body is: "clean"; "doubtful" *)
(*             (a warning is raised about it); "empty"; "refusal";         *)
(*             "looping" (repeated 5-grams, or far too long);              *)
(*   stray     what stands outside them: "none", "note" or "refusal";      *)
(*   unclosed  how many <seg openings belong to no well-formed tag;        *)
(*   cut       whether the endpoint stopped for length (finish_reason).    *)
(* An id may stand there twice, or be one that nobody asked for.           *)
(***************************************************************************)
EXTENDS Integers, Sequences, FiniteSets

Bodies == {"clean", "doubtful", "empty", "refusal", "looping"}

Paired(id, body)  == [id |-> id, closed |-> FALSE, blocked |-> FALSE, body |-> body]
Declined(id)      == [id |-> id, closed |-> FALSE, blocked |-> TRUE, body |-> "refusal"]
SelfClosing(id)   == [id |-> id, closed |-> TRUE, blocked |-> TRUE, body |-> "empty"]

IdsIn(seq) == {seq[i].id : i \in DOMAIN seq}

\* What the protocol can find in a string, whatever it says
IsAnswer(a) ==
  a \in [elements : Seq([id : IdsIn(a.elements), closed : BOOLEAN, blocked : BOOLEAN,
                         body : Bodies]),
         stray : {"none", "note", "refusal"}, unclosed : Nat, cut : BOOLEAN]

-----------------------------------------------------------------------------
(* parse_segments *)

\* Two passes over the body, so that a paired tag is met before a self-closing
\* one wherever they stand.
Before(a, i, j) ==
  IF a.elements[i].closed = a.elements[j].closed THEN i < j ELSE a.elements[j].closed

\* Where an id is met again: its first occurrence counts, a later one is a
\* duplicate.
Repeats(a) ==
  {i \in DOMAIN a.elements :
     \E j \in DOMAIN a.elements : a.elements[j].id = a.elements[i].id /\ Before(a, j, i)}

FirstOf(a, id) ==
  a.elements[CHOOSE i \in DOMAIN a.elements \ Repeats(a) : a.elements[i].id = id]

\* ParsedSegments.order says which of two ids was met first.
MetBefore(a, x, y) ==
  \E i \in DOMAIN a.elements :
    /\ a.elements[i].id = x
    /\ \A j \in DOMAIN a.elements : a.elements[j].id = y => Before(a, i, j)

\* ParsedSegments.blocked: a self-closing tag is blocked whatever it says.
Blocked(a) ==
  {id \in IdsIn(a.elements) : LET e == FirstOf(a, id) IN e.closed \/ e.blocked}

\* ParsedSegments.texts, by the ids that are its keys
Returned(a) == IdsIn(a.elements) \ Blocked(a)
BodyOf(a, id) == FirstOf(a, id).body

Duplicates(a) == {a.elements[i].id : i \in Repeats(a)}

\* Openings that no match consumed.  A self-closing duplicate is not consumed.
MalformedOpenings(a) ==
  a.unclosed + Cardinality({i \in Repeats(a) : a.elements[i].closed})

\* ParsedSegments.missing, unexpected and out_of_order
Missing(ids, a)    == {ids[i] : i \in DOMAIN ids} \ IdsIn(a.elements)
Unexpected(ids, a) == IdsIn(a.elements) \ {ids[i] : i \in DOMAIN ids}
OutOfOrder(ids, a) ==
  \E m, n \in DOMAIN ids : /\ m < n
                           /\ {ids[m], ids[n]} \subseteq IdsIn(a.elements)
                           /\ MetBefore(a, ids[n], ids[m])

-----------------------------------------------------------------------------
(* validate_batch: critical findings, about an id or about the batch *)

Batchwide == "batch"

Finding(check, about) == [check |-> check, about |-> about]
About(check, ids) == {Finding(check, id) : id \in ids}
Whole(check, holds) == IF holds THEN {Finding(check, Batchwide)} ELSE {}

\* check_segment_integrity
IntegrityFindings(ids, a) ==
  UNION {About("omitted", Missing(ids, a)),
         About("invented", Unexpected(ids, a)),
         About("duplicated", Duplicates(a)),
         Whole("out_of_order", OutOfOrder(ids, a)),
         Whole("malformed", MalformedOpenings(a) > 0)}

\* check_empty_output, check_refusal and check_degeneration
ContentFindings(a) ==
  UNION {About("empty_output", {id \in Returned(a) : BodyOf(a, id) = "empty"}),
         About("refusal", {id \in Returned(a) : BodyOf(a, id) = "refusal"}),
         About("degeneration", {id \in Returned(a) : BodyOf(a, id) = "looping"}),
         About("blocked", Blocked(a)),
         Whole("refusal", a.stray = "refusal"),
         Whole("truncation", a.cut)}

Critical(ids, a) == IntegrityFindings(ids, a) \cup ContentFindings(a)

\* The checks that only warn run on an answer without a critical finding.
Warned(ids, a) ==
  Critical(ids, a) = {} /\ \E id \in Returned(a) : BodyOf(a, id) = "doubtful"

\* _record_attempt: the findings an attempt at a segment carries
Relevant(ids, a, id) == {f \in Critical(ids, a) : f.about \in {id, Batchwide}}

\* The text an attempt at a segment carries; "empty" when there is none.
TextOf(a, id) == IF id \in Returned(a) THEN BodyOf(a, id) ELSE "empty"

=============================================================================
