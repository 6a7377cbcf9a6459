-------------------------- MODULE BatchLadderProofs --------------------------
(***************************************************************************)
(* Proofs about BatchLadder.                                               *)
(*                                                                         *)
(* The inductive invariant IInv has three parts.  Course is about the      *)
(* attempts: what is committed for a segment is what _best_outcome finds   *)
(* in attempts that are sound, and each request follows from the attempt   *)
(* before it.  Books is about the caches: they have one response to a      *)
(* request, and what a stopped run found in them is still there.  Echo is  *)
(* about a resume: whatever an attempt of the stopped run was given out of *)
(* the caches, an attempt that asks the same is given again.               *)
(***************************************************************************)
EXTENDS BatchLadder, FiniteSetTheorems, SequenceTheorems, WellFoundedInduction, TLAPS

-----------------------------------------------------------------------------
(* Numbers and orders *)

Below == {p \in Nat \X Nat : p[1] < p[2]}

LEMMA BelowIsWellFounded == IsWellFoundedOn(Below, Nat)
<1>1. OpToRel(<, Nat) = Below
  BY DEF OpToRel, Below
<1> QED
  BY <1>1, NatLessThanWellFounded

\* Every set of numbers has a least one: what is proved by induction below is
\* proved by taking the least number for which it fails.
LEMMA LeastNumber ==
  ASSUME NEW S \in SUBSET Nat, S # {}
  PROVE  \E x \in S : \A y \in S : x <= y
<1>1. PICK x \in S : \A y \in S : <<y, x>> \notin Below
  BY BelowIsWellFounded, WFMin
<1>2. \A y \in S : ~(y < x)
  BY <1>1 DEF Below
<1> QED
  BY <1>2

LEMMA GreatestNumber ==
  ASSUME NEW n \in Nat, NEW S \in SUBSET (1..n), S # {}
  PROVE  \E x \in S : \A y \in S : y <= x
<1> DEFINE T == {n - x : x \in S}
<1>1. T \in SUBSET Nat /\ T # {}
  <2>1. \A x \in S : n - x \in Nat
    OBVIOUS
  <2>2. PICK x : x \in S
    OBVIOUS
  <2>3. n - x \in T
    BY <2>2
  <2> QED
    BY <2>1, <2>3
<1>2. PICK t \in T : \A u \in T : t <= u
  BY <1>1, LeastNumber
<1>3. PICK x \in S : t = n - x
  OBVIOUS
<1>4. \A y \in S : n - x <= n - y
  BY <1>2, <1>3
<1>5. \A y \in S : y \in Int
  OBVIOUS
<1> QED
  BY <1>4, <1>5

\* Of finitely many scores one is the highest, and the first of the highest is
\* the only one of its kind.
FirstBest(score, S, i) ==
  /\ i \in S
  /\ \A j \in S : score[j] < score[i] \/ (score[j] = score[i] /\ i <= j)

LEMMA FirstBestExists ==
  ASSUME NEW n \in Nat, NEW score, \A i \in 1..n : score[i] \in Int,
         NEW S \in SUBSET (1..n), S # {}
  PROVE  \E i \in S : FirstBest(score, S, i)
<1> DEFINE Bad == {m \in 0..n : \E R \in SUBSET (1..m) : R # {} /\ ~\E i \in R : FirstBest(score, R, i)}
<1>1. SUFFICES ASSUME Bad # {} PROVE FALSE
  <2>1. S \in SUBSET (1..n) /\ n \in 0..n
    OBVIOUS
  <2> QED
    BY <2>1
<1>2. PICK m \in Bad : \A k \in Bad : m <= k
  <2>1. Bad \in SUBSET Nat
    OBVIOUS
  <2> HIDE DEF Bad
  <2> QED
    BY <1>1, <2>1, LeastNumber
<1>3. PICK R \in SUBSET (1..m) : R # {} /\ ~\E i \in R : FirstBest(score, R, i)
  OBVIOUS
<1>4. m \in R /\ m \in 1..n
  <2>1. m \in 0..n /\ \A x \in R : x \in 1..m
    OBVIOUS
  <2>2. ASSUME m \notin R PROVE FALSE
    <3>1. PICK x \in R : TRUE
      BY <1>3
    <3>2. m # 0 /\ R \in SUBSET (1..(m - 1)) /\ m - 1 \in 0..n /\ ~(m <= m - 1)
      BY <2>1, <2>2, <3>1
    <3>3. m - 1 \in Bad
      BY <3>2, <1>3
    <3> QED
      BY <3>2, <3>3, <1>2
  <2> QED
    BY <2>1, <2>2
<1>5. R \ {m} # {}
  <2>1. SUFFICES ASSUME R = {m} PROVE FALSE
    BY <1>4
  <2>2. FirstBest(score, R, m)
    BY <2>1, <1>4 DEF FirstBest
  <2> QED
    BY <2>2, <1>3, <1>4
<1>6. PICK i \in R \ {m} : FirstBest(score, R \ {m}, i)
  <2>1. R \ {m} \in SUBSET (1..(m - 1)) /\ m - 1 \in 0..n /\ ~(m <= m - 1)
    BY <1>4
  <2>2. m - 1 \notin Bad
    BY <2>1, <1>2
  <2> QED
    BY <2>1, <2>2, <1>5
<1>7. i \in 1..n /\ i < m /\ score[i] \in Int /\ score[m] \in Int /\ \A j \in R : score[j] \in Int /\ j \in Int
  BY <1>4
<1>8. CASE score[m] > score[i]
  <2>1. FirstBest(score, R, m)
    BY <1>4, <1>6, <1>7, <1>8 DEF FirstBest
  <2> QED
    BY <2>1, <1>3, <1>4
<1>9. CASE ~(score[m] > score[i])
  <2>1. FirstBest(score, R, i)
    BY <1>4, <1>6, <1>7, <1>9 DEF FirstBest
  <2> QED
    BY <2>1, <1>3
<1> QED
  BY <1>8, <1>9

LEMMA FirstBestIsOne ==
  ASSUME NEW S \in SUBSET Int, NEW score, \A i \in S : score[i] \in Int,
         NEW i, NEW k, FirstBest(score, S, i), FirstBest(score, S, k)
  PROVE  i = k
<1>1. i \in S /\ k \in S /\ i \in Int /\ k \in Int /\ score[i] \in Int /\ score[k] \in Int
  BY DEF FirstBest
<1> QED
  BY <1>1 DEF FirstBest

-----------------------------------------------------------------------------
(* The choice of an attempt *)

PassingIn(h) == {i \in DOMAIN h : Passed(h[i])}
WithTextIn(h) == {i \in DOMAIN h : HasText(h[i])}
ScoresOf(h) == [i \in DOMAIN h |-> Score(h[i])]

LEMMA ScoreIsInt == \A k \in AttemptResults : Score(k) \in Int
BY DEF Score, AttemptResults

\* What BestOutcome's choices are: the last that passed, or the first of those
\* with text and the highest score.
LEMMA BestOutcomeIs ==
  ASSUME NEW n \in Nat, NEW h, DOMAIN h = 1..n, \A i \in 1..n : h[i] \in AttemptResults
  PROVE  /\ PassingIn(h) # {} =>
              /\ BestOutcome(h).no \in PassingIn(h)
              /\ \A j \in PassingIn(h) : j <= BestOutcome(h).no
              /\ BestOutcome(h).result = h[BestOutcome(h).no]
         /\ PassingIn(h) = {} /\ WithTextIn(h) # {} =>
              /\ FirstBest(ScoresOf(h), WithTextIn(h), BestOutcome(h).no)
              /\ BestOutcome(h).result = h[BestOutcome(h).no]
         /\ PassingIn(h) = {} /\ WithTextIn(h) = {} =>
              BestOutcome(h) = [result |-> Placeholder, no |-> 0]
<1>1. CASE PassingIn(h) # {}
  <2> DEFINE last == CHOOSE i \in PassingIn(h) : \A j \in PassingIn(h) : j <= i
  <2>1. PassingIn(h) \in SUBSET (1..n)
    BY DEF PassingIn
  <2>2. last \in PassingIn(h) /\ \A j \in PassingIn(h) : j <= last
    BY <1>1, <2>1, GreatestNumber
  <2>3. BestOutcome(h) = [result |-> h[last], no |-> last]
    BY <1>1 DEF BestOutcome, PassingIn
  <2> HIDE DEF last
  <2> QED
    BY <1>1, <2>2, <2>3
<1>2. CASE PassingIn(h) = {} /\ WithTextIn(h) # {}
  <2> DEFINE best == CHOOSE i \in WithTextIn(h) : FirstBest(ScoresOf(h), WithTextIn(h), i)
             found == CHOOSE i \in WithTextIn(h) :
                        \A j \in WithTextIn(h) :
                          \/ Score(h[j]) < Score(h[i])
                          \/ Score(h[j]) = Score(h[i]) /\ i <= j
  <2>1. WithTextIn(h) \in SUBSET (1..n) /\ \A i \in 1..n : ScoresOf(h)[i] \in Int
    BY ScoreIsInt DEF WithTextIn, ScoresOf
  <2>2. \E i \in WithTextIn(h) : FirstBest(ScoresOf(h), WithTextIn(h), i)
    BY <1>2, <2>1, FirstBestExists
  <2>3. \A i \in WithTextIn(h) :
          FirstBest(ScoresOf(h), WithTextIn(h), i) <=>
            \A j \in WithTextIn(h) :
               \/ Score(h[j]) < Score(h[i])
               \/ Score(h[j]) = Score(h[i]) /\ i <= j
    BY DEF FirstBest, ScoresOf, WithTextIn
  <2>4. found \in WithTextIn(h) /\ FirstBest(ScoresOf(h), WithTextIn(h), found)
    BY <2>2, <2>3
  <2>5. BestOutcome(h) = [result |-> h[found], no |-> found]
    BY <1>2 DEF BestOutcome, PassingIn, WithTextIn
  <2> HIDE DEF found
  <2> QED
    BY <1>2, <2>4, <2>5
<1>3. CASE PassingIn(h) = {} /\ WithTextIn(h) = {}
  BY <1>3 DEF BestOutcome, PassingIn, WithTextIn
<1> QED
  BY <1>1, <1>2, <1>3

\* The choice can be made one attempt at a time: Keep, with which the
\* orchestrator is modelled, keeps what _best_outcome finds in the whole history.
THEOREM OneAtATime ==
  ASSUME NEW n \in Nat, NEW h, DOMAIN h = 1..n, \A i \in 1..n : h[i] \in AttemptResults,
         NEW g, DOMAIN g = 1..(n + 1), \A i \in 1..n : g[i] = h[i],
         g[n + 1] \in AttemptResults
  PROVE  BestOutcome(g).result = Keep(BestOutcome(h).result, g[n + 1])
<1> DEFINE k == g[n + 1]
<1>1. /\ PassingIn(g) = PassingIn(h) \cup (IF Passed(k) THEN {n + 1} ELSE {})
      /\ WithTextIn(g) = WithTextIn(h) \cup (IF HasText(k) THEN {n + 1} ELSE {})
      /\ \A i \in 1..n : ScoresOf(g)[i] = ScoresOf(h)[i]
      /\ ScoresOf(g)[n + 1] = Score(k)
  BY DEF PassingIn, WithTextIn, ScoresOf
<1>2. /\ WithTextIn(h) \subseteq 1..n /\ PassingIn(h) \subseteq WithTextIn(h)
      /\ \A i \in 1..n : ScoresOf(h)[i] = Score(h[i])
  BY DEF PassingIn, WithTextIn, Passed, HasText, ScoresOf
<1>3. n + 1 \in Nat /\ \A i \in 1..(n + 1) : g[i] \in AttemptResults
  OBVIOUS
<1>4. CASE Passed(k)
  <2>1. PassingIn(g) # {} /\ n + 1 \in PassingIn(g) /\ PassingIn(g) \subseteq 1..(n + 1)
    BY <1>1, <1>2, <1>4
  <2>2. BestOutcome(g).no = n + 1 /\ BestOutcome(g).result = k
    BY <2>1, <1>3, BestOutcomeIs
  <2> QED
    BY <2>2, <1>4 DEF Keep
<1>5. CASE ~Passed(k) /\ PassingIn(h) # {}
  <2>1. PassingIn(g) = PassingIn(h)
    BY <1>1, <1>5
  <2>2. /\ BestOutcome(g).no \in PassingIn(h) /\ BestOutcome(g).result = g[BestOutcome(g).no]
        /\ BestOutcome(h).no \in PassingIn(h) /\ BestOutcome(h).result = h[BestOutcome(h).no]
        /\ \A j \in PassingIn(h) : j <= BestOutcome(g).no /\ j <= BestOutcome(h).no
    BY <2>1, <1>3, <1>5, BestOutcomeIs
  <2>3. BestOutcome(g).no = BestOutcome(h).no /\ BestOutcome(h).no \in 1..n
    BY <2>2, <1>2
  <2>4. BestOutcome(g).result = BestOutcome(h).result /\ Passed(BestOutcome(h).result)
    BY <2>2, <2>3 DEF PassingIn
  <2> QED
    BY <2>4, <1>5 DEF Keep
<1>6. CASE ~Passed(k) /\ PassingIn(h) = {} /\ WithTextIn(h) # {}
  <2> DEFINE b == BestOutcome(h).no
  <2>1. PassingIn(g) = {} /\ WithTextIn(g) # {} /\ WithTextIn(g) \subseteq 1..(n + 1)
    BY <1>1, <1>2, <1>6
  <2>2. FirstBest(ScoresOf(h), WithTextIn(h), b) /\ BestOutcome(h).result = h[b]
    BY <1>6, BestOutcomeIs
  <2>3. FirstBest(ScoresOf(g), WithTextIn(g), BestOutcome(g).no)
          /\ BestOutcome(g).result = g[BestOutcome(g).no]
    BY <2>1, <1>3, BestOutcomeIs
  <2>4. b \in 1..n /\ ~Passed(h[b]) /\ Score(h[b]) = ScoresOf(h)[b]
    BY <2>2, <1>2, <1>6 DEF FirstBest, PassingIn
  <2>5. \A i \in WithTextIn(g) : ScoresOf(g)[i] \in Int /\ i \in Int
    BY <2>1, <1>3, ScoreIsInt DEF ScoresOf, WithTextIn
  <2>6. ASSUME NEW i, FirstBest(ScoresOf(g), WithTextIn(g), i) PROVE BestOutcome(g).result = g[i]
    BY <2>3, <2>5, <2>6, FirstBestIsOne
  <2>7. CASE HasText(k) /\ Score(k) > Score(h[b])
    <3>1. FirstBest(ScoresOf(g), WithTextIn(g), n + 1)
      BY <1>1, <1>2, <2>2, <2>4, <2>5, <2>7 DEF FirstBest
    <3> QED
      BY <3>1, <2>2, <2>4, <2>6, <2>7 DEF Keep
  <2>8. CASE ~(HasText(k) /\ Score(k) > Score(h[b]))
    <3>1. FirstBest(ScoresOf(g), WithTextIn(g), b)
      BY <1>1, <1>2, <1>3, <2>2, <2>4, <2>5, <2>8, ScoreIsInt DEF FirstBest
    <3> QED
      BY <3>1, <1>6, <2>2, <2>4, <2>6, <2>8 DEF Keep
  <2> QED
    BY <2>7, <2>8
<1>7. CASE ~Passed(k) /\ PassingIn(h) = {} /\ WithTextIn(h) = {}
  <2>1. BestOutcome(h).result = Placeholder
    BY <1>7, BestOutcomeIs
  <2>2. PassingIn(g) = {}
    BY <1>1, <1>7
  <2>3. CASE HasText(k)
    <3>1. WithTextIn(g) = {n + 1}
      BY <1>1, <1>7, <2>3
    <3>2. BestOutcome(g).result = k
      BY <2>2, <3>1, <1>3, BestOutcomeIs DEF FirstBest
    <3> QED
      BY <2>1, <2>3, <3>2, <1>3 DEF Keep, Score, Passed, HasText, AttemptResults, AttemptKinds, Placeholder, NoVerdict
  <2>4. CASE ~HasText(k)
    <3>1. BestOutcome(g).result = Placeholder
      BY <1>1, <1>3, <1>7, <2>2, <2>4, BestOutcomeIs
    <3> QED
      BY <1>7, <2>1, <2>4, <3>1 DEF Keep
  <2> QED
    BY <2>3, <2>4
<1> QED
  BY <1>4, <1>5, <1>6, <1>7

-----------------------------------------------------------------------------
(* Answers *)

LEMMA ElementsTyped ==
  ASSUME NEW a, IsAnswer(a)
  PROVE  /\ Len(a.elements) \in Nat /\ DOMAIN a.elements = 1..Len(a.elements)
         /\ DOMAIN a.elements \subseteq Nat
         /\ \A i \in DOMAIN a.elements :
              a.elements[i].closed \in BOOLEAN /\ a.elements[i].body \in Bodies
<1> DEFINE Element == [id : IdsIn(a.elements), closed : BOOLEAN, blocked : BOOLEAN, body : Bodies]
<1>1. a.elements \in Seq(Element)
  BY DEF IsAnswer
<1>2. Len(a.elements) \in Nat /\ DOMAIN a.elements = 1..Len(a.elements)
  BY <1>1, LenProperties
<1>3. \A i \in DOMAIN a.elements : a.elements[i] \in Element
  BY <1>1, <1>2, ElementOfSeq
<1> QED
  BY <1>2, <1>3

\* Every id in an answer is met a first time.
LEMMA MetOnce ==
  ASSUME NEW a, IsAnswer(a), NEW id \in IdsIn(a.elements)
  PROVE  \E i \in DOMAIN a.elements \ Repeats(a) : a.elements[i].id = id
<1> DEFINE Here == {i \in DOMAIN a.elements : a.elements[i].id = id}
           Pairs == {i \in Here : ~a.elements[i].closed}
<1>1. DOMAIN a.elements \subseteq Nat /\ \A i \in DOMAIN a.elements : a.elements[i].closed \in BOOLEAN
  BY ElementsTyped
<1>2. Here # {} /\ Here \in SUBSET Nat /\ Pairs \in SUBSET Nat
  BY <1>1 DEF IdsIn
<1>3. CASE Pairs # {}
  <2>1. PICK i \in Pairs : \A j \in Pairs : i <= j
    BY <1>2, <1>3, LeastNumber
  <2>2. \A j \in Here : ~Before(a, j, i)
    BY <1>1, <2>1 DEF Before
  <2> QED
    BY <2>1, <2>2 DEF Repeats
<1>4. CASE Pairs = {}
  <2>1. PICK i \in Here : \A j \in Here : i <= j
    BY <1>2, LeastNumber
  <2>2. \A j \in Here : ~Before(a, j, i)
    BY <1>1, <1>4, <2>1 DEF Before
  <2> QED
    BY <2>1, <2>2 DEF Repeats
<1> QED
  BY <1>3, <1>4

LEMMA FirstIsThere ==
  ASSUME NEW a, IsAnswer(a), NEW id \in IdsIn(a.elements)
  PROVE  \E i \in DOMAIN a.elements \ Repeats(a) :
           a.elements[i].id = id /\ FirstOf(a, id) = a.elements[i]
BY MetOnce DEF FirstOf

LEMMA TextIsBody ==
  ASSUME NEW a, IsAnswer(a), NEW id
  PROVE  TextOf(a, id) \in Bodies
<1>1. CASE id \in Returned(a)
  <2>1. id \in IdsIn(a.elements)
    BY <1>1 DEF Returned
  <2>2. FirstOf(a, id).body \in Bodies
    BY <2>1, FirstIsThere, ElementsTyped
  <2> QED
    BY <1>1, <2>2 DEF TextOf, BodyOf
<1> QED
  BY <1>1 DEF TextOf, Bodies

\* The shape of what the checks of a batch find
LEMMA FindingsOf ==
  ASSUME NEW asked, NEW a, NEW id
  PROVE  /\ id \in Missing(asked, a) \cup Duplicates(a) \cup Blocked(a)
              => Relevant(asked, a, id) # {}
         /\ id \in Returned(a) /\ BodyOf(a, id) \in {"empty", "refusal", "looping"}
              => Relevant(asked, a, id) # {}
         /\ MalformedOpenings(a) > 0 \/ a.stray = "refusal" \/ a.cut => Relevant(asked, a, id) # {}
<1>1. ASSUME NEW check, Finding(check, id) \in Critical(asked, a) PROVE Relevant(asked, a, id) # {}
  BY <1>1 DEF Relevant, Finding
<1>2. ASSUME NEW check, Finding(check, Batchwide) \in Critical(asked, a)
      PROVE Relevant(asked, a, id) # {}
  BY <1>2 DEF Relevant, Finding
<1>3. ASSUME id \in Missing(asked, a) PROVE Finding("omitted", id) \in Critical(asked, a)
  BY <1>3 DEF Critical, IntegrityFindings, About
<1>4. ASSUME id \in Duplicates(a) PROVE Finding("duplicated", id) \in Critical(asked, a)
  BY <1>4 DEF Critical, IntegrityFindings, About
<1>5. ASSUME id \in Blocked(a) PROVE Finding("blocked", id) \in Critical(asked, a)
  BY <1>5 DEF Critical, ContentFindings, About
<1>6. ASSUME id \in Returned(a), BodyOf(a, id) \in {"empty", "refusal", "looping"}
      PROVE  \E check : Finding(check, id) \in Critical(asked, a)
  BY <1>6 DEF Critical, ContentFindings, About
<1>7. ASSUME MalformedOpenings(a) > 0 \/ a.stray = "refusal" \/ a.cut
      PROVE  \E check : Finding(check, Batchwide) \in Critical(asked, a)
  BY <1>7 DEF Critical, IntegrityFindings, ContentFindings, Whole
<1> QED
  BY <1>1, <1>2, <1>3, <1>4, <1>5, <1>6, <1>7

\* An answer without a finding about a segment that was asked for holds it once,
\* with text.
LEMMA UnflawedText ==
  ASSUME NEW a, IsAnswer(a), NEW asked, NEW k \in DOMAIN asked,
         Relevant(asked, a, asked[k]) = {}
  PROVE  /\ \E n \in DOMAIN a.elements :
              /\ \A m \in DOMAIN a.elements : a.elements[m].id = asked[k] <=> m = n
              /\ ~a.elements[n].closed /\ ~a.elements[n].blocked
              /\ a.elements[n].body \in {"clean", "doubtful"}
              /\ TextOf(a, asked[k]) = a.elements[n].body
         /\ a.unclosed = 0 /\ a.stray # "refusal" /\ ~a.cut
<1> DEFINE id == asked[k]
<1>1. /\ id \notin Missing(asked, a) /\ id \notin Duplicates(a) /\ id \notin Blocked(a)
      /\ ~(MalformedOpenings(a) > 0) /\ a.stray # "refusal" /\ ~a.cut
  BY FindingsOf
<1>2. id \in IdsIn(a.elements) /\ id \in Returned(a)
  BY <1>1 DEF Missing, Returned
<1>3. BodyOf(a, id) \notin {"empty", "refusal", "looping"}
  BY <1>2, FindingsOf
<1>4. PICK n \in DOMAIN a.elements \ Repeats(a) : a.elements[n].id = id /\ FirstOf(a, id) = a.elements[n]
  BY <1>2, FirstIsThere
<1>5. ~a.elements[n].closed /\ ~a.elements[n].blocked
  BY <1>1, <1>2, <1>4 DEF Blocked
<1>6. TextOf(a, id) = a.elements[n].body /\ a.elements[n].body \in {"clean", "doubtful"}
  BY <1>2, <1>3, <1>4, TextIsBody DEF TextOf, BodyOf, Bodies
<1>7. ASSUME NEW m \in DOMAIN a.elements, a.elements[m].id = id PROVE m = n
  <2>1. m \notin Repeats(a)
    BY <1>1, <1>7 DEF Duplicates
  <2>2. m \in Nat /\ n \in Nat /\ a.elements[m].closed \in BOOLEAN /\ a.elements[n].closed \in BOOLEAN
    BY <1>4, ElementsTyped
  <2> QED
    BY <2>1, <2>2, <1>4, <1>7 DEF Repeats, Before
<1>8. a.unclosed = 0
  <2>1. IsFiniteSet(DOMAIN a.elements)
    BY FS_Interval, ElementsTyped
  <2>2. Cardinality({i \in Repeats(a) : a.elements[i].closed}) \in Nat
    BY <2>1, FS_Subset, FS_CardinalityType DEF Repeats
  <2>3. a.unclosed \in Nat
    BY DEF IsAnswer
  <2> QED
    BY <1>1, <2>2, <2>3 DEF MalformedOpenings
<1> QED
  BY <1>1, <1>4, <1>5, <1>6, <1>7, <1>8

-----------------------------------------------------------------------------
(* Attempts at a batch *)

\* What any of the models may answer and reply
Offered == UNION {m.answers : m \in Models}
Replies == UNION {m.replies : m \in Models}

LEMMA Permitted ==
  ASSUME models \in Models
  PROVE  models.answers \subseteq Offered /\ models.replies \subseteq Replies
BY DEF Offered, Replies

LEMMA OfferedAre == \A a \in Offered : IsAnswer(a)
BY BatchLadderAssumption DEF Offered

LEMMA RepliesAreReplies == \A reply \in Replies : IsReply(reply)
BY BatchLadderAssumption DEF Replies

\* An attempt is judged only if its answer has no critical finding.
SoundAttempt(attempt) ==
  /\ attempt = [request |-> attempt.request, answer |-> attempt.answer,
                hint |-> attempt.hint, reply |-> attempt.reply]
  /\ IsAnswer(attempt.answer)
  /\ \/ attempt.reply = NoReply
     \/ /\ attempt.reply \in Replies
        /\ Critical(attempt.request.ids, attempt.answer) = {}

AsksFor(attempt, id) == \E k \in DOMAIN attempt.request.ids : attempt.request.ids[k] = id

IsSequence(h) == h \in Seq({h[i] : i \in DOMAIN h})

\* What _finish_batch is given for a segment
Attempted(attempts, id) ==
  /\ IsSequence(attempts) /\ attempts # <<>>
  /\ \A i \in DOMAIN attempts : SoundAttempt(attempts[i]) /\ AsksFor(attempts[i], id)

LEMMA CompositeIsNat ==
  ASSUME NEW score \in [Dimensions -> 0..100]
  PROVE  Composite(score) \in Nat
<1>1. \A m, n \in Nat : m * n \in Nat /\ m + n \in Nat
  OBVIOUS
<1>2. \A d \in Dimensions : score[d] \in Nat /\ Weights[d] \in Nat
  BY VerdictsAssumption
<1>3. \A d \in Dimensions : score[d] * Weights[d] \in Nat
  BY <1>1, <1>2
<1> QED
  BY <1>1, <1>3 DEF Composite, Dimensions

\* A reply is none, one that cannot be read or one with scores.
LEMMA RepliesAre ==
  ASSUME NEW attempt, SoundAttempt(attempt)
  PROVE  /\ attempt.reply.readable \in BOOLEAN
         /\ attempt.reply.readable => IsWithReply(attempt)
         /\ \A id : VerdictComposite(attempt.reply, id) \in Nat \/ ~attempt.reply.readable
         /\ IsWithReply(attempt) =>
              attempt.reply \in Replies /\ \A id : Findings(attempt, id) = {}
<1>1. CASE attempt.reply = NoReply
  BY <1>1 DEF NoReply, IsWithReply
<1>2. CASE attempt.reply # NoReply
  <2>1. attempt.reply \in Replies /\ Critical(attempt.request.ids, attempt.answer) = {}
    BY <1>2 DEF SoundAttempt
  <2>2. IsReply(attempt.reply)
    BY <2>1, RepliesAreReplies
  <2>3. \A id : Findings(attempt, id) = {}
    BY <2>1 DEF Findings, Relevant
  <2>4. CASE attempt.reply = Unreadable
    BY <1>2, <2>1, <2>3, <2>4 DEF Unreadable, IsWithReply
  <2>5. CASE attempt.reply # Unreadable
    <3>1. /\ attempt.reply = Readable(attempt.reply.scores, attempt.reply.issues)
          /\ \A id \in DOMAIN attempt.reply.scores : attempt.reply.scores[id] \in [Dimensions -> 0..100]
      BY <2>2, <2>5 DEF IsReply
    <3>2. attempt.reply.readable
      BY <3>1 DEF Readable
    <3>3. \A id : VerdictComposite(attempt.reply, id) \in Nat
      BY <3>1, CompositeIsNat DEF VerdictComposite, Scored
    <3> QED
      BY <1>2, <2>1, <2>3, <3>2, <3>3 DEF IsWithReply
  <2> QED
    BY <2>4, <2>5
<1> QED
  BY <1>1, <1>2

LEMMA ScoreOfAttempt ==
  ASSUME NEW attempt, SoundAttempt(attempt), NEW id
  PROVE  AttemptScore(attempt, id) \in Int
BY RepliesAre DEF AttemptScore

\* What passes was read, scored and holds the segment.
LEMMA PassedHasText ==
  ASSUME NEW attempt, SoundAttempt(attempt), NEW id, AsksFor(attempt, id)
  PROVE  /\ AttemptText(attempt, id) \in Bodies
         /\ Findings(attempt, id) = {} => AttemptText(attempt, id) \in {"clean", "doubtful"}
BY UnflawedText, TextIsBody DEF AsksFor, Findings, AttemptText, SoundAttempt

PassingAttempts(attempts, id) == {i \in DOMAIN attempts : AttemptPassed(attempts[i], id)}
AttemptsWithText(attempts, id) == {i \in DOMAIN attempts : AttemptText(attempts[i], id) # "empty"}
AttemptScores(attempts, id) == [i \in DOMAIN attempts |-> AttemptScore(attempts[i], id)]

LEMMA BestAttemptIs ==
  ASSUME NEW id, NEW attempts, Attempted(attempts, id)
  PROVE  /\ PassingAttempts(attempts, id) # {} =>
              /\ BestAttempt(attempts, id) \in PassingAttempts(attempts, id)
              /\ \A j \in PassingAttempts(attempts, id) : j <= BestAttempt(attempts, id)
         /\ PassingAttempts(attempts, id) = {} /\ AttemptsWithText(attempts, id) # {} =>
              FirstBest(AttemptScores(attempts, id), AttemptsWithText(attempts, id),
                        BestAttempt(attempts, id))
         /\ PassingAttempts(attempts, id) = {} /\ AttemptsWithText(attempts, id) = {} =>
              BestAttempt(attempts, id) = 0
<1> DEFINE n == Len(attempts)
           passing == PassingAttempts(attempts, id)
           withText == AttemptsWithText(attempts, id)
           scores == AttemptScores(attempts, id)
<1>1. n \in Nat /\ DOMAIN attempts = 1..n
  BY LenProperties DEF Attempted, IsSequence
<1>2. passing \in SUBSET (1..n) /\ withText \in SUBSET (1..n)
  BY <1>1 DEF PassingAttempts, AttemptsWithText
<1>3. CASE passing # {}
  <2> DEFINE last == CHOOSE i \in passing : \A j \in passing : j <= i
  <2>1. last \in passing /\ \A j \in passing : j <= last
    BY <1>1, <1>2, <1>3, GreatestNumber
  <2>2. BestAttempt(attempts, id) = last
    BY <1>3 DEF BestAttempt, PassingAttempts
  <2> HIDE DEF last
  <2> QED
    BY <1>3, <2>1, <2>2
<1>4. CASE passing = {} /\ withText # {}
  <2> DEFINE found == CHOOSE i \in withText :
                        \A j \in withText :
                          \/ AttemptScore(attempts[j], id) < AttemptScore(attempts[i], id)
                          \/ AttemptScore(attempts[j], id) = AttemptScore(attempts[i], id) /\ i <= j
  <2>1. \A i \in 1..n : scores[i] \in Int
    BY <1>1, ScoreOfAttempt DEF Attempted, AttemptScores
  <2>2. \E i \in withText : FirstBest(scores, withText, i)
    BY <1>1, <1>2, <1>4, <2>1, FirstBestExists
  <2>3. \A i \in withText :
          FirstBest(scores, withText, i) <=>
            \A j \in withText :
               \/ AttemptScore(attempts[j], id) < AttemptScore(attempts[i], id)
               \/ AttemptScore(attempts[j], id) = AttemptScore(attempts[i], id) /\ i <= j
    BY DEF FirstBest, AttemptScores, AttemptsWithText
  <2>4. found \in withText /\ FirstBest(scores, withText, found)
    BY <2>2, <2>3
  <2>5. BestAttempt(attempts, id) = found
    BY <1>4 DEF BestAttempt, PassingAttempts, AttemptsWithText
  <2> HIDE DEF found
  <2> QED
    BY <1>4, <2>4, <2>5
<1>5. CASE passing = {} /\ withText = {}
  BY <1>5 DEF BestAttempt, PassingAttempts, AttemptsWithText
<1> QED
  BY <1>3, <1>4, <1>5

-----------------------------------------------------------------------------
(* What is committed for a segment *)

Committed(id) ==
  \/ outcome[id] = Unfinished
  \/ /\ Attempted(outcome[id].attempts, id)
     /\ outcome[id] = OutcomeOf(outcome[id].attempts, id)

LEMMA OutcomeIs ==
  ASSUME NEW id, NEW attempts, Attempted(attempts, id)
  PROVE  /\ BestAttempt(attempts, id) \in DOMAIN attempts \cup {0} /\ 0 \notin DOMAIN attempts
         /\ OutcomeOf(attempts, id).attempts = attempts
         /\ OutcomeOf(attempts, id).status \in {"done", "review"}
         /\ BestAttempt(attempts, id) = 0 =>
              OutcomeOf(attempts, id).status = "review" /\ OutcomeOf(attempts, id).text = "source"
         /\ BestAttempt(attempts, id) # 0 =>
              /\ OutcomeOf(attempts, id).text = AttemptText(attempts[BestAttempt(attempts, id)], id)
              /\ OutcomeOf(attempts, id).status = "done"
                   <=> AttemptPassed(attempts[BestAttempt(attempts, id)], id)
<1>1. DOMAIN attempts = 1..Len(attempts) /\ 0 \notin DOMAIN attempts
  BY LenProperties DEF Attempted, IsSequence
<1>2. BestAttempt(attempts, id) \in DOMAIN attempts \cup {0}
  BY BestAttemptIs DEF PassingAttempts, AttemptsWithText, FirstBest
<1>3. CASE BestAttempt(attempts, id) = 0
  BY <1>1, <1>2, <1>3 DEF OutcomeOf, Source
<1>4. CASE BestAttempt(attempts, id) # 0
  BY <1>1, <1>2, <1>4 DEF OutcomeOf
<1> QED
  BY <1>3, <1>4

\* The same of what is on disk
BestOf(id) == BestAttempt(outcome[id].attempts, id)

LEMMA CommittedIs ==
  ASSUME NEW id, Committed(id), outcome[id].status # "pending"
  PROVE  /\ Attempted(outcome[id].attempts, id)
         /\ outcome[id].status \in {"done", "review"}
         /\ \/ BestOf(id) = 0 /\ outcome[id].status = "review" /\ outcome[id].text = "source"
            \/ /\ BestOf(id) \in DOMAIN outcome[id].attempts
               /\ outcome[id].text = AttemptText(outcome[id].attempts[BestOf(id)], id)
               /\ outcome[id].status = "done" <=> AttemptPassed(outcome[id].attempts[BestOf(id)], id)
<1>1. Attempted(outcome[id].attempts, id) /\ outcome[id] = OutcomeOf(outcome[id].attempts, id)
  BY DEF Committed, Unfinished
<1> QED
  BY <1>1, OutcomeIs DEF BestOf

LEMMA CommittedIsSound == (\A id \in Members : Committed(id)) => DoneIsSound
<1> SUFFICES ASSUME NEW id \in Members, Committed(id), outcome[id].status = "done"
             PROVE  \E i \in DOMAIN outcome[id].attempts :
                      LET a == outcome[id].attempts[i].answer
                          reply == outcome[id].attempts[i].reply
                      IN /\ \E n \in DOMAIN a.elements :
                              /\ \A m \in DOMAIN a.elements : a.elements[m].id = id <=> m = n
                              /\ ~a.elements[n].closed /\ ~a.elements[n].blocked
                              /\ a.elements[n].body \in {"clean", "doubtful"}
                              /\ outcome[id].text = a.elements[n].body
                         /\ a.unclosed = 0 /\ a.stray # "refusal" /\ ~a.cut
                         /\ reply.readable /\ Scored(reply, id)
                         /\ reply.scores[id]["completeness"] >= CompletenessFloor
                         /\ <<id, "critical">> \notin reply.issues
  BY DEF DoneIsSound
<1> DEFINE attempts == outcome[id].attempts
           best == BestOf(id)
           a == attempts[best].answer
<1>1. /\ Attempted(attempts, id) /\ best \in DOMAIN attempts /\ AttemptPassed(attempts[best], id)
      /\ outcome[id].text = AttemptText(attempts[best], id)
  BY CommittedIs
<1>2. SoundAttempt(attempts[best]) /\ AsksFor(attempts[best], id)
  BY <1>1 DEF Attempted
<1>3. IsAnswer(a) /\ Relevant(attempts[best].request.ids, a, id) = {}
  BY <1>1, <1>2 DEF SoundAttempt, AttemptPassed, Findings
<1>4. PICK k \in DOMAIN attempts[best].request.ids : attempts[best].request.ids[k] = id
  BY <1>2 DEF AsksFor
<1>5. /\ \E n \in DOMAIN a.elements :
           /\ \A m \in DOMAIN a.elements : a.elements[m].id = id <=> m = n
           /\ ~a.elements[n].closed /\ ~a.elements[n].blocked
           /\ a.elements[n].body \in {"clean", "doubtful"}
           /\ TextOf(a, id) = a.elements[n].body
      /\ a.unclosed = 0 /\ a.stray # "refusal" /\ ~a.cut
  <2> DEFINE asked == attempts[best].request.ids
  <2>1. IsAnswer(a) /\ k \in DOMAIN asked /\ asked[k] = id /\ Relevant(asked, a, asked[k]) = {}
    BY <1>3, <1>4
  <2> HIDE DEF asked, a
  <2>2. /\ \E n \in DOMAIN a.elements :
             /\ \A m \in DOMAIN a.elements : a.elements[m].id = asked[k] <=> m = n
             /\ ~a.elements[n].closed /\ ~a.elements[n].blocked
             /\ a.elements[n].body \in {"clean", "doubtful"}
             /\ TextOf(a, asked[k]) = a.elements[n].body
        /\ a.unclosed = 0 /\ a.stray # "refusal" /\ ~a.cut
    BY <2>1, UnflawedText
  <2> QED
    BY <2>1, <2>2
<1>6. /\ attempts[best].reply.readable /\ Scored(attempts[best].reply, id)
      /\ attempts[best].reply.scores[id]["completeness"] >= CompletenessFloor
      /\ <<id, "critical">> \notin attempts[best].reply.issues
  BY <1>1 DEF AttemptPassed, Passes, HasCriticalIssue
<1>7. outcome[id].text = TextOf(a, id)
  BY <1>1 DEF AttemptText
<1> HIDE DEF best
<1> QED
  BY <1>1, <1>5, <1>6, <1>7

LEMMA CommittedHasNoGap == (\A id \in Members : Committed(id)) => NoGap
<1> SUFFICES ASSUME NEW id \in Members, Committed(id), outcome[id].status = "review"
             PROVE  LET attempts == outcome[id].attempts
                        returned == {TextOf(attempts[i].answer, id) : i \in DOMAIN attempts} \ {"empty"}
                    IN IF returned = {} THEN outcome[id].text = "source" ELSE outcome[id].text \in returned
  BY DEF NoGap
<1> DEFINE attempts == outcome[id].attempts
           best == BestOf(id)
           withText == AttemptsWithText(attempts, id)
           returned == {TextOf(attempts[i].answer, id) : i \in DOMAIN attempts} \ {"empty"}
<1>1. /\ Attempted(attempts, id)
      /\ \/ best = 0 /\ outcome[id].text = "source"
         \/ /\ best \in DOMAIN attempts /\ ~AttemptPassed(attempts[best], id)
            /\ outcome[id].text = AttemptText(attempts[best], id)
  BY CommittedIs
<1>2. returned = {} <=> withText = {}
  BY DEF AttemptsWithText, AttemptText
<1>3. 0 \notin DOMAIN attempts
  BY <1>1, LenProperties DEF Attempted, IsSequence
<1>4. PassingAttempts(attempts, id) = {}
  BY <1>1, <1>3, BestAttemptIs DEF PassingAttempts, BestOf
<1>5. CASE withText = {}
  <2>1. best = 0
    BY <1>1, <1>4, <1>5, BestAttemptIs DEF BestOf
  <2> QED
    BY <1>1, <1>2, <1>3, <1>5, <2>1
<1>6. CASE withText # {}
  <2>1. best \in withText
    BY <1>1, <1>4, <1>6, BestAttemptIs DEF FirstBest, BestOf
  <2>2. outcome[id].text = AttemptText(attempts[best], id)
    BY <1>1, <1>3, <2>1 DEF AttemptsWithText
  <2>3. outcome[id].text \in returned
    BY <2>1, <2>2 DEF AttemptsWithText, AttemptText
  <2> QED
    BY <2>3
<1> QED
  BY <1>5, <1>6

-----------------------------------------------------------------------------
(* The inductive invariant *)

\* What attempt n asks for is determined by the attempt before it.
NextRequest(attempt, n) ==
  [ids |-> attempt.request.ids, context |-> attempt.request.context,
   retry |-> RetryContext(attempt), model |-> ModelFor(n),
   temperature |-> TemperatureFor(n),
   widen |-> IF attempt.answer.cut THEN attempt.request.widen + 1 ELSE attempt.request.widen]

Chain(h) ==
  /\ IsSequence(h)
  /\ \A i \in DOMAIN h : SoundAttempt(h[i])
  /\ \A i \in DOMAIN h : i > 1 => h[i].request = NextRequest(h[i - 1], i)

\* The attempts of the run that was stopped
AttemptsOf(entries) == [i \in DOMAIN entries |-> entries[i].attempt]

StoppedRun == AttemptsOf(replayed)

Climbing ==
  /\ no = Len(history) + 1
  /\ \A i \in DOMAIN history : history[i].request.ids = ids
  /\ history # <<>> => Request = NextRequest(history[Len(history)], no)

Course ==
  /\ \A id \in Members : Committed(id)
  /\ Chain(history) /\ Chain(StoppedRun)
  /\ stage \in {"down", "asking", "judging", "repairing"}
  /\ stage = "down" => history = <<>>
  /\ stage # "down" => Climbing
  /\ stage \in {"judging", "repairing"} => IsAnswer(answer) /\ Critical(ids, answer) = {}

\* A cache has one response to a request.
IsCache(cache) ==
  /\ \A e \in cache : e = <<e[1], e[2]>>
  /\ \A e, f \in cache : e[1] = f[1] => e = f

\* What a stopped run found to be kept is kept.
StillKept ==
  \A i \in DOMAIN replayed :
    /\ replayed[i].draftKept => DraftKept(replayed[i].attempt)
    /\ replayed[i].replyKept => ReplyKept(replayed[i].attempt)

\* The judge is asked to repair a reply only when no readable one is kept.
Books ==
  /\ IsCache(drafts) /\ \A e \in drafts : IsAnswer(e[2]) /\ ~e[2].cut
  /\ IsCache(opinions) /\ \A e \in opinions : e[2] \in Replies
  /\ stage = "repairing" =>
       \A e \in opinions : e[1] = JudgeRequest(ids, answer, hint, FALSE) => ~e[2].readable
  /\ StillKept

\* An attempt that asks what a stopped one asked is given what the caches keep
\* of it.
SameDraft(old, request, a) ==
  old.draftKept /\ request = old.attempt.request => a = TextOnly(old.attempt.answer)

Echoes(old, attempt) ==
  /\ SameDraft(old, attempt.request, attempt.answer)
  /\ attempt.request = old.attempt.request /\ SameCourse(old, attempt) =>
       attempt.reply = old.attempt.reply

Echo ==
  \A i \in DOMAIN replayed :
    /\ \A j \in DOMAIN history : Echoes(replayed[i], history[j])
    /\ stage \in {"judging", "repairing"} => SameDraft(replayed[i], Request, answer)

IInv == Course /\ Books /\ Echo /\ models \in Models

-----------------------------------------------------------------------------
(* Lemmas about chains *)

LEMMA Grown ==
  ASSUME NEW h, IsSequence(h), NEW x
  PROVE  /\ IsSequence(Append(h, x)) /\ Append(h, x) # <<>>
         /\ Len(h) \in Nat /\ DOMAIN h = 1..Len(h)
         /\ DOMAIN Append(h, x) = 1..(Len(h) + 1)
         /\ \A i \in 1..Len(h) : Append(h, x)[i] = h[i]
         /\ Append(h, x)[Len(h) + 1] = x
<1> DEFINE S == {h[i] : i \in DOMAIN h} \cup {x}
           g == Append(h, x)
<1>1. h \in Seq(S) /\ x \in S
  <2>1. h \in [1..Len(h) -> {h[i] : i \in DOMAIN h}] /\ Len(h) \in Nat
    BY LenProperties DEF IsSequence
  <2>2. h \in [1..Len(h) -> S]
    BY <2>1
  <2> QED
    BY <2>1, <2>2, SeqDef
<1>2. /\ g \in Seq(S) /\ g # <<>> /\ Len(g) = Len(h) + 1
      /\ \A i \in 1..Len(h) : g[i] = h[i]
      /\ g[Len(h) + 1] = x
  BY <1>1, AppendProperties
<1>3. Len(h) \in Nat /\ DOMAIN h = 1..Len(h) /\ g \in [1..Len(g) -> S] /\ Len(g) \in Nat
  BY <1>1, <1>2, LenProperties
<1>4. IsSequence(g)
  <2>1. g \in [1..Len(g) -> {g[i] : i \in DOMAIN g}]
    BY <1>3
  <2> HIDE DEF g
  <2> QED
    BY <1>3, <2>1, SeqDef DEF IsSequence
<1> QED
  BY <1>2, <1>3, <1>4

LEMMA EmptyChain == Chain(<<>>)
<1>1. <<>> \in Seq({<<>>[i] : i \in DOMAIN <<>>})
  BY EmptySeq
<1>2. DOMAIN <<>> = {}
  OBVIOUS
<1> QED
  BY <1>1, <1>2 DEF Chain, IsSequence

LEMMA EmptyRun == Chain(AttemptsOf(<<>>))
<1>1. AttemptsOf(<<>>) = <<>>
  BY DEF AttemptsOf
<1> QED
  BY <1>1, EmptyChain

LEMMA LongerChain ==
  ASSUME NEW h, Chain(h), NEW x, SoundAttempt(x),
         h # <<>> => x.request = NextRequest(h[Len(h)], Len(h) + 1)
  PROVE  Chain(Append(h, x))
<1> DEFINE g == Append(h, x)
<1>1. /\ IsSequence(g) /\ DOMAIN h = 1..Len(h) /\ DOMAIN g = 1..(Len(h) + 1) /\ Len(h) \in Nat
      /\ \A i \in 1..Len(h) : g[i] = h[i]
      /\ g[Len(h) + 1] = x
  BY Grown DEF Chain
<1> HIDE DEF g
<1>2. ASSUME NEW i \in DOMAIN g PROVE SoundAttempt(g[i])
  BY <1>1 DEF Chain
<1>3. ASSUME NEW i \in DOMAIN g, i > 1 PROVE g[i].request = NextRequest(g[i - 1], i)
  <2>1. CASE i \in DOMAIN h
    BY <1>1, <1>3, <2>1 DEF Chain
  <2>2. CASE i = Len(h) + 1
    <3>1. h # <<>> /\ i - 1 = Len(h) /\ g[i - 1] = h[Len(h)]
      BY <1>1, <1>3, <2>2
    <3> QED
      BY <1>1, <2>2, <3>1
  <2> QED
    BY <1>1, <2>1, <2>2
<1> QED
  BY <1>1, <1>2, <1>3 DEF Chain, g

-----------------------------------------------------------------------------
(* What the invariant says *)

LEMMA OneKindFollows == Course => OneKindOfResult
<1> SUFFICES ASSUME Course, NEW i \in DOMAIN history
             PROVE  LET kinds == {ResultOf(history[i], history[i].request.ids[n]).kind :
                                    n \in DOMAIN history[i].request.ids}
                    IN \/ kinds \subseteq {"malformed", "blank", "unscored"}
                       \/ kinds \subseteq {"pass", "rejected", "unscored"}
                       \/ kinds = {"unjudged"}
  BY DEF OneKindOfResult
<1> DEFINE x == history[i]
           kinds == {ResultOf(x, x.request.ids[n]).kind : n \in DOMAIN x.request.ids}
<1>1. SoundAttempt(x)
  BY DEF Course, Chain
<1>2. CASE ~IsWithReply(x)
  <2>1. ~x.reply.readable
    BY <1>1, <1>2, RepliesAre
  <2>2. \A id : ResultOf(x, id).kind \in {"malformed", "blank", "unscored"}
    BY <1>2, <2>1 DEF ResultOf, IsUnjudged, NoVerdict
  <2> QED
    BY <2>2
<1>3. CASE IsWithReply(x)
  <2>1. x.reply.readable \in BOOLEAN /\ \A id : Findings(x, id) = {}
    BY <1>1, <1>3, RepliesAre
  <2>2. CASE x.reply.readable
    <3>1. \A id : ResultOf(x, id).kind \in {"pass", "rejected", "unscored"}
      BY <2>1, <2>2 DEF ResultOf, IsUnjudged, NoVerdict, Verdict
    <3> QED
      BY <3>1
  <2>3. CASE ~x.reply.readable
    <3>1. \A id : ResultOf(x, id).kind = "unjudged"
      BY <1>3, <2>1, <2>3 DEF ResultOf, IsUnjudged, NoVerdict
    <3>2. kinds \subseteq {"unjudged"}
      BY <3>1
    <3> QED
      BY <3>2
  <2> QED
    BY <2>1, <2>2, <2>3
<1> QED
  BY <1>2, <1>3

LEMMA UncutIsItsText ==
  ASSUME NEW a, IsAnswer(a)
  PROVE  /\ ~a.cut => TextOnly(a) = a
         /\ IsAnswer(TextOnly(a)) /\ ~TextOnly(a).cut
         /\ TextOnly(TextOnly(a)) = TextOnly(a)
BY DEF IsAnswer, TextOnly

\* Two attempts that ask the same and take the same course are the same.
LEMMA SameAttempt ==
  ASSUME NEW old, NEW x, SoundAttempt(old.attempt), SoundAttempt(x), Echoes(old, x),
         x.request = old.attempt.request, SameCourse(old, x)
  PROVE  x = old.attempt
<1>1. x.answer = old.attempt.answer
  BY UncutIsItsText DEF Echoes, SameDraft, SameCourse, SoundAttempt
<1>2. x.reply = old.attempt.reply /\ x.hint = old.attempt.hint
  BY DEF Echoes, SameCourse
<1> QED
  BY <1>1, <1>2 DEF SoundAttempt

LEMMA ReplayIsFollowed == Course /\ Echo => ReplayFollows
<1> SUFFICES ASSUME Course, Echo,
                    NEW i \in DOMAIN replayed \cap DOMAIN history,
                    history[1].request = replayed[1].attempt.request,
                    \A j \in 1..(i - 1) : SameCourse(replayed[j], history[j])
             PROVE  LET old == replayed[i].attempt
                        new == history[i]
                    IN /\ new.request = old.request
                       /\ replayed[i].draftKept => TextOnly(new.answer) = TextOnly(old.answer)
                       /\ SameCourse(replayed[i], new) => new.reply = old.reply
  BY DEF ReplayFollows
<1> DEFINE Differ == {j \in 1..i : history[j].request # replayed[j].attempt.request}
<1>1. /\ Len(history) \in Nat /\ DOMAIN history = 1..Len(history)
      /\ Len(StoppedRun) \in Nat /\ DOMAIN replayed = 1..Len(StoppedRun)
  <2>1. DOMAIN StoppedRun = DOMAIN replayed
    BY DEF StoppedRun, AttemptsOf
  <2> QED
    BY <2>1, LenProperties DEF Course, Chain, IsSequence
<1>2. i \in Nat /\ i \in 1..i /\ \A j \in 1..i : j \in DOMAIN history /\ j \in DOMAIN replayed
  BY <1>1
<1>3. \A j \in 1..i : /\ SoundAttempt(history[j]) /\ SoundAttempt(replayed[j].attempt)
                      /\ Echoes(replayed[j], history[j])
  BY <1>2 DEF Course, Chain, StoppedRun, AttemptsOf, Echo
<1>4. Differ = {}
  <2>1. SUFFICES ASSUME Differ # {} PROVE FALSE
    OBVIOUS
  <2>2. PICK j \in Differ : \A k \in Differ : j <= k
    <3>1. Differ \in SUBSET Nat
      OBVIOUS
    <3> QED
      BY <2>1, <3>1, LeastNumber
  <2>3. j \in 1..i /\ history[j].request # replayed[j].attempt.request /\ j # 1
    BY <2>2
  <2>4. j - 1 \in 1..i /\ j - 1 \in 1..(i - 1) /\ ~(j <= j - 1) /\ j > 1
    BY <1>2, <2>3
  <2>5. history[j - 1].request = replayed[j - 1].attempt.request
    BY <2>2, <2>4
  <2> HIDE DEF Differ
  <2>6. history[j - 1] = replayed[j - 1].attempt
    BY <1>3, <2>4, <2>5, SameAttempt
  <2>7. /\ history[j].request = NextRequest(history[j - 1], j)
        /\ StoppedRun[j].request = NextRequest(StoppedRun[j - 1], j)
    <3>1. j \in DOMAIN history /\ j \in DOMAIN StoppedRun
      BY <1>2, <2>3 DEF StoppedRun, AttemptsOf
    <3> QED
      BY <2>4, <3>1 DEF Course, Chain
  <2>8. StoppedRun[j] = replayed[j].attempt /\ StoppedRun[j - 1] = replayed[j - 1].attempt
    BY <1>2, <2>3, <2>4 DEF StoppedRun, AttemptsOf
  <2> QED
    BY <2>3, <2>6, <2>7, <2>8
<1>5. history[i].request = replayed[i].attempt.request
  BY <1>2, <1>4
<1> HIDE DEF Differ
<1>6. ASSUME replayed[i].draftKept
      PROVE  TextOnly(history[i].answer) = TextOnly(replayed[i].attempt.answer)
  <2>1. history[i].answer = TextOnly(replayed[i].attempt.answer)
    BY <1>2, <1>3, <1>5, <1>6 DEF Echoes, SameDraft
  <2>2. IsAnswer(replayed[i].attempt.answer)
    BY <1>2, <1>3 DEF SoundAttempt
  <2> QED
    BY <2>1, <2>2, UncutIsItsText
<1>7. SameCourse(replayed[i], history[i]) => history[i].reply = replayed[i].attempt.reply
  BY <1>2, <1>3, <1>5 DEF Echoes
<1> QED
  BY <1>5, <1>6, <1>7

-----------------------------------------------------------------------------
(* The course of the attempts is kept *)

\* The end of an attempt, whoever ended it: w is the budget of the next one.
LEMMA RecordKeeps ==
  ASSUME Course, stage # "down", NEW a, NEW h, NEW reply, NEW w, NEW x,
         Record(a, h, reply, w),
         w = IF a.cut THEN widen + 1 ELSE widen,
         x = [request |-> Request, answer |-> a, hint |-> h, reply |-> reply],
         SoundAttempt(x)
  PROVE  Course'
<1> DEFINE g == Append(history, x)
<1>1. /\ IsSequence(g) /\ g # <<>> /\ Len(history) \in Nat
      /\ DOMAIN history = 1..Len(history) /\ DOMAIN g = 1..(Len(history) + 1)
      /\ \A i \in 1..Len(history) : g[i] = history[i]
      /\ g[Len(history) + 1] = x
  BY Grown DEF Course, Chain
<1>2. x.request = Request /\ x.answer = a /\ x.reply = reply /\ Request.ids = ids
  BY DEF Request
<1>3. Chain(g)
  BY <1>2, LongerChain DEF Course, Climbing
<1>4. \A i \in DOMAIN g : g[i].request.ids = ids
  BY <1>1, <1>2 DEF Course, Climbing
<1> HIDE DEF g
<1>5. CASE GoesOn(x)
  <2>1. /\ history' = g /\ no' = no + 1 /\ widen' = w /\ retry' = RetryContext(x)
        /\ stage' = "asking" /\ UNCHANGED <<outcome, ids, context, replayed, run>>
    BY <1>5 DEF Record, g
  <2>2. \A id \in Members : Committed(id)'
    BY <2>1 DEF Course, Committed
  <2>3. Chain(history)' /\ Chain(StoppedRun)'
    BY <1>3, <2>1 DEF Course, StoppedRun
  <2>4. Len(g) = Len(history) + 1
    BY <1>1, LenProperties DEF IsSequence
  <2>5. Request' = NextRequest(x, no + 1)
    BY <1>2, <2>1 DEF Request, NextRequest
  <2>6. Climbing'
    BY <1>1, <1>4, <2>1, <2>4, <2>5 DEF Climbing, Course
  <2> QED
    BY <2>1, <2>2, <2>3, <2>6 DEF Course
<1>6. CASE ~GoesOn(x)
  <2>1. /\ outcome' = [id \in Members |-> IF InBatch(id) THEN OutcomeOf(g, id) ELSE outcome[id]]
        /\ replayed' = <<>> /\ history' = <<>> /\ stage' = "down"
    BY <1>6 DEF Record, Idle, g
  <2>2. ASSUME NEW id \in Members PROVE Committed(id)'
    <3>1. CASE InBatch(id)
      <4>1. Attempted(g, id)
        BY <1>1, <1>3, <1>4, <3>1 DEF Attempted, Chain, AsksFor, InBatch
      <4>2. OutcomeOf(g, id).attempts = g
        BY <4>1, OutcomeIs
      <4> QED
        BY <2>1, <3>1, <4>1, <4>2 DEF Committed
    <3>2. CASE ~InBatch(id)
      BY <2>1, <3>2 DEF Committed, Course
    <3> QED
      BY <3>1, <3>2
  <2>3. Chain(history)'
    BY <2>1, EmptyChain
  <2>4. Chain(StoppedRun)'
    BY <2>1, EmptyRun DEF StoppedRun
  <2> QED
    BY <2>1, <2>2, <2>3, <2>4 DEF Course
<1> QED
  BY <1>5, <1>6

LEMMA JudgedIsUncut ==
  ASSUME NEW a, NEW h, NEW judge \in MayJudge(a, h), judge
  PROVE  Critical(ids, a) = {} /\ ~a.cut
<1>1. Critical(ids, a) = {}
  BY DEF MayJudge
<1>2. ~a.cut \/ Finding("truncation", Batchwide) \in Critical(ids, a)
  BY DEF Critical, ContentFindings, Whole
<1> QED
  BY <1>1, <1>2

\* An answer arrives, from the cache or from a model.
LEMMA AnsweredKeeps ==
  ASSUME Course, stage = "asking", NEW a, Answered(a), IsAnswer(a)
  PROVE  Course'
<1> DEFINE w == IF a.cut THEN widen + 1 ELSE widen
<1>1. PICK h \in MayHint(a) : \E judge \in MayJudge(a, h) :
        IF judge
        THEN /\ stage' = "judging" /\ answer' = a /\ hint' = h /\ widen' = w
             /\ UNCHANGED <<outcome, replayed, run, ids, context, no, retry, history>>
        ELSE Record(a, h, NoReply, w)
  BY DEF Answered
<1>2. PICK judge \in MayJudge(a, h) :
        IF judge
        THEN /\ stage' = "judging" /\ answer' = a /\ hint' = h /\ widen' = w
             /\ UNCHANGED <<outcome, replayed, run, ids, context, no, retry, history>>
        ELSE Record(a, h, NoReply, w)
  BY <1>1
<1> HIDE DEF w
<1>3. CASE judge
  <2>1. Critical(ids, a) = {} /\ ~a.cut
    BY <1>3, JudgedIsUncut
  <2>2. /\ stage' = "judging" /\ answer' = a /\ widen' = widen
        /\ UNCHANGED <<outcome, replayed, run, ids, context, no, retry, history>>
    BY <1>2, <1>3, <2>1 DEF w
  <2>3. \A id \in Members : Committed(id)'
    BY <2>2 DEF Course, Committed
  <2>4. Chain(history)' /\ Chain(StoppedRun)'
    BY <2>2 DEF Course, StoppedRun
  <2>5. Request' = Request
    BY <2>2 DEF Request
  <2>6. Climbing'
    BY <2>2, <2>5 DEF Climbing, Course
  <2> QED
    BY <2>1, <2>2, <2>3, <2>4, <2>6 DEF Course
<1>4. CASE ~judge
  <2> DEFINE x == [request |-> Request, answer |-> a, hint |-> h, reply |-> NoReply]
  <2>1. SoundAttempt(x)
    BY DEF SoundAttempt
  <2>2. Record(a, h, NoReply, w)
    BY <1>2, <1>4
  <2> HIDE DEF x
  <2>3. x = [request |-> Request, answer |-> a, hint |-> h, reply |-> NoReply]
    BY DEF x
  <2> QED
    BY <2>1, <2>2, <2>3, RecordKeeps DEF w
<1> QED
  BY <1>3, <1>4

\* A reply that cannot be read is Unreadable, and none is NoReply.
LEMMA RepliesAreThere ==
  ASSUME NEW reply \in Replies
  PROVE  reply.readable \in BOOLEAN /\ (~reply.readable => reply = Unreadable) /\ reply # NoReply
<1>1. IsReply(reply)
  BY RepliesAreReplies
<1>2. CASE reply = Unreadable
  BY <1>2 DEF Unreadable, NoReply
<1>3. CASE reply = Readable(reply.scores, reply.issues)
  <2>1. reply.readable = TRUE
    BY <1>3 DEF Readable
  <2>2. NoReply.readable = FALSE
    BY DEF NoReply
  <2> QED
    BY <2>1, <2>2
<1> QED
  BY <1>1, <1>2, <1>3 DEF IsReply

LEMMA PendingIsUncut ==
  ASSUME Critical(ids, answer) = {}
  PROVE  ~answer.cut
<1>1. ~answer.cut \/ Finding("truncation", Batchwide) \in Critical(ids, answer)
  BY DEF Critical, ContentFindings, Whole
<1> QED
  BY <1>1

\* A judge's reply arrives, from the cache or from a model.
LEMMA RepliedKeeps ==
  ASSUME Course, stage \in {"judging", "repairing"}, NEW reply \in Replies, Replied(reply)
  PROVE  Course'
<1>1. IsAnswer(answer) /\ Critical(ids, answer) = {} /\ ~answer.cut
  BY PendingIsUncut DEF Course
<1>2. CASE ~reply.readable /\ stage = "judging"
  <2>1. /\ stage' = "repairing"
        /\ UNCHANGED <<outcome, replayed, run, ids, context, no, widen, retry, answer, history>>
    BY <1>2 DEF Replied
  <2>2. \A id \in Members : Committed(id)'
    BY <2>1 DEF Course, Committed
  <2>3. Chain(history)' /\ Chain(StoppedRun)'
    BY <2>1 DEF Course, StoppedRun
  <2>4. Request' = Request
    BY <2>1 DEF Request
  <2>5. Climbing'
    BY <2>1, <2>4 DEF Climbing, Course
  <2> QED
    BY <1>1, <2>1, <2>2, <2>3, <2>5 DEF Course
<1>3. CASE ~(~reply.readable /\ stage = "judging")
  <2> DEFINE x == [request |-> Request, answer |-> answer, hint |-> hint, reply |-> reply]
  <2>1. Record(answer, hint, reply, widen)
    BY <1>3 DEF Replied
  <2>2. x.request.ids = ids /\ x.answer = answer /\ x.reply = reply
    BY DEF Request
  <2>3. SoundAttempt(x)
    BY <1>1, <2>2 DEF SoundAttempt
  <2> HIDE DEF x
  <2>4. x = [request |-> Request, answer |-> answer, hint |-> hint, reply |-> reply]
    BY DEF x
  <2> QED
    BY <1>1, <2>1, <2>3, <2>4, RecordKeeps
<1> QED
  BY <1>2, <1>3

LEMMA CourseKept == ASSUME IInv, [Next]_vars PROVE Course'
<1> USE DEF IInv
<1>1. ASSUME NEW ctx \in Contexts, StartRun(ctx) PROVE Course'
  <2>1. /\ history = <<>> /\ stage' = "asking" /\ no' = 1
        /\ UNCHANGED <<outcome, replayed, history>>
    BY <1>1 DEF StartRun, Course, disk
  <2>2. \A id \in Members : Committed(id)'
    BY <2>1 DEF Course, Committed
  <2>3. Chain(history)' /\ Chain(StoppedRun)'
    BY <2>1 DEF Course, StoppedRun
  <2>4. Climbing'
    BY <2>1, EmptySeq DEF Climbing
  <2> QED
    BY <2>1, <2>2, <2>3, <2>4 DEF Course
<1>2. CASE AnswerFromCache
  <2>1. PICK entry \in drafts : Answered(entry[2])
    BY <1>2 DEF AnswerFromCache, Lookup
  <2>2. stage = "asking" /\ IsAnswer(entry[2])
    BY <1>2, <2>1 DEF AnswerFromCache, Books
  <2> QED
    BY <2>1, <2>2, AnsweredKeeps
<1>3. CASE AnswerFromModel
  <2>1. PICK a \in Offered : Answered(a)
    BY <1>3, Permitted DEF AnswerFromModel
  <2>2. stage = "asking" /\ IsAnswer(a)
    BY <1>3, OfferedAre DEF AnswerFromModel
  <2> QED
    BY <2>1, <2>2, AnsweredKeeps
<1>4. CASE ReplyFromCache
  <2>1. PICK entry \in opinions : Replied(entry[2])
    BY <1>4 DEF ReplyFromCache, Lookup
  <2>2. stage \in {"judging", "repairing"} /\ entry[2] \in Replies
    BY <1>4, <2>1 DEF ReplyFromCache, Books
  <2> QED
    BY <2>1, <2>2, RepliedKeeps
<1>5. CASE ReplyFromModel
  <2>1. PICK reply \in Replies : Replied(reply)
    BY <1>5, Permitted DEF ReplyFromModel
  <2>2. stage \in {"judging", "repairing"}
    BY <1>5 DEF ReplyFromModel
  <2> QED
    BY <2>1, <2>2, RepliedKeeps
<1>6. CASE Stopped
  <2>1. /\ history' = <<>> /\ stage' = "down" /\ outcome' = outcome
        /\ replayed' = [i \in DOMAIN history |->
                          [attempt |-> history[i], draftKept |-> DraftKept(history[i]),
                           replyKept |-> ReplyKept(history[i])]]
    BY <1>6 DEF Stopped, Idle, disk
  <2>2. \A id \in Members : Committed(id)'
    BY <2>1 DEF Course, Committed
  <2>3. Chain(history)'
    BY <2>1, EmptyChain
  <2>4. StoppedRun' = history
    <3>1. history = [i \in DOMAIN history |-> history[i]]
      BY LenProperties DEF Course, Chain, IsSequence
    <3>2. StoppedRun' = [i \in DOMAIN history |-> history[i]]
      BY <2>1 DEF StoppedRun, AttemptsOf
    <3> QED
      BY <3>1, <3>2
  <2>5. Chain(StoppedRun)'
    BY <2>4 DEF Course
  <2> QED
    BY <2>1, <2>2, <2>3, <2>5 DEF Course
<1>7. CASE UNCHANGED vars
  <2>1. UNCHANGED <<outcome, replayed, stage, ids, context, no, widen, retry, answer, history>>
    BY <1>7 DEF vars
  <2>2. \A id \in Members : Committed(id)'
    BY <2>1 DEF Course, Committed
  <2> QED
    BY <2>1, <2>2 DEF Course, Climbing, Request, StoppedRun
<1> QED
  BY <1>1, <1>2, <1>3, <1>4, <1>5, <1>6, <1>7 DEF Next, Climb

-----------------------------------------------------------------------------
(* The caches are kept *)

\* A response that was not found in its cache is put there or is not.
LEMMA CacheGrows ==
  ASSUME NEW cache, IsCache(cache), NEW k, NEW v, Lookup(cache, k) = {}
  PROVE  IsCache(cache \cup {<<k, v>>}) /\ \A e \in cache : e[1] # k
BY DEF IsCache, Lookup

\* What is recorded leaves nothing to be repaired, and the stopped run as it is
\* or forgotten.
LEMMA RecordLeaves ==
  ASSUME NEW a, NEW h, NEW reply, NEW w, Record(a, h, reply, w)
  PROVE  /\ stage' \in {"asking", "down"}
         /\ replayed' = replayed \/ DOMAIN replayed' = {}
<1>1. CASE GoesOn([request |-> Request, answer |-> a, hint |-> h, reply |-> reply])
  BY <1>1 DEF Record
<1>2. CASE ~GoesOn([request |-> Request, answer |-> a, hint |-> h, reply |-> reply])
  <2>1. stage' = "down" /\ replayed' = <<>>
    BY <1>2 DEF Record, Idle
  <2> QED
    BY <2>1
<1> QED
  BY <1>1, <1>2

\* What is kept stays kept while the caches grow.
LEMMA KeptStays ==
  ASSUME Books, drafts \subseteq drafts', opinions \subseteq opinions',
         replayed' = replayed \/ DOMAIN replayed' = {}
  PROVE  StillKept'
<1>1. CASE DOMAIN replayed' = {}
  BY <1>1 DEF StillKept
<1>2. CASE replayed' = replayed
  <2>1. ASSUME NEW i \in DOMAIN replayed, replayed[i].draftKept
        PROVE  Draft(replayed[i].attempt.request, replayed[i].attempt.answer) \in drafts'
    BY <2>1 DEF Books, StillKept, DraftKept
  <2>2. ASSUME NEW i \in DOMAIN replayed, replayed[i].replyKept
        PROVE  ReplyKept(replayed[i].attempt)'
    BY <1>2, <2>2 DEF Books, StillKept, ReplyKept
  <2> QED
    BY <1>2, <2>1, <2>2 DEF StillKept, DraftKept
<1> QED
  BY <1>1, <1>2

LEMMA BooksKept == ASSUME IInv, [Next]_vars PROVE Books'
<1> USE DEF IInv
<1>1. CASE stage # "repairing" /\ UNCHANGED <<drafts, opinions, replayed>> /\ stage' # "repairing"
  BY <1>1, KeptStays DEF Books
<1>2. ASSUME NEW a, Answered(a)
      PROVE  stage' # "repairing" /\ (replayed' = replayed \/ DOMAIN replayed' = {})
  BY <1>2, RecordLeaves DEF Answered
<1>3. ASSUME NEW reply, Replied(reply)
      PROVE  /\ replayed' = replayed \/ DOMAIN replayed' = {}
             /\ stage' = "repairing" =>
                  /\ stage = "judging" /\ ~reply.readable
                  /\ UNCHANGED <<ids, answer, hint>>
  BY <1>3, RecordLeaves DEF Replied
<1>4. CASE AnswerFromCache
  <2>1. PICK entry \in drafts : Answered(entry[2])
    BY <1>4 DEF AnswerFromCache, Lookup
  <2>2. drafts' = drafts /\ opinions' = opinions
    BY <1>4 DEF AnswerFromCache
  <2> QED
    BY <1>2, <2>1, <2>2, KeptStays DEF Books
<1>5. CASE AnswerFromModel
  <2>1. PICK a \in Offered : PutDraft(a) /\ Answered(a)
    BY <1>5, Permitted DEF AnswerFromModel
  <2>2. Lookup(drafts, Request) = {} /\ opinions' = opinions /\ drafts \subseteq drafts'
    BY <1>5, <2>1 DEF AnswerFromModel, PutDraft
  <2>3. IsCache(drafts')
    <3>1. IsCache(drafts \cup {<<Request, TextOnly(a)>>})
      BY <2>2, CacheGrows DEF Books
    <3>2. drafts' = drafts \/ drafts' = drafts \cup {<<Request, TextOnly(a)>>}
      BY <2>1 DEF PutDraft, Draft
    <3>3. IsCache(drafts)
      BY DEF Books
    <3> QED
      BY ONLY <3>1, <3>2, <3>3, Zenon
  <2>4. \A e \in drafts' : IsAnswer(e[2]) /\ ~e[2].cut
    <3>1. IsAnswer(TextOnly(a)) /\ ~TextOnly(a).cut
      BY OfferedAre, UncutIsItsText
    <3> QED
      BY <2>1, <3>1 DEF Books, PutDraft, Draft
  <2> QED
    BY <1>2, <2>1, <2>2, <2>3, <2>4, KeptStays DEF Books
<1>6. CASE ReplyFromCache
  <2>1. PICK entry \in opinions : entry[1] = AskedOfJudge /\ Replied(entry[2])
    BY <1>6 DEF ReplyFromCache, Lookup
  <2>2. drafts' = drafts /\ opinions' = opinions
    BY <1>6 DEF ReplyFromCache
  <2>3. ASSUME stage' = "repairing", NEW e \in opinions',
               e[1] = JudgeRequest(ids', answer', hint', FALSE)
        PROVE  ~e[2].readable
    <3>1. e[1] = AskedOfJudge
      BY <1>3, <2>1, <2>3 DEF AskedOfJudge
    <3>2. e = entry
      BY <2>1, <2>2, <2>3, <3>1 DEF Books, IsCache
    <3> QED
      BY <1>3, <2>1, <2>3, <3>2
  <2> QED
    BY <1>3, <2>1, <2>2, <2>3, KeptStays DEF Books
<1>7. CASE ReplyFromModel
  <2>1. PICK reply \in Replies : PutOpinion(reply) /\ Replied(reply)
    BY <1>7, Permitted DEF ReplyFromModel
  <2>2. Lookup(opinions, AskedOfJudge) = {} /\ drafts' = drafts /\ opinions \subseteq opinions'
    BY <1>7, <2>1 DEF ReplyFromModel, PutOpinion
  <2>3. IsCache(opinions') /\ \A e \in opinions : e[1] # AskedOfJudge
    <3>1. IsCache(opinions \cup {<<AskedOfJudge, reply>>}) /\ \A e \in opinions : e[1] # AskedOfJudge
      BY <2>2, CacheGrows DEF Books
    <3>2. opinions' = opinions \/ opinions' = opinions \cup {<<AskedOfJudge, reply>>}
      BY <2>1 DEF PutOpinion
    <3>3. IsCache(opinions)
      BY DEF Books
    <3> QED
      BY ONLY <3>1, <3>2, <3>3, Zenon
  <2>4. \A e \in opinions' : e[2] \in Replies
    BY <2>1 DEF Books, PutOpinion
  <2>5. ASSUME stage' = "repairing", NEW e \in opinions',
               e[1] = JudgeRequest(ids', answer', hint', FALSE)
        PROVE  ~e[2].readable
    <3>1. e[1] = AskedOfJudge
      BY <1>3, <2>1, <2>5 DEF AskedOfJudge
    <3>2. e = <<AskedOfJudge, reply>>
      BY <2>1, <2>3, <2>5, <3>1 DEF PutOpinion
    <3> QED
      BY <1>3, <2>1, <2>5, <3>2
  <2> QED
    BY <1>3, <2>1, <2>2, <2>3, <2>4, <2>5, KeptStays DEF Books
<1>8. CASE Stopped
  <2>1. /\ stage' = "down" /\ drafts' = drafts /\ opinions' = opinions
        /\ replayed' = [i \in DOMAIN history |->
                          [attempt |-> history[i], draftKept |-> DraftKept(history[i]),
                           replyKept |-> ReplyKept(history[i])]]
    BY <1>8 DEF Stopped, Idle, disk
  <2>2. StillKept'
    BY <2>1 DEF StillKept, DraftKept, ReplyKept
  <2> QED
    BY <2>1, <2>2 DEF Books
<1>9. CASE UNCHANGED vars
  <2>1. UNCHANGED <<drafts, opinions, replayed, stage, ids, answer, hint>>
    BY <1>9 DEF vars
  <2> QED
    BY <2>1, KeptStays DEF Books
<1>10. ASSUME NEW ctx \in Contexts, StartRun(ctx) PROVE Books'
  <2>1. UNCHANGED <<drafts, opinions, replayed>> /\ stage = "down" /\ stage' = "asking"
    BY <1>10 DEF StartRun, disk
  <2> QED
    BY <1>1, <2>1
<1> QED
  BY <1>4, <1>5, <1>6, <1>7, <1>8, <1>9, <1>10 DEF Next, Climb

-----------------------------------------------------------------------------
(* A resume is given again what is kept *)

LEMMA RecordEchoes ==
  ASSUME IInv, NEW a, NEW h, NEW reply, NEW w, NEW x, Record(a, h, reply, w),
         x = [request |-> Request, answer |-> a, hint |-> h, reply |-> reply],
         \A i \in DOMAIN replayed : Echoes(replayed[i], x)
  PROVE  Echo'
<1> DEFINE g == Append(history, x)
<1>1. /\ DOMAIN history = 1..Len(history) /\ DOMAIN g = 1..(Len(history) + 1)
      /\ \A i \in 1..Len(history) : g[i] = history[i]
      /\ g[Len(history) + 1] = x /\ Len(history) \in Nat
  BY Grown DEF IInv, Course, Chain
<1> HIDE DEF g
<1>2. \A i \in DOMAIN replayed : \A j \in DOMAIN g : Echoes(replayed[i], g[j])
  BY <1>1 DEF IInv, Echo
<1>3. CASE GoesOn(x)
  <2>1. history' = g /\ stage' = "asking" /\ replayed' = replayed
    BY <1>3 DEF Record, g
  <2> QED
    BY <1>2, <2>1 DEF Echo
<1>4. CASE ~GoesOn(x)
  <2>1. replayed' = <<>>
    BY <1>4 DEF Record
  <2> QED
    BY <2>1 DEF Echo
<1> QED
  BY <1>3, <1>4

LEMMA AnsweredEchoes ==
  ASSUME IInv, NEW a, Answered(a), \A e \in drafts : e[1] = Request => e[2] = a
  PROVE  Echo'
<1> DEFINE w == IF a.cut THEN widen + 1 ELSE widen
<1>1. PICK h \in MayHint(a) : \E judge \in MayJudge(a, h) :
        IF judge
        THEN /\ stage' = "judging" /\ answer' = a /\ hint' = h /\ widen' = w
             /\ UNCHANGED <<outcome, replayed, run, ids, context, no, retry, history>>
        ELSE Record(a, h, NoReply, w)
  BY DEF Answered
<1>2. PICK judge \in MayJudge(a, h) :
        IF judge
        THEN /\ stage' = "judging" /\ answer' = a /\ hint' = h /\ widen' = w
             /\ UNCHANGED <<outcome, replayed, run, ids, context, no, retry, history>>
        ELSE Record(a, h, NoReply, w)
  BY <1>1
<1>3. ASSUME NEW i \in DOMAIN replayed PROVE SameDraft(replayed[i], Request, a)
  <2> SUFFICES ASSUME replayed[i].draftKept, Request = replayed[i].attempt.request
               PROVE  a = TextOnly(replayed[i].attempt.answer)
    BY DEF SameDraft
  <2> DEFINE e == <<Request, TextOnly(replayed[i].attempt.answer)>>
  <2>1. e \in drafts
    BY DEF IInv, Books, StillKept, DraftKept, Draft
  <2>2. e[1] = Request /\ e[2] = TextOnly(replayed[i].attempt.answer)
    OBVIOUS
  <2> HIDE DEF e
  <2> QED
    BY <2>1, <2>2
<1> HIDE DEF w
<1>4. CASE judge
  <2>1. ~a.cut
    BY <1>4, JudgedIsUncut
  <2>2. /\ stage' = "judging" /\ answer' = a /\ widen' = widen
        /\ UNCHANGED <<outcome, replayed, run, ids, context, no, retry, history>>
    BY <1>2, <1>4, <2>1 DEF w
  <2>3. Request' = Request
    BY <2>2 DEF Request
  <2> QED
    BY <1>3, <2>2, <2>3 DEF IInv, Echo
<1>5. CASE ~judge
  <2> DEFINE x == [request |-> Request, answer |-> a, hint |-> h, reply |-> NoReply]
  <2>1. Record(a, h, NoReply, w)
    BY <1>2, <1>5
  <2>2. ASSUME NEW i \in DOMAIN replayed PROVE Echoes(replayed[i], x)
    <3>1. x.request = Request /\ x.answer = a /\ x.reply = NoReply /\ ~IsWithReply(x)
      BY DEF IsWithReply
    <3> HIDE DEF x
    <3>2. SameDraft(replayed[i], x.request, x.answer)
      BY <1>3, <3>1
    <3>3. SameCourse(replayed[i], x) => replayed[i].attempt.reply = NoReply
      BY <3>1 DEF SameCourse, IsWithReply
    <3> QED
      BY <3>1, <3>2, <3>3 DEF Echoes
  <2> HIDE DEF x
  <2>3. x = [request |-> Request, answer |-> a, hint |-> h, reply |-> NoReply]
    BY DEF x
  <2> QED
    BY <2>1, <2>2, <2>3, RecordEchoes
<1> QED
  BY <1>4, <1>5

\* What the judge is found to have replied to an attempt of the stopped run is
\* what it replies to an attempt of the same course.
LEMMA SameReply ==
  ASSUME IInv, stage \in {"judging", "repairing"}, NEW reply \in Replies,
         ~(~reply.readable /\ stage = "judging"),
         \A e \in opinions : e[1] = AskedOfJudge => e[2] = reply,
         NEW i \in DOMAIN replayed, NEW x,
         x = [request |-> Request, answer |-> answer, hint |-> hint, reply |-> reply],
         x.request = replayed[i].attempt.request, SameCourse(replayed[i], x)
  PROVE  reply = replayed[i].attempt.reply
<1> DEFINE old == replayed[i].attempt
           asked(repair) == JudgeRequest(ids, answer, hint, repair)
<1>1. /\ x.request = Request /\ x.answer = answer /\ x.hint = hint /\ x.reply = reply
      /\ Request.ids = ids
  BY DEF Request
<1>2. /\ replayed[i].draftKept /\ ReplyKept(old) /\ ~old.answer.cut /\ old.hint = hint
      /\ IsWithReply(old) = IsWithReply(x) /\ IsWithReply(x)
  BY <1>1, RepliesAreThere DEF SameCourse, IInv, Books, StillKept, IsWithReply
<1>3. answer = old.answer
  <2>1. SoundAttempt(old)
    BY DEF IInv, Course, Chain, StoppedRun, AttemptsOf
  <2>2. answer = TextOnly(old.answer)
    BY <1>1, <1>2 DEF IInv, Echo, SameDraft
  <2> QED
    BY <1>2, <2>1, <2>2, UncutIsItsText DEF SoundAttempt
<1>4. old.request.ids = ids
  BY <1>1
<1>5. \/ old.reply.readable /\ <<asked(FALSE), old.reply>> \in opinions
      \/ <<asked(FALSE), Unreadable>> \in opinions /\ <<asked(TRUE), old.reply>> \in opinions
  BY <1>2, <1>3, <1>4 DEF ReplyKept
<1>6. AskedOfJudge = asked(stage = "repairing")
  BY DEF AskedOfJudge
<1> HIDE DEF asked, old
<1>7. \A k, v : <<k, v>> \in opinions /\ k = AskedOfJudge => v = reply
  <2>1. ASSUME NEW k, NEW v, <<k, v>> \in opinions, k = AskedOfJudge PROVE v = reply
    <3> DEFINE e == <<k, v>>
    <3>1. e \in opinions /\ e[1] = k /\ e[2] = v
      BY <2>1
    <3> HIDE DEF e
    <3> QED
      BY <2>1, <3>1
  <2> QED
    BY <2>1
<1>8. CASE stage = "judging"
  <2>1. AskedOfJudge = asked(FALSE) /\ reply.readable
    BY <1>6, <1>8, RepliesAreThere
  <2>2. ~Unreadable.readable
    BY DEF Unreadable
  <2>3. <<asked(FALSE), Unreadable>> \notin opinions
    BY <1>7, <2>1, <2>2
  <2> QED
    BY <1>5, <1>7, <2>1, <2>3 DEF old
<1>9. CASE stage = "repairing"
  <2>1. AskedOfJudge = asked(TRUE)
    BY <1>6, <1>9
  <2>2. ~(old.reply.readable /\ <<asked(FALSE), old.reply>> \in opinions)
    <3> DEFINE e == <<asked(FALSE), old.reply>>
    <3>1. e[1] = asked(FALSE) /\ e[2] = old.reply
      OBVIOUS
    <3>2. \A f \in opinions : f[1] = asked(FALSE) => ~f[2].readable
      BY <1>9 DEF IInv, Books, asked
    <3> HIDE DEF e
    <3>3. e \in opinions => ~old.reply.readable
      BY <3>1, <3>2
    <3> QED
      BY <3>3 DEF e
  <2> QED
    BY <1>5, <1>7, <2>1, <2>2 DEF old
<1> QED
  BY <1>8, <1>9

LEMMA RepliedEchoes ==
  ASSUME IInv, stage \in {"judging", "repairing"}, NEW reply \in Replies, Replied(reply),
         \A e \in opinions : e[1] = AskedOfJudge => e[2] = reply
  PROVE  Echo'
<1>1. CASE ~reply.readable /\ stage = "judging"
  <2>1. /\ stage' = "repairing"
        /\ UNCHANGED <<outcome, replayed, run, ids, context, no, widen, retry, answer, history>>
    BY <1>1 DEF Replied
  <2>2. Request' = Request
    BY <2>1 DEF Request
  <2> QED
    BY <1>1, <2>1, <2>2 DEF IInv, Echo
<1>2. CASE ~(~reply.readable /\ stage = "judging")
  <2> DEFINE x == [request |-> Request, answer |-> answer, hint |-> hint, reply |-> reply]
  <2>1. Record(answer, hint, reply, widen)
    BY <1>2 DEF Replied
  <2>2. x.request = Request /\ x.answer = answer /\ x.reply = reply
    OBVIOUS
  <2>3. x = [request |-> Request, answer |-> answer, hint |-> hint, reply |-> reply]
    OBVIOUS
  <2> HIDE DEF x
  <2>4. ASSUME NEW i \in DOMAIN replayed PROVE Echoes(replayed[i], x)
    <3>1. SameDraft(replayed[i], x.request, x.answer)
      BY <2>2 DEF IInv, Echo
    <3>2. ASSUME x.request = replayed[i].attempt.request, SameCourse(replayed[i], x)
          PROVE  x.reply = replayed[i].attempt.reply
      BY <1>2, <2>2, <2>3, <3>2, SameReply
    <3> QED
      BY <3>1, <3>2 DEF Echoes
  <2> QED
    BY <2>1, <2>3, <2>4, RecordEchoes
<1> QED
  BY <1>1, <1>2

LEMMA EchoKept == ASSUME IInv, [Next]_vars PROVE Echo'
<1> USE DEF IInv
<1>1. ASSUME NEW ctx \in Contexts, StartRun(ctx) PROVE Echo'
  <2>1. /\ stage' = "asking" /\ UNCHANGED <<replayed, history>>
    BY <1>1 DEF StartRun
  <2> QED
    BY <2>1 DEF Echo
<1>2. CASE AnswerFromCache
  <2>1. PICK entry \in drafts : entry[1] = Request /\ Answered(entry[2])
    BY <1>2 DEF AnswerFromCache, Lookup
  <2>2. \A e \in drafts : e[1] = Request => e[2] = entry[2]
    BY <2>1 DEF Books, IsCache
  <2> QED
    BY <2>1, <2>2, AnsweredEchoes
<1>3. CASE AnswerFromModel
  <2>1. PICK a \in Offered : Answered(a)
    BY <1>3, Permitted DEF AnswerFromModel
  <2>2. \A e \in drafts : e[1] # Request
    BY <1>3 DEF AnswerFromModel, Lookup
  <2> QED
    BY <2>1, <2>2, AnsweredEchoes
<1>4. CASE ReplyFromCache
  <2>1. PICK entry \in opinions : entry[1] = AskedOfJudge /\ Replied(entry[2])
    BY <1>4 DEF ReplyFromCache, Lookup
  <2>2. stage \in {"judging", "repairing"} /\ entry[2] \in Replies
    BY <1>4, <2>1 DEF ReplyFromCache, Books
  <2>3. \A e \in opinions : e[1] = AskedOfJudge => e[2] = entry[2]
    BY <2>1 DEF Books, IsCache
  <2> QED
    BY <2>1, <2>2, <2>3, RepliedEchoes
<1>5. CASE ReplyFromModel
  <2>1. PICK reply \in Replies : Replied(reply)
    BY <1>5, Permitted DEF ReplyFromModel
  <2>2. stage \in {"judging", "repairing"} /\ \A e \in opinions : e[1] # AskedOfJudge
    BY <1>5 DEF ReplyFromModel, Lookup
  <2> QED
    BY <2>1, <2>2, RepliedEchoes
<1>6. CASE Stopped
  <2>1. history' = <<>> /\ stage' = "down"
    BY <1>6 DEF Stopped, Idle
  <2> QED
    BY <2>1 DEF Echo
<1>7. CASE UNCHANGED vars
  <2>1. UNCHANGED <<replayed, stage, ids, context, no, widen, retry, answer, history>>
    BY <1>7 DEF vars
  <2>2. Request' = Request
    BY <2>1 DEF Request
  <2> QED
    BY <2>1, <2>2 DEF Echo
<1> QED
  BY <1>1, <1>2, <1>3, <1>4, <1>5, <1>6, <1>7 DEF Next, Climb

LEMMA Starts == Init => IInv
<1> SUFFICES ASSUME Init PROVE IInv
  OBVIOUS
<1>1. DOMAIN replayed = {} /\ Chain(StoppedRun)
  BY EmptyRun DEF Init, StoppedRun
<1>2. Chain(history)
  BY EmptyChain DEF Init
<1>3. \A id \in Members : Committed(id)
  BY DEF Init, Committed
<1>4. Course
  BY <1>1, <1>2, <1>3 DEF Init, Course
<1>5. Books /\ Echo /\ models \in Models
  BY <1>1 DEF Init, Books, StillKept, IsCache, Echo
<1> QED
  BY <1>4, <1>5 DEF IInv

-----------------------------------------------------------------------------
(* The theorems *)

\* The attempts, the caches and what a resume finds in them are in order in
\* every state, however often the batch is stopped and begun again.
THEOREM Inductive == Spec => []IInv
<1>1. Init => IInv
  BY Starts
<1>2. IInv /\ [Next]_vars => IInv'
  <2>1. [Next]_vars => UNCHANGED models
    BY DEF Next, vars
  <2> QED
    BY <2>1, CourseKept, BooksKept, EchoKept DEF IInv
<1> QED
  BY <1>1, <1>2, PTL DEF Spec

\* A segment is finished only with an attempt that holds it once, in a paired
\* tag with usable text, in an answer that was not cut off, and that the judge
\* read, scored above the completeness floor and raised no critical issue about.
THEOREM DoneIsAlwaysSound == Spec => []DoneIsSound
<1>1. IInv => DoneIsSound
  BY CommittedIsSound DEF IInv, Course
<1> QED
  BY <1>1, Inductive, PTL

\* A flagged segment shows a text that an attempt returned for it, or the source
\* when none did (_finish_batch).
THEOREM NeverAGap == Spec => []NoGap
<1>1. IInv => NoGap
  BY CommittedHasNoGap DEF IInv, Course
<1> QED
  BY <1>1, Inductive, PTL

\* The segments of one attempt are all without a verdict, all from one reply or
\* all unjudged: what the orchestrator's model takes an attempt to be.
THEOREM AlwaysOneKindOfResult == Spec => []OneKindOfResult
<1>1. IInv => OneKindOfResult
  BY OneKindFollows DEF IInv
<1> QED
  BY <1>1, Inductive, PTL

\* A resume that asks the first question of the stopped run again repeats its
\* attempts for as long as they take the same course, whatever the tracker, the
\* dice, a failing cache or a cut-off response make of the others.
THEOREM ReplayAlwaysFollows == Spec => []ReplayFollows
<1>1. IInv => ReplayFollows
  BY ReplayIsFollowed DEF IInv
<1> QED
  BY <1>1, Inductive, PTL

-----------------------------------------------------------------------------
(* The orchestrator's abstraction of the ladder *)

\* What is kept after every attempt is what is best of the attempts so far.
LEMMA KeptIsBest ==
  ASSUME NEW L \in Nat, NEW results, results = [i \in 1..L |-> results[i]],
         \A i \in 1..L : results[i] \in AttemptResults,
         NEW kept,
         kept = CHOOSE f : f = [n \in 0..L |-> IF n = 0 THEN Placeholder ELSE Keep(f[n - 1], results[n])]
  PROVE  kept[L] = BestOutcome(results).result
<1> DEFINE first(n) == [i \in 1..n |-> results[i]]
           best == [n \in 0..L |-> BestOutcome(first(n)).result]
           Solves(f) == f = [n \in 0..L |-> IF n = 0 THEN Placeholder ELSE Keep(f[n - 1], results[n])]
<1>1. BestOutcome(first(0)).result = Placeholder
  <2>1. 0 \in Nat /\ DOMAIN first(0) = 1..0 /\ PassingIn(first(0)) = {} /\ WithTextIn(first(0)) = {}
    BY DEF PassingIn, WithTextIn
  <2> QED
    BY <2>1, BestOutcomeIs
<1>2. ASSUME NEW n \in 0..L, n # 0
      PROVE  BestOutcome(first(n)).result = Keep(BestOutcome(first(n - 1)).result, results[n])
  <2>1. /\ n - 1 \in Nat /\ (n - 1) + 1 = n /\ n \in 1..L
        /\ DOMAIN first(n - 1) = 1..(n - 1) /\ DOMAIN first(n) = 1..((n - 1) + 1)
        /\ \A i \in 1..(n - 1) : first(n)[i] = first(n - 1)[i]
        /\ \A i \in 1..(n - 1) : first(n - 1)[i] \in AttemptResults
        /\ first(n)[(n - 1) + 1] = results[n]
    BY <1>2
  <2>2. first(n)[(n - 1) + 1] \in AttemptResults
    BY <2>1
  <2> HIDE DEF first
  <2>3. BestOutcome(first(n)).result
          = Keep(BestOutcome(first(n - 1)).result, first(n)[(n - 1) + 1])
    BY <2>1, <2>2, OneAtATime
  <2> QED
    BY <2>1, <2>3
<1> HIDE DEF first
<1>3. Solves(best)
  <2>1. ASSUME NEW n \in 0..L
        PROVE  best[n] = IF n = 0 THEN Placeholder ELSE Keep(best[n - 1], results[n])
    <3>1. CASE n = 0
      BY <1>1, <3>1
    <3>2. CASE n # 0
      <4>1. n - 1 \in 0..L
        BY <3>2
      <4> QED
        BY <1>2, <3>2, <4>1
    <3> QED
      BY <3>1, <3>2
  <2> QED
    BY <2>1
<1>4. Solves(kept)
  BY <1>3
<1> DEFINE Differ == {n \in 0..L : kept[n] # best[n]}
<1>5. Differ = {}
  <2>1. SUFFICES ASSUME Differ # {} PROVE FALSE
    OBVIOUS
  <2>2. PICK n \in Differ : \A m \in Differ : n <= m
    <3>1. Differ \in SUBSET Nat
      OBVIOUS
    <3> QED
      BY <2>1, <3>1, LeastNumber
  <2>3. n # 0
    BY <1>3, <1>4, <2>2
  <2>4. n - 1 \in 0..L /\ ~(n <= n - 1)
    BY <2>2, <2>3
  <2>5. kept[n - 1] = best[n - 1]
    BY <2>2, <2>4
  <2>6. n \in 0..L /\ kept[n] # best[n]
    BY <2>2
  <2> HIDE DEF best, Differ
  <2>7. kept[n] = Keep(kept[n - 1], results[n])
    BY <1>4, <2>3, <2>6
  <2>8. best[n] = Keep(best[n - 1], results[n])
    BY <1>3, <2>3, <2>6
  <2> QED
    BY <2>5, <2>6, <2>7, <2>8
<1>6. L \in 0..L /\ best[L] = BestOutcome(first(L)).result
  OBVIOUS
<1> HIDE DEF best
<1>7. kept[L] = best[L]
  BY <1>5, <1>6
<1>8. first(L) = results
  BY DEF first
<1> QED
  BY <1>6, <1>7, <1>8

\* What ResultOf makes of an attempt passes, has text and scores as it does.
LEMMA ResultIs ==
  ASSUME NEW x, SoundAttempt(x), NEW id, AsksFor(x, id)
  PROVE  /\ ResultOf(x, id) \in AttemptResults
         /\ Passed(ResultOf(x, id)) <=> AttemptPassed(x, id)
         /\ HasText(ResultOf(x, id)) <=> AttemptText(x, id) # "empty"
         /\ Score(ResultOf(x, id)) = AttemptScore(x, id)
<1>1. CASE Findings(x, id) # {}
  <2>1. ResultOf(x, id) = NoVerdict(IF AttemptText(x, id) = "empty" THEN "blank" ELSE "malformed")
    BY <1>1 DEF ResultOf
  <2>2. ~AttemptPassed(x, id) /\ AttemptScore(x, id) = -1
    BY <1>1 DEF AttemptPassed, AttemptScore
  <2> QED
    BY <2>1, <2>2 DEF NoVerdict, AttemptResults, AttemptKinds, Passed, HasText, Score
<1>2. CASE Findings(x, id) = {} /\ ~x.reply.readable
  <2>1. PICK kind \in {"unscored", "unjudged"} : ResultOf(x, id) = NoVerdict(kind)
    BY <1>2 DEF ResultOf
  <2>2. ~AttemptPassed(x, id) /\ AttemptScore(x, id) = 0
    BY <1>2 DEF AttemptPassed, AttemptScore
  <2>3. AttemptText(x, id) # "empty"
    BY <1>2, PassedHasText
  <2> QED
    BY <2>1, <2>2, <2>3 DEF NoVerdict, AttemptResults, AttemptKinds, Passed, HasText, Score
<1>3. CASE Findings(x, id) = {} /\ x.reply.readable
  <2>1. /\ ~IsUnjudged(x) /\ AttemptText(x, id) # "empty"
        /\ AttemptPassed(x, id) <=> Passes(x.reply, id)
        /\ AttemptScore(x, id) = VerdictComposite(x.reply, id) /\ AttemptScore(x, id) \in Nat
    BY <1>3, PassedHasText, RepliesAre DEF IsUnjudged, AttemptPassed, AttemptScore
  <2>2. CASE ~Scored(x.reply, id)
    <3>1. ResultOf(x, id) = NoVerdict("unscored") /\ AttemptScore(x, id) = 0 /\ ~AttemptPassed(x, id)
      BY <1>3, <2>1, <2>2 DEF ResultOf, VerdictComposite, Passes
    <3> QED
      BY <2>1, <3>1 DEF NoVerdict, AttemptResults, AttemptKinds, Passed, HasText, Score
  <2>3. CASE Scored(x.reply, id)
    <3>1. ResultOf(x, id)
            = Verdict(IF AttemptPassed(x, id) THEN "pass" ELSE "rejected", AttemptScore(x, id))
      BY <1>3, <2>1, <2>3 DEF ResultOf
    <3> QED
      BY <2>1, <3>1 DEF Verdict, AttemptResults, AttemptKinds, Passed, HasText, Score
  <2> QED
    BY <2>2, <2>3
<1> QED
  BY <1>1, <1>2, <1>3, RepliesAre

LEMMA SameChoice ==
  ASSUME NEW id, NEW attempts, Attempted(attempts, id),
         NEW results, results = [i \in DOMAIN attempts |-> ResultOf(attempts[i], id)]
  PROVE  /\ BestOutcome(results).no = BestAttempt(attempts, id)
         /\ BestOutcome(results).no = 0 => BestOutcome(results).result = Placeholder
         /\ BestOutcome(results).no # 0 =>
              /\ BestOutcome(results).no \in DOMAIN attempts
              /\ BestOutcome(results).result = ResultOf(attempts[BestOutcome(results).no], id)
<1> DEFINE n == Len(attempts)
           place == BestOutcome(results).no
           best == BestAttempt(attempts, id)
<1>1. n \in Nat /\ DOMAIN attempts = 1..n /\ DOMAIN results = 1..n
  BY LenProperties DEF Attempted, IsSequence
<1>2. \A i \in 1..n : /\ SoundAttempt(attempts[i]) /\ AsksFor(attempts[i], id)
                      /\ results[i] = ResultOf(attempts[i], id)
  BY <1>1 DEF Attempted
<1>3. \A i \in 1..n : /\ results[i] \in AttemptResults
                      /\ Passed(results[i]) <=> AttemptPassed(attempts[i], id)
                      /\ HasText(results[i]) <=> AttemptText(attempts[i], id) # "empty"
                      /\ Score(results[i]) = AttemptScore(attempts[i], id)
  BY <1>2, ResultIs
<1>4. /\ PassingIn(results) = PassingAttempts(attempts, id)
      /\ WithTextIn(results) = AttemptsWithText(attempts, id)
      /\ PassingIn(results) \subseteq 1..n /\ WithTextIn(results) \subseteq 1..n
  BY <1>1, <1>3 DEF PassingIn, PassingAttempts, WithTextIn, AttemptsWithText
<1>5. CASE PassingIn(results) # {}
  <2>1. /\ place \in PassingIn(results) /\ \A j \in PassingIn(results) : j <= place
        /\ BestOutcome(results).result = results[place]
    BY <1>1, <1>3, <1>5, BestOutcomeIs
  <2>2. best \in PassingIn(results) /\ \A j \in PassingIn(results) : j <= best
    BY <1>4, <1>5, BestAttemptIs
  <2>3. place = best /\ place \in 1..n /\ place # 0
    BY <1>1, <1>4, <2>1, <2>2
  <2> QED
    BY <1>1, <1>2, <2>1, <2>3
<1>6. CASE PassingIn(results) = {} /\ WithTextIn(results) # {}
  <2> DEFINE W == WithTextIn(results)
  <2>1. FirstBest(ScoresOf(results), W, place) /\ BestOutcome(results).result = results[place]
    BY <1>1, <1>3, <1>6, BestOutcomeIs
  <2>2. FirstBest(AttemptScores(attempts, id), W, best)
    BY <1>4, <1>6, BestAttemptIs
  <2>3. \A i \in W : ScoresOf(results)[i] = AttemptScores(attempts, id)[i]
    BY <1>1, <1>3, <1>4 DEF ScoresOf, AttemptScores
  <2>4. FirstBest(ScoresOf(results), W, best)
    BY <2>2, <2>3 DEF FirstBest
  <2>5. place = best
    <3>1. W \in SUBSET Int /\ \A i \in W : ScoresOf(results)[i] \in Int
      BY <1>1, <1>3, <1>4, ScoreIsInt DEF ScoresOf
    <3> QED
      BY <2>1, <2>4, <3>1, FirstBestIsOne
  <2>6. place \in 1..n /\ place # 0
    BY <1>4, <2>1 DEF FirstBest
  <2> QED
    BY <1>1, <1>2, <2>1, <2>5, <2>6
<1>7. CASE PassingIn(results) = {} /\ WithTextIn(results) = {}
  <2>1. BestOutcome(results) = [result |-> Placeholder, no |-> 0]
    BY <1>1, <1>3, <1>7, BestOutcomeIs
  <2>2. best = 0
    BY <1>4, <1>7, BestAttemptIs
  <2> QED
    BY <2>1, <2>2
<1> QED
  BY <1>5, <1>6, <1>7

LEMMA KeptFollows == ASSUME \A id \in Members : Committed(id) PROVE KeepsWhatAttemptsSay
<1> SUFFICES ASSUME NEW id \in Members, outcome[id].status # "pending"
             PROVE  LET attempts == outcome[id].attempts
                        results  == [i \in DOMAIN attempts |-> ResultOf(attempts[i], id)]
                        best     == BestOutcome(results)
                        kept[n \in 0..Len(results)] ==
                          IF n = 0 THEN Placeholder ELSE Keep(kept[n - 1], results[n])
                    IN /\ best.result = kept[Len(results)]
                       /\ best.no = 0 <=> outcome[id].text = "source"
                       /\ best.no # 0 => outcome[id].text = AttemptText(attempts[best.no], id)
                       /\ best.result.kind = "pass" <=> outcome[id].status = "done"
  BY DEF KeepsWhatAttemptsSay
<1> DEFINE attempts == outcome[id].attempts
           results == [i \in DOMAIN attempts |-> ResultOf(attempts[i], id)]
           best == BestOutcome(results)
           kept[n \in 0..Len(results)] == IF n = 0 THEN Placeholder ELSE Keep(kept[n - 1], results[n])
<1>1. /\ Attempted(attempts, id) /\ outcome[id].status \in {"done", "review"}
      /\ \/ BestOf(id) = 0 /\ outcome[id].status = "review" /\ outcome[id].text = "source"
         \/ /\ BestOf(id) \in DOMAIN attempts
            /\ outcome[id].text = AttemptText(attempts[BestOf(id)], id)
            /\ outcome[id].status = "done" <=> AttemptPassed(attempts[BestOf(id)], id)
  BY CommittedIs
<1>2. /\ best.no = BestOf(id)
      /\ best.no = 0 => best.result = Placeholder
      /\ best.no # 0 => best.result = ResultOf(attempts[best.no], id)
  BY <1>1, SameChoice DEF BestOf
<1>3. /\ DOMAIN attempts = 1..Len(attempts) /\ Len(attempts) \in Nat /\ 0 \notin DOMAIN attempts
      /\ \A i \in DOMAIN attempts : SoundAttempt(attempts[i]) /\ AsksFor(attempts[i], id)
  BY <1>1, LenProperties DEF Attempted, IsSequence
<1>4. best.result = kept[Len(results)]
  <2>1. \A i \in 1..Len(attempts) : results[i] \in AttemptResults
    BY <1>3, ResultIs
  <2>2. results = [i \in 1..Len(attempts) |-> results[i]]
    BY <1>3
  <2>3. Len(results) = Len(attempts)
    <3>1. results \in Seq(AttemptResults)
      <4>1. results \in [1..Len(attempts) -> AttemptResults]
        BY <2>1, <2>2
      <4> HIDE DEF results
      <4> QED
        BY <1>3, <4>1, SeqDef
    <3>2. DOMAIN results = 1..Len(results) /\ Len(results) \in Nat
      BY <3>1, LenProperties
    <3> QED
      BY <1>3, <3>2
  <2>4. kept = CHOOSE f : f = [n \in 0..Len(results) |-> IF n = 0 THEN Placeholder ELSE Keep(f[n - 1], results[n])]
    OBVIOUS
  <2> HIDE DEF kept, results
  <2> QED
    BY <1>3, <2>1, <2>2, <2>3, <2>4, KeptIsBest
<1>5. /\ best.no = 0 <=> outcome[id].text = "source"
      /\ best.no # 0 => outcome[id].text = AttemptText(attempts[best.no], id)
      /\ best.result.kind = "pass" <=> outcome[id].status = "done"
  <2> HIDE DEF kept, results
  <2>1. CASE best.no = 0
    BY <1>1, <1>2, <1>3, <2>1 DEF Placeholder, NoVerdict
  <2>2. CASE best.no # 0
    <3>1. /\ best.no \in DOMAIN attempts
          /\ outcome[id].text = AttemptText(attempts[best.no], id)
          /\ outcome[id].status = "done" <=> AttemptPassed(attempts[best.no], id)
          /\ best.result = ResultOf(attempts[best.no], id)
      BY <1>1, <1>2, <2>2
    <3>2. AttemptText(attempts[best.no], id) \in Bodies
      BY <1>3, <3>1, PassedHasText
    <3>3. outcome[id].text # "source"
      BY <3>1, <3>2 DEF Bodies
    <3>4. best.result.kind = "pass" <=> AttemptPassed(attempts[best.no], id)
      BY <1>3, <3>1, ResultIs DEF Passed
    <3> QED
      BY <2>2, <3>1, <3>3, <3>4
  <2> QED
    BY <2>1, <2>2
<1> QED
  BY <1>4, <1>5

\* What is committed for a segment is what the orchestrator's model keeps of the
\* results of its attempts, chosen over the whole history or one at a time,
\* whatever the composite scores are.
THEOREM AttemptsAreFaithful == Spec => []KeepsWhatAttemptsSay
<1>1. IInv => KeepsWhatAttemptsSay
  BY KeptFollows DEF IInv, Course
<1> QED
  BY <1>1, Inductive, PTL

=============================================================================
