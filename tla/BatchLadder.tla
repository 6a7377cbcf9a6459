----------------------------- MODULE BatchLadder -----------------------------
(***************************************************************************)
(* One batch on the retry ladder (Orchestrator._process_batch with         *)
(* Translator.translate_batch, validate_batch and Evaluator.evaluate),     *)
(* over several runs of the job, with the prompt cache (llm/cache.py)      *)
(* between the ladder and the models.                                      *)
(*                                                                         *)
(* Where Orchestrator says only which kind of result an attempt gives a    *)
(* segment, this module derives it from the answer and the judge's reply.  *)
(* A request is what the fingerprint covers; the cache keeps the text of a *)
(* response and nothing else of it, and may fail to keep even that.  What  *)
(* was paid for is in LLMClient.                                           *)
(***************************************************************************)
EXTENDS Answers, Verdicts, Attempts, TLC

CONSTANTS
  AllIds,        \* the ids of the batch, a sequence
  Models,        \* the models a job may be set to, and how often it is started
  MaxAttempts,   \* retry.max_attempts
  Temperatures,  \* retry.attempt_temperatures, a sequence
  Sampling,      \* evaluation.sample: "all", "some" or "none"
  AlwaysJudged,  \* headings, dialogue or glossary terms in the batch
  Contexts,      \* what the other batches may give it as context
  Hints,         \* what the run's length-ratio tracker may say of an answer
  ShowWarnings   \* evaluation.show_validation_warnings

\* The tracker has no opinion: it is new in every run and wants 25 samples.
Silent == "silent"

ASSUME BatchLadderAssumption ==
  /\ Sampling \in {"all", "some", "none"}
  /\ AlwaysJudged \in BOOLEAN
  /\ MaxAttempts \in Nat \ {0} /\ Len(Temperatures) > 0
  /\ Silent \in Hints /\ ShowWarnings \in BOOLEAN
  /\ \A m \in Models :
       /\ \A a \in m.answers : IsAnswer(a)
       /\ \A reply \in m.replies : IsReply(reply)
       /\ m.runs \in Nat

VARIABLES
  \* on disk
  outcome,   \* per segment: its status and the attempt its text is from
  drafts,    \* cached translator responses: pairs of request and text
  opinions,  \* cached judge responses: pairs of request and reply
  replayed,  \* the attempts of the last run, if it was stopped, and whether
             \* the cache has what they were answered and replied
  run,       \* how many runs were started
  models,    \* what the job's translator may answer and its judge reply, and
             \* (a bound) how many runs it has
  \* in the process
  stage,     \* "down", "asking", "judging" or "repairing"
  ids,       \* the ids left after _strip_done
  context,   \* the context of this run
  no,        \* attempt_no
  widen,     \* how often the budget was doubled
  retry,     \* the RetryContext
  answer,    \* the answer being judged
  hint,      \* what the length-ratio tracker said of it
  history    \* the attempts of this run

disk == <<outcome, drafts, opinions>>
vars == <<outcome, drafts, opinions, replayed, run, models, stage, ids,
          context, no, widen, retry, answer, hint, history>>

-----------------------------------------------------------------------------
(* Requests *)

NoRetry == [previous |-> <<>>, problems |-> {}, issues |-> {}]
NoReply == [readable |-> FALSE, none |-> TRUE]

\* _model_for: the last attempt escalates.
ModelFor(n) == IF n >= MaxAttempts THEN "escalation" ELSE "translator"

TemperatureFor(n) ==
  Temperatures[IF n < Len(Temperatures) THEN n ELSE Len(Temperatures)]

\* What the fingerprint of translate_batch's call covers; completion_budget
\* depends on the batch and on widen.
Request ==
  [ids |-> ids, context |-> context, retry |-> retry, model |-> ModelFor(no),
   temperature |-> TemperatureFor(no), widen |-> widen]

\* What the judge is shown: the texts by id, and the warnings about them, which
\* the texts decide as far as the tracker does not.
JudgeRequest(asked, a, h, repair) ==
  [texts  |-> [i \in DOMAIN asked |-> TextOf(a, asked[i])],
   warned |-> ShowWarnings /\ Warned(asked, a),
   length |-> IF ShowWarnings THEN h ELSE Silent,
   repair |-> repair]

\* Variant: nothing is found in the cache.
NeverCached(cache, request) == {}

Lookup(cache, request) == {entry \in cache : entry[1] = request}

\* PromptCache.put keeps the text of a response only.
TextOnly(a) == [a EXCEPT !.cut = FALSE]

Draft(request, a) == <<request, TextOnly(a)>>

-----------------------------------------------------------------------------
(* Attempts *)

IsWithReply(attempt) == attempt.reply # NoReply

Findings(attempt, id) == Relevant(attempt.request.ids, attempt.answer, id)

\* Attempt.unjudged: structured_output is "unparsed".
IsUnjudged(attempt) == IsWithReply(attempt) /\ ~attempt.reply.readable

AttemptPassed(attempt, id) ==
  /\ Findings(attempt, id) = {}
  /\ attempt.reply.readable
  /\ Passes(attempt.reply, id)

AttemptScore(attempt, id) ==
  IF Findings(attempt, id) # {} THEN -1
  ELSE IF attempt.reply.readable THEN VerdictComposite(attempt.reply, id)
  ELSE 0

AttemptText(attempt, id) == TextOf(attempt.answer, id)

\* Variant: the attempt that scored highest, text or no text.
BestWithoutText(attempts, id) ==
  LET N       == DOMAIN attempts
      passing == {i \in N : AttemptPassed(attempts[i], id)}
  IN IF passing # {} THEN CHOOSE i \in passing : \A j \in passing : j <= i
     ELSE CHOOSE i \in N :
            \A j \in N :
              \/ AttemptScore(attempts[j], id) < AttemptScore(attempts[i], id)
              \/ AttemptScore(attempts[j], id) = AttemptScore(attempts[i], id) /\ i <= j

\* _best_outcome: the number of the attempt to keep, 0 for the source text.
BestAttempt(attempts, id) ==
  LET N        == DOMAIN attempts
      passing  == {i \in N : AttemptPassed(attempts[i], id)}
      withText == {i \in N : AttemptText(attempts[i], id) # "empty"}
  IN IF passing # {} THEN CHOOSE i \in passing : \A j \in passing : j <= i
     ELSE IF withText = {} THEN 0
     ELSE CHOOSE i \in withText :
            \A j \in withText :
              \/ AttemptScore(attempts[j], id) < AttemptScore(attempts[i], id)
              \/ AttemptScore(attempts[j], id) = AttemptScore(attempts[i], id) /\ i <= j

-----------------------------------------------------------------------------
Source == [status |-> "review", text |-> "source", attempts |-> <<>>]
Unfinished == [status |-> "pending", text |-> "none", attempts |-> <<>>]

Members == {AllIds[i] : i \in DOMAIN AllIds}

Idle ==
  /\ stage' = "down" /\ ids' = <<>> /\ context' = "none" /\ no' = 0 /\ widen' = 0
  /\ retry' = NoRetry /\ answer' = <<>> /\ hint' = Silent /\ history' = <<>>

Init ==
  /\ outcome = [id \in Members |-> Unfinished]
  /\ drafts = {} /\ opinions = {}
  /\ replayed = <<>> /\ run = 0 /\ models \in Models
  /\ stage = "down" /\ ids = <<>> /\ context = "none" /\ no = 0 /\ widen = 0
  /\ retry = NoRetry /\ answer = <<>> /\ hint = Silent /\ history = <<>>

\* A run reaches the batch: what is left of it, in the context of this run.
StartRun(ctx) ==
  LET left == SelectSeq(AllIds, LAMBDA id : outcome[id].status # "done") IN
  /\ stage = "down" /\ run < models.runs /\ left # <<>>
  /\ run' = run + 1
  /\ stage' = "asking" /\ ids' = left /\ context' = ctx /\ no' = 1
  /\ UNCHANGED <<disk, replayed, widen, retry, answer, hint, history>>

-----------------------------------------------------------------------------
(* The end of an attempt *)

\* _build_retry_context
RetryContext(attempt) ==
  [previous |-> [attempt.answer EXCEPT !.cut = FALSE],
   problems |-> Critical(attempt.request.ids, attempt.answer),
   issues   |-> IF attempt.reply.readable THEN attempt.reply.issues ELSE {}]

Failing(attempt) ==
  {i \in DOMAIN ids : ~AttemptPassed(attempt, ids[i]) /\ ~IsUnjudged(attempt)}

\* _finish_batch for one segment
OutcomeOf(attempts, id) ==
  LET best == BestAttempt(attempts, id) IN
  IF best = 0 THEN [Source EXCEPT !.attempts = attempts]
  ELSE [status |-> IF AttemptPassed(attempts[best], id) THEN "done" ELSE "review",
        text |-> AttemptText(attempts[best], id),
        attempts |-> attempts]

InBatch(id) == \E i \in DOMAIN ids : ids[i] = id

\* Another attempt: some segment failed for what its translation says.
GoesOn(attempt) == Failing(attempt) # {} /\ no < MaxAttempts

\* _record_attempt, then the next attempt or _finish_batch; w is widen by now.
Record(a, h, reply, w) ==
  LET attempt  == [request |-> Request, answer |-> a, hint |-> h, reply |-> reply]
      attempts == Append(history, attempt)
  IN IF GoesOn(attempt)
     THEN /\ history' = attempts
          /\ no' = no + 1
          /\ widen' = w
          /\ retry' = RetryContext(attempt)
          /\ stage' = "asking"
          /\ answer' = <<>>
          /\ hint' = Silent
          /\ UNCHANGED <<outcome, ids, context, replayed, run>>
     ELSE /\ outcome' = [id \in Members |-> IF InBatch(id) THEN OutcomeOf(attempts, id)
                                            ELSE outcome[id]]
          /\ replayed' = <<>>
          /\ Idle
          /\ UNCHANGED run

-----------------------------------------------------------------------------
(* The translator answers *)

\* check_length_ratio; no check that warns is run on a mangled answer.
MayHint(a) == IF Critical(ids, a) # {} THEN {Silent} ELSE Hints

\* Variant: a mangled answer is judged like any other.
JudgeAnyway(a, h) == {TRUE}

\* should_evaluate, asked only when validation has no critical finding
MayJudge(a, h) ==
  IF Critical(ids, a) # {} THEN {FALSE}
  ELSE CASE Sampling = "all"  -> {TRUE}
         [] Sampling = "none" -> {FALSE}
         [] OTHER -> IF Warned(ids, a) \/ h # Silent \/ AlwaysJudged
                     THEN {TRUE} ELSE {TRUE, FALSE}

Answered(a) ==
  LET w == IF a.cut THEN widen + 1 ELSE widen IN
  \E h \in MayHint(a) : \E judge \in MayJudge(a, h) :
    IF judge
    THEN /\ stage' = "judging" /\ answer' = a /\ hint' = h /\ widen' = w
         /\ UNCHANGED <<outcome, replayed, run, ids, context, no, retry, history>>
    ELSE Record(a, h, NoReply, w)

\* PromptCache.put only logs that it failed.
PutDraft(a) == drafts' \in {drafts, drafts \cup {Draft(Request, a)}}

AnswerFromCache ==
  /\ stage = "asking"
  /\ \E entry \in Lookup(drafts, Request) : Answered(entry[2])
  /\ UNCHANGED <<drafts, opinions>>

AnswerFromModel ==
  /\ stage = "asking"
  /\ Lookup(drafts, Request) = {}
  /\ \E a \in models.answers : PutDraft(a) /\ Answered(a)
  /\ UNCHANGED opinions

-----------------------------------------------------------------------------
(* The judge replies, and replies again when its first reply is unreadable *)

Replied(reply) ==
  IF ~reply.readable /\ stage = "judging"
  THEN /\ stage' = "repairing"
       /\ UNCHANGED <<outcome, replayed, run, ids, context, no, widen, retry, answer,
                      hint, history>>
  ELSE Record(answer, hint, reply, widen)

AskedOfJudge == JudgeRequest(ids, answer, hint, stage = "repairing")

PutOpinion(reply) == opinions' \in {opinions, opinions \cup {<<AskedOfJudge, reply>>}}

ReplyFromCache ==
  /\ stage \in {"judging", "repairing"}
  /\ \E entry \in Lookup(opinions, AskedOfJudge) : Replied(entry[2])
  /\ UNCHANGED <<drafts, opinions>>

ReplyFromModel ==
  /\ stage \in {"judging", "repairing"}
  /\ Lookup(opinions, AskedOfJudge) = {}
  /\ \E reply \in models.replies : PutOpinion(reply) /\ Replied(reply)
  /\ UNCHANGED drafts

\* The cache has what the translator answered an attempt, and what the judge
\* replied, who may have been asked to repair an unreadable reply.
DraftKept(attempt) == Draft(attempt.request, attempt.answer) \in drafts

ReplyKept(attempt) ==
  LET Asked(repair) ==
        JudgeRequest(attempt.request.ids, attempt.answer, attempt.hint, repair)
  IN \/ ~IsWithReply(attempt)
     \/ attempt.reply.readable /\ <<Asked(FALSE), attempt.reply>> \in opinions
     \/ <<Asked(FALSE), Unreadable>> \in opinions /\ <<Asked(TRUE), attempt.reply>> \in opinions

\* The run is stopped or killed while the batch waits for a model.
Stopped ==
  /\ stage # "down"
  /\ run < models.runs
  /\ replayed' = [i \in DOMAIN history |->
                    [attempt |-> history[i], draftKept |-> DraftKept(history[i]),
                     replyKept |-> ReplyKept(history[i])]]
  /\ Idle
  /\ UNCHANGED <<disk, run>>

-----------------------------------------------------------------------------
Climb == AnswerFromCache \/ AnswerFromModel \/ ReplyFromCache \/ ReplyFromModel

Next ==
  /\ \/ \E ctx \in Contexts : StartRun(ctx)
     \/ Climb
     \/ Stopped
  /\ UNCHANGED models

Spec == Init /\ [][Next]_vars

-----------------------------------------------------------------------------
(* Properties *)

\* A segment is finished only with an attempt whose answer holds it exactly
\* once, in a paired tag and with usable text, asks for nothing else, was not
\* cut off, and was read and passed by the judge.
DoneIsSound ==
  \A id \in Members : outcome[id].status = "done" =>
    \E i \in DOMAIN outcome[id].attempts :
      LET a == outcome[id].attempts[i].answer
          reply == outcome[id].attempts[i].reply
      IN /\ \E n \in DOMAIN a.elements :
              /\ \A m \in DOMAIN a.elements : a.elements[m].id = id <=> m = n
              /\ ~a.elements[n].closed /\ ~a.elements[n].blocked
              /\ a.elements[n].body \in {"clean", "doubtful"}
              /\ outcome[id].text = a.elements[n].body
         /\ a.unclosed = 0 /\ a.stray # "refusal" /\ ~a.cut
         /\ reply.readable /\ Scored(reply, id)
         /\ reply.scores[id]["completeness"] >= CompletenessFloor
         /\ <<id, "critical">> \notin reply.issues

\* A finished batch has no gap: a flagged segment shows some text an attempt
\* of its last run returned for it, or the source when none returned any.
NoGap ==
  \A id \in Members : outcome[id].status = "review" =>
    LET attempts == outcome[id].attempts
        returned == {TextOf(attempts[i].answer, id) : i \in DOMAIN attempts} \ {"empty"}
    IN IF returned = {} THEN outcome[id].text = "source" ELSE outcome[id].text \in returned

\* What an attempt is worth to a segment, for Attempts.
ResultOf(attempt, id) ==
  IF Findings(attempt, id) # {}
  THEN NoVerdict(IF AttemptText(attempt, id) = "empty" THEN "blank" ELSE "malformed")
  ELSE IF IsUnjudged(attempt) THEN NoVerdict("unjudged")
  ELSE IF ~attempt.reply.readable \/ ~Scored(attempt.reply, id) THEN NoVerdict("unscored")
  ELSE Verdict(IF AttemptPassed(attempt, id) THEN "pass" ELSE "rejected",
               AttemptScore(attempt, id))

\* What is committed for a segment is what Attempts says of the results of its
\* attempts, whole or one attempt at a time: the orchestrator's abstraction of
\* the ladder keeps the text the ladder keeps.
KeepsWhatAttemptsSay ==
  \A id \in Members :
    LET attempts == outcome[id].attempts
        results  == [i \in DOMAIN attempts |-> ResultOf(attempts[i], id)]
        best     == BestOutcome(results)
        kept[n \in 0..Len(results)] ==
          IF n = 0 THEN Placeholder ELSE Keep(kept[n - 1], results[n])
    IN outcome[id].status # "pending" =>
         /\ best.result = kept[Len(results)]
         /\ best.no = 0 <=> outcome[id].text = "source"
         /\ best.no # 0 => outcome[id].text = AttemptText(attempts[best.no], id)
         /\ best.result.kind = "pass" <=> outcome[id].status = "done"

\* The results of one attempt are all without a verdict, all from one reply,
\* or all unjudged: the orchestrator's Results.
OneKindOfResult ==
  \A i \in DOMAIN history :
    LET kinds == {ResultOf(history[i], history[i].request.ids[n]).kind :
                    n \in DOMAIN history[i].request.ids}
    IN \/ kinds \subseteq {"malformed", "blank", "unscored"}
       \/ kinds \subseteq {"pass", "rejected", "unscored"}
       \/ kinds = {"unjudged"}

\* What the cache does not decide is as it was: the attempt was not cut off, the
\* tracker says the same of it, and the dice send it to the judge or not.  What
\* it does decide, it has kept.
SameCourse(old, new) ==
  /\ old.draftKept /\ old.replyKept /\ ~old.attempt.answer.cut
  /\ old.attempt.hint = new.hint
  /\ IsWithReply(old.attempt) = IsWithReply(new)

\* A resume that asks the first question of the stopped run again goes through
\* its attempts again for as long as they take the same course: it asks the
\* same, is answered the same text where the cache has it, and what it is told
\* of an attempt of the same course is what the stopped run was told.
ReplayFollows ==
  \A i \in DOMAIN replayed \cap DOMAIN history :
    /\ history[1].request = replayed[1].attempt.request
    /\ \A j \in 1..(i - 1) : SameCourse(replayed[j], history[j])
    => LET old == replayed[i].attempt
           new == history[i]
       IN /\ new.request = old.request
          /\ replayed[i].draftKept => TextOnly(new.answer) = TextOnly(old.answer)
          /\ SameCourse(replayed[i], new) => new.reply = old.reply

=============================================================================
