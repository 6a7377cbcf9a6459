------------------------------ MODULE LLMClient ------------------------------
(***************************************************************************)
(* OpenAICompatibleClient.complete (llm/client.py) under concurrent        *)
(* callers: the prompt cache, the budget guard, the rate limiter, the      *)
(* retry loop, and the usage rows (jobs.run_job's on_usage, and the second *)
(* row of Orchestrator._record_attempt), over several processes of one     *)
(* job.                                                                    *)
(*                                                                         *)
(* Every await of the code is a point between two actions; what lies       *)
(* between two awaits is one action, because asyncio runs it so.  Only a   *)
(* kill cuts such a piece in two.                                          *)
(***************************************************************************)
EXTENDS RateLimiter, FiniteSets

CONSTANTS
  Callers,     \* tasks that may call at the same time
  Keys,        \* fingerprints of the requests they make
  NoKey,       \* the key of a caller that waits for nothing
  Translating, \* those made for translate_batch
  Prompt,      \* tokens of a prompt, as the client counts them
  MaxTokens,   \* per key, max_tokens of the request; 0 where it is None
  Completions, \* completion tokens of a response; max_tokens need not bound them
  Costs,       \* what a response may cost
  Limit,       \* budget.max_cost_usd
  Cap,         \* llm.max_transient_retries
  MaxCalls,    \* bound: calls made in all
  MaxStarts    \* bound: processes started

ASSUME LLMClientAssumption ==
  /\ IsFiniteSet(Callers) /\ Translating \subseteq Keys /\ NoKey \notin Keys
  /\ Prompt \in Nat \ {0} /\ MaxTokens \in [Keys -> Nat] /\ Completions \subseteq Nat
  /\ Costs \subseteq Nat /\ \E most \in Costs : \A cost \in Costs : cost <= most
  /\ Limit \in Nat /\ Cap \in Nat
  /\ MaxCalls \in Nat /\ MaxStarts \in Nat

VARIABLES
  \* on disk
  cache,     \* the keys with a cached response
  byCall,    \* usage written by on_usage, in cost
  byAttempt, \* usage written by _record_attempt, in cost
  \* history
  charged,   \* what all responses cost
  pays,      \* per key, how many responses were paid for
  lost,      \* per key, how many of them did not come to the cache
  starts, made,
  \* in the process
  up, spent, \* BudgetGuard.spent_usd
  pc, key, tries, due  \* per caller: where it is, and what _record_attempt owes

disk == <<cache, byCall, byAttempt>>
history == <<charged, pays, lost, made>>
vars == <<requests, tokens, credit, excess, cache, byCall,
          byAttempt, charged, pays, lost, starts, made, up, spent, pc, key,
          tries, due>>

Places == {"idle", "requests", "tokens", "sent", "asleep", "owing", "raised"}

Go(c, place) == pc' = [pc EXCEPT ![c] = place]

-----------------------------------------------------------------------------
Fresh ==
  /\ spent' = 0 /\ FullBuckets
  /\ pc' = [c \in Callers |-> "idle"] /\ key' = [c \in Callers |-> NoKey]
  /\ tries' = [c \in Callers |-> 0] /\ due' = [c \in Callers |-> 0]

Init ==
  /\ cache = {} /\ byCall = 0 /\ byAttempt = 0
  /\ charged = 0 /\ pays = [k \in Keys |-> 0] /\ lost = [k \in Keys |-> 0]
  /\ starts = 0 /\ made = 0 /\ up = FALSE
  /\ spent = 0 /\ InitBuckets
  /\ pc = [c \in Callers |-> "idle"] /\ key = [c \in Callers |-> NoKey]
  /\ tries = [c \in Callers |-> 0] /\ due = [c \in Callers |-> 0]

\* __init__: a process starts with full buckets and nothing spent.
Start ==
  /\ ~up /\ starts < MaxStarts
  /\ up' = TRUE /\ starts' = starts + 1 /\ Fresh
  /\ UNCHANGED <<disk, history>>

\* The run ends, in order or not; whatever its callers were waiting for is
\* dropped with it.
Stop ==
  /\ up
  /\ up' = FALSE /\ Fresh
  /\ UNCHANGED <<disk, history, starts>>

-----------------------------------------------------------------------------
(* complete *)

\* Variant: the ceiling counts as within it.
WithinBudgetOrAt == spent <= Limit

\* BudgetGuard.check
WithinBudget == spent < Limit

\* Variant: the cache is never asked.
AlwaysMissing(k) == FALSE

\* PromptCache.get
Cached(k) == k \in cache

\* From the call to its first await: cache, then budget.
Complete(c, k) ==
  /\ up /\ pc[c] = "idle" /\ made < MaxCalls
  /\ made' = made + 1
  /\ IF Cached(k) THEN UNCHANGED <<pc, key, tries>>
     ELSE /\ key' = [key EXCEPT ![c] = k]
          /\ tries' = [tries EXCEPT ![c] = 0]
          /\ Go(c, IF WithinBudget THEN "requests" ELSE "raised")
  /\ UNCHANGED <<buckets, disk, charged, pays, lost, starts, up, spent, due>>

AcquireRequest(c) ==
  /\ pc[c] = "requests" /\ TakeRequest
  /\ Go(c, "tokens")
  /\ UNCHANGED <<weighed, disk, history, starts, up, spent, key, tries, due>>

\* What complete asks of the limiter: without max_tokens, the prompt alone.
Estimate(k) == Prompt + MaxTokens[k]

\* The tokens are there: the request goes out.
AcquireTokens(c) ==
  /\ pc[c] = "tokens" /\ TakeTokens(Estimate(key[c]))
  /\ Go(c, "sent")
  /\ UNCHANGED <<weighed, disk, history, starts, up, spent, key, tries, due>>

\* What a response leaves on the disk: the row of on_usage first, then the
\* cached text, which a kill or a failed write may keep from it.
Respond(c, cost, cached) ==
  /\ pc[c] = "sent"
  /\ charged' = charged + cost
  /\ pays' = [pays EXCEPT ![key[c]] = @ + 1]
  /\ byCall' = byCall + cost
  /\ cache' = IF cached THEN cache \cup {key[c]} ELSE cache
  /\ lost' = IF cached THEN lost ELSE [lost EXCEPT ![key[c]] = @ + 1]
  /\ UNCHANGED <<byAttempt, starts, made>>

\* Variant: all of max_tokens is given back.
AllOfIt(k, completion) == MaxTokens[k]

Positive(amount) == IF amount > 0 THEN amount ELSE 0

\* What _call_once gives back to the limiter
Unused(k, completion) == Positive(MaxTokens[k] - completion)

\* What a call was let through with and never asked for: the part of its
\* estimate that the clamp to the capacity left out, and what the model wrote
\* beyond max_tokens.
Beyond(k, completion) ==
  (Estimate(k) - Wanted(Tpm, Estimate(k))) + Positive(completion - MaxTokens[k])

\* _call_once from the response to complete's return.  The caller of
\* translate_batch still owes the row of _record_attempt.
Returns(c, completion, cost) ==
  /\ \E cached \in BOOLEAN : Respond(c, cost, cached)
  /\ spent' = spent + cost
  /\ Refund(Unused(key[c], completion))
  /\ credit' = credit - (Prompt + completion)
  /\ excess' = excess + Beyond(key[c], completion)
  /\ IF key[c] \in Translating /\ cost > 0
     THEN Go(c, "owing") /\ due' = [due EXCEPT ![c] = cost]
     ELSE Go(c, "idle") /\ UNCHANGED due
  /\ key' = [key EXCEPT ![c] = NoKey]
  /\ tries' = [tries EXCEPT ![c] = 0]
  /\ UNCHANGED up

\* The process is killed between the usage row and the cache.
KilledBooking(c, cost) ==
  /\ Respond(c, cost, FALSE)
  /\ up' = FALSE /\ Fresh

RetriesLeft(c) == tries[c] < Cap

\* A connection error, a timeout, a 429 or a 5xx
FailsTransiently(c) ==
  /\ pc[c] = "sent"
  /\ IF RetriesLeft(c) THEN Go(c, "asleep") ELSE Go(c, "raised")
  /\ UNCHANGED <<buckets, disk, history, starts, up, spent, key, tries, due>>

\* The backoff is over: the request goes out again, past guard and limiter.
Resend(c) ==
  /\ pc[c] = "asleep"
  /\ Go(c, "sent")
  /\ tries' = [tries EXCEPT ![c] = @ + 1]
  /\ UNCHANGED <<buckets, disk, history, starts, up, spent, key, due>>

\* Any other error, and a response without choices
FailsForGood(c) ==
  /\ pc[c] = "sent"
  /\ Go(c, "raised")
  /\ UNCHANGED <<buckets, disk, history, starts, up, spent, key, tries, due>>

\* _record_attempt, once the judge has replied
RecordAttempt(c) ==
  /\ pc[c] = "owing"
  /\ byAttempt' = byAttempt + due[c]
  /\ due' = [due EXCEPT ![c] = 0]
  /\ Go(c, "idle")
  /\ UNCHANGED <<buckets, cache, byCall, history, starts, up, spent, key, tries>>

TimePasses ==
  /\ up /\ Tick
  /\ UNCHANGED <<disk, history, starts, up, spent, pc, key, tries, due>>

-----------------------------------------------------------------------------
Answered(c) ==
  \/ \E completion \in Completions, cost \in Costs : Returns(c, completion, cost)
  \/ FailsTransiently(c)
  \/ FailsForGood(c)

Step(c) ==
  \/ AcquireRequest(c) \/ AcquireTokens(c) \/ Answered(c) \/ Resend(c) \/ RecordAttempt(c)

Next ==
  \/ Start \/ Stop \/ TimePasses
  \/ \E c \in Callers :
       \/ \E k \in Keys : Complete(c, k)
       \/ Step(c)
       \/ \E cost \in Costs : KilledBooking(c, cost)

Spec == Init /\ [][Next]_vars

FairSpec == Spec /\ WF_vars(TimePasses) /\ \A c \in Callers : WF_vars(Step(c))

-----------------------------------------------------------------------------
(* Properties *)

\* Calls that passed the guard and have not been answered
InFlight == {c \in Callers : pc[c] \in {"requests", "tokens", "sent", "asleep"}}

WaitingFor(k) == {c \in InFlight : key[c] = k}

MaxCost == CHOOSE cost \in Costs : \A other \in Costs : other <= cost

\* The ceiling is passed by at most what the calls that were on their way when
\* it was reached cost, each once, however often they are retried.
OverspendIsBounded ==
  spent > 0 => spent + Cardinality(InFlight) * MaxCost < Limit + Cardinality(Callers) * MaxCost

\* A response that was paid for is in the cache, unless a kill or a failed
\* write came between; and once it is there only callers that had looked it up
\* before pay for the same request again.
NobodyPaysForCached ==
  \A k \in Keys :
    IF k \in cache
    THEN pays[k] - lost[k] + Cardinality(WaitingFor(k)) <= Cardinality(Callers)
    ELSE pays[k] = lost[k]

\* The responses weigh no more than all the token bucket ever gained, but for
\* what calls larger than the bucket, and answers longer than max_tokens, never
\* asked it for: the refunds of concurrent calls give back nothing beyond that.
TokensWithinRate == credit + excess >= 0

\* A call that waits is answered or raises in the end, unless the run stops.
EveryCallEnds ==
  \A c \in Callers : pc[c] \in {"requests", "tokens", "sent", "asleep"} ~> pc[c] \in {"idle", "owing", "raised"}

-----------------------------------------------------------------------------
(* Claims of the documentation that the code does not keep *)

\* The cost of the job is what its responses cost.
JobCostIsPaid == byCall + byAttempt = charged

=============================================================================
