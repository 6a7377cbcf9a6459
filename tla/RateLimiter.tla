----------------------------- MODULE RateLimiter -----------------------------
(***************************************************************************)
(* The two token buckets of llm/ratelimit.py, for callers that each hold   *)
(* one call at a time.  Time is cut into ticks; a bucket gains its refill  *)
(* in a tick and never holds more than its capacity.                       *)
(***************************************************************************)
EXTENDS Integers

CONSTANTS
  Rpm, Tpm,              \* capacities of the request and the token bucket
  RpmRefill, TpmRefill   \* what each gains in a tick

ASSUME RateLimiterAssumption ==
  /\ Rpm \in Nat \ {0} /\ Tpm \in Nat \ {0}
  /\ RpmRefill \in Nat \ {0} /\ TpmRefill \in Nat \ {0}

VARIABLES
  requests, tokens,  \* TokenBucket.tokens of the two
  credit,            \* history: all the tokens the second ever gained, less
                     \* those of the calls that were answered
  excess             \* history: what those calls could have weighed or did
                     \* weigh beyond what they had to take

weighed == <<credit, excess>>
buckets == <<requests, tokens, credit, excess>>

AtMost(capacity, level) == IF level > capacity THEN capacity ELSE level

\* An amount larger than the bucket is clamped to its capacity.
Wanted(capacity, amount) == AtMost(capacity, amount)

FullBuckets == requests' = Rpm /\ tokens' = Tpm /\ credit' = Tpm /\ excess' = 0

InitBuckets == requests = Rpm /\ tokens = Tpm /\ credit = Tpm /\ excess = 0

\* TokenBucket._refill as time goes by
Tick ==
  /\ requests < Rpm \/ tokens < Tpm
  /\ requests' = AtMost(Rpm, requests + RpmRefill)
  /\ tokens' = AtMost(Tpm, tokens + TpmRefill)
  /\ credit' = credit + (tokens' - tokens)
  /\ UNCHANGED excess

\* RateLimiter.acquire takes a request first, then the tokens.
TakeRequest ==
  /\ requests >= 1
  /\ requests' = requests - 1
  /\ UNCHANGED tokens

\* Variant: the last token of an amount is not handed out.
TakeTokensStrictly(amount) ==
  /\ tokens > Wanted(Tpm, amount)
  /\ tokens' = tokens - Wanted(Tpm, amount)
  /\ UNCHANGED requests

TakeTokens(amount) ==
  /\ tokens >= Wanted(Tpm, amount)
  /\ tokens' = tokens - Wanted(Tpm, amount)
  /\ UNCHANGED requests

\* RateLimiter.refund
Refund(amount) ==
  /\ tokens' = AtMost(Tpm, tokens + amount)
  /\ UNCHANGED requests

=============================================================================
