--------------------------- MODULE LLMClientProofs ---------------------------
(***************************************************************************)
(* Proofs about LLMClient, for any number of callers, requests, retries    *)
(* and processes, any prices and any budget: the overspend is bounded,     *)
(* nobody but those who had looked before pays for what is cached, and the *)
(* responses weigh no more than the token bucket gained, but for what was  *)
(* never asked of it.                                                      *)
(*                                                                         *)
(* All three are bounds on the number of calls in flight.  The proof keeps *)
(* to what an action does to the set of them: a caller joins it, leaves it *)
(* or moves within it, or the process ends and it is empty.                *)
(***************************************************************************)
EXTENDS LLMClient, FiniteSetTheorems, TLAPS

\* The calls whose tokens are taken and not given back
Holding == {c \in Callers : pc[c] \in {"sent", "asleep"}}

\* What a call for a key took from the bucket
Taken(k) == Wanted(Tpm, Estimate(k))

\* One element for each token that a call took and still holds, so that the
\* sum over the calls is the size of a set
ClaimsOf(c, amount) == {c} \X (1..amount)

Claims == {claim \in Holding \X (1..Tpm) : claim[2] <= Taken(key[claim[1]])}

TypeInv ==
  /\ pc \in [Callers -> Places] /\ key \in [Callers -> Keys \cup {NoKey}]
  /\ \A c \in InFlight : key[c] \in Keys
  /\ pays \in [Keys -> Nat] /\ lost \in [Keys -> Nat]
  /\ spent \in Nat /\ tokens \in Nat /\ credit \in Int /\ excess \in Nat

\* OverspendIsBounded, and what a call in flight knows: that something was left.
Bounded ==
  InFlight # {} \/ spent > 0 =>
    spent + Cardinality(InFlight) * MaxCost < Limit + Cardinality(Callers) * MaxCost

\* What has left the bucket and was not used is held by calls.
Covered == credit + excess - tokens >= Cardinality(Claims)

Inductive == TypeInv /\ Bounded /\ NobodyPaysForCached /\ Covered

-----------------------------------------------------------------------------
LEMMA MaxCostIsMost == MaxCost \in Nat /\ \A cost \in Costs : cost <= MaxCost
BY LLMClientAssumption DEF MaxCost

LEMMA TakenIsNat == \A k \in Keys : Taken(k) \in Nat /\ Taken(k) <= Tpm
BY LLMClientAssumption, RateLimiterAssumption DEF Taken, Wanted, AtMost, Estimate

LEMMA DisjointCount ==
  ASSUME NEW S, NEW T, IsFiniteSet(S), IsFiniteSet(T), S \cap T = {}
  PROVE  Cardinality(S \cup T) = Cardinality(S) + Cardinality(T)
<1>1. Cardinality(S \cap T) = 0
  BY FS_EmptySet
<1>2. Cardinality(S) \in Nat /\ Cardinality(T) \in Nat
  BY FS_CardinalityType
<1>3. Cardinality(S \cup T) = Cardinality(S) + Cardinality(T) - Cardinality(S \cap T)
  BY FS_Union
<1> QED
  BY <1>1, <1>2, <1>3

\* Sets of callers are finite and no larger than the set of all.
LEMMA CountOfCallers ==
  ASSUME NEW S \in SUBSET Callers
  PROVE  IsFiniteSet(S) /\ Cardinality(S) \in Nat /\ Cardinality(S) <= Cardinality(Callers)
BY FS_Subset, FS_CardinalityType, LLMClientAssumption

LEMMA CallersAreCounted == Cardinality(Callers) \in Nat
BY FS_CardinalityType, LLMClientAssumption

LEMMA CountWithout ==
  ASSUME NEW S \in SUBSET Callers, NEW c \in S
  PROVE  Cardinality(S \ {c}) = Cardinality(S) - 1
BY CountOfCallers, FS_RemoveElement

LEMMA CountWith ==
  ASSUME NEW S \in SUBSET Callers, NEW c \in Callers \ S
  PROVE  Cardinality(S \cup {c}) = Cardinality(S) + 1
BY CountOfCallers, FS_AddElement

LEMMA CountOfNone == Cardinality({}) = 0
BY FS_EmptySet

LEMMA ScaledOrder ==
  ASSUME NEW m \in Nat, NEW n \in Nat, m <= n, NEW w \in Nat
  PROVE  m * w <= n * w
OBVIOUS

LEMMA ScaledOneLess ==
  ASSUME NEW n \in Nat, NEW w \in Nat
  PROVE  (n - 1) * w = n * w - w /\ (n + 1) * w = n * w + w
OBVIOUS

\* A difference that does not get less still covers what it covered.
LEMMA StillCovers ==
  ASSUME NEW a \in Int, NEW b \in Int, NEW m \in Nat, NEW n \in Nat, b >= a, a >= m, m >= n
  PROVE  b >= n
OBVIOUS

LEMMA SumGrows ==
  ASSUME NEW a \in Int, NEW b \in Int, NEW c \in Int, NEW d \in Int, NEW e \in Int,
         c - d >= a - b
  PROVE  c + e - d >= a + e - b
OBVIOUS

LEMMA ScaledIsNat ==
  ASSUME NEW n \in Nat, NEW w \in Nat
  PROVE  n * w \in Nat
OBVIOUS

-----------------------------------------------------------------------------
(* What the three bounds need of an action *)

LEMMA InFlightAreCallers ==
  /\ InFlight \subseteq Callers /\ Holding \subseteq InFlight
  /\ \A k \in Keys : WaitingFor(k) \subseteq InFlight
BY DEF InFlight, Holding, WaitingFor

LEMMA ClaimsOfOne ==
  ASSUME NEW c, NEW amount \in Nat
  PROVE  IsFiniteSet(ClaimsOf(c, amount)) /\ Cardinality(ClaimsOf(c, amount)) = amount
<1>1. IsFiniteSet({c}) /\ Cardinality({c}) = 1
  BY FS_Singleton
<1>2. IsFiniteSet(1..amount) /\ Cardinality(1..amount) = amount
  BY FS_Interval
<1>3. /\ IsFiniteSet({c} \X (1..amount))
      /\ Cardinality({c} \X (1..amount)) = Cardinality({c}) * Cardinality(1..amount)
  BY <1>1, <1>2, FS_Product
<1>4. 1 * amount = amount
  OBVIOUS
<1> QED
  BY <1>1, <1>2, <1>3, <1>4 DEF ClaimsOf

LEMMA ClaimsAreFinite == IsFiniteSet(Claims)
<1>1. IsFiniteSet(Holding)
  BY InFlightAreCallers, CountOfCallers
<1>2. IsFiniteSet(1..Tpm)
  BY FS_Interval, RateLimiterAssumption
<1>3. IsFiniteSet(Holding \X (1..Tpm))
  BY <1>1, <1>2, FS_Product
<1> QED
  BY <1>3, FS_Subset DEF Claims

\* No call joins and nothing is spent.
LEMMA BoundedWhenFewer ==
  ASSUME TypeInv, Bounded, InFlight' \subseteq InFlight, spent' = spent
  PROVE  Bounded'
<1>1. /\ InFlight' \subseteq Callers /\ IsFiniteSet(InFlight)
      /\ Cardinality(InFlight) \in Nat /\ Cardinality(InFlight') \in Nat
  BY InFlightAreCallers, CountOfCallers
<1>2. Cardinality(InFlight') <= Cardinality(InFlight)
  BY <1>1, FS_Subset
<1>3. Cardinality(InFlight') * MaxCost <= Cardinality(InFlight) * MaxCost
  BY <1>1, <1>2, ScaledOrder, MaxCostIsMost
<1>4. /\ Cardinality(InFlight') * MaxCost \in Nat /\ Cardinality(InFlight) * MaxCost \in Nat
      /\ Cardinality(Callers) * MaxCost \in Nat
  BY <1>1, CallersAreCounted, MaxCostIsMost, ScaledIsNat
<1> QED
  BY <1>3, <1>4, LLMClientAssumption DEF Bounded, TypeInv

\* A call joins while there is something left.
LEMMA BoundedWhenOneJoins ==
  ASSUME TypeInv, WithinBudget, InFlight' \subseteq Callers, spent' = spent
  PROVE  Bounded'
<1>1. Cardinality(InFlight') \in Nat /\ Cardinality(InFlight') <= Cardinality(Callers)
  BY CountOfCallers
<1>2. Cardinality(InFlight') * MaxCost <= Cardinality(Callers) * MaxCost
  BY <1>1, ScaledOrder, CallersAreCounted, MaxCostIsMost
<1>3. Cardinality(InFlight') * MaxCost \in Nat /\ Cardinality(Callers) * MaxCost \in Nat
  BY <1>1, CallersAreCounted, MaxCostIsMost, ScaledIsNat
<1> QED
  BY <1>2, <1>3, LLMClientAssumption DEF Bounded, WithinBudget, TypeInv

\* A call is answered: what it costs was counted for it.
LEMMA BoundedWhenOneLeaves ==
  ASSUME TypeInv, Bounded, NEW c \in InFlight, InFlight' = InFlight \ {c},
         NEW cost \in Costs, spent' = spent + cost
  PROVE  Bounded'
<1>1. Cardinality(InFlight') = Cardinality(InFlight) - 1 /\ Cardinality(InFlight) \in Nat
  BY InFlightAreCallers, CountOfCallers, CountWithout
<1>2. Cardinality(InFlight') * MaxCost = Cardinality(InFlight) * MaxCost - MaxCost
  BY <1>1, ScaledOneLess, MaxCostIsMost
<1>3. Cardinality(InFlight) * MaxCost \in Nat /\ Cardinality(Callers) * MaxCost \in Nat
  BY <1>1, CallersAreCounted, MaxCostIsMost, ScaledIsNat
<1>4. cost \in Nat /\ cost <= MaxCost
  BY MaxCostIsMost, LLMClientAssumption
<1>5. spent + Cardinality(InFlight) * MaxCost < Limit + Cardinality(Callers) * MaxCost
  BY DEF Bounded
<1> QED
  BY <1>2, <1>3, <1>4, <1>5, MaxCostIsMost, LLMClientAssumption DEF Bounded, TypeInv

\* Nothing is paid and no call begins to wait, but for a key without a response.
LEMMA PaidWhenNoneJoins ==
  ASSUME TypeInv, NobodyPaysForCached, UNCHANGED <<cache, pays, lost>>,
         \A k \in Keys : k \in cache => WaitingFor(k)' \subseteq WaitingFor(k)
  PROVE  NobodyPaysForCached'
<1> SUFFICES ASSUME NEW k \in Keys, k \in cache
             PROVE  pays[k] - lost[k] + Cardinality(WaitingFor(k)') <= Cardinality(Callers)
  BY DEF NobodyPaysForCached
<1>1. WaitingFor(k) \subseteq Callers /\ WaitingFor(k)' \subseteq Callers
  BY InFlightAreCallers
<1>2. /\ IsFiniteSet(WaitingFor(k))
      /\ Cardinality(WaitingFor(k)) \in Nat /\ Cardinality(WaitingFor(k)') \in Nat
  BY <1>1, CountOfCallers
<1>3. Cardinality(WaitingFor(k)') <= Cardinality(WaitingFor(k))
  BY <1>2, FS_Subset
<1>4. pays[k] - lost[k] + Cardinality(WaitingFor(k)) <= Cardinality(Callers)
  BY DEF NobodyPaysForCached
<1> QED
  BY <1>2, <1>3, <1>4, CallersAreCounted DEF TypeInv

\* A response is paid for by a call that waited for it.
LEMMA PaidWhenAnswered ==
  ASSUME TypeInv, NobodyPaysForCached, NEW c \in InFlight, NEW cost \in Costs,
         NEW cached \in BOOLEAN, Respond(c, cost, cached),
         \A k \in Keys : WaitingFor(k)' \subseteq WaitingFor(k) \ {c}
  PROVE  NobodyPaysForCached'
<1>0. PICK q \in Keys : q = key[c]
  BY DEF TypeInv
<1>1. c \in WaitingFor(q)
  BY <1>0 DEF WaitingFor
<1>2. /\ pays' = [pays EXCEPT ![q] = @ + 1]
      /\ cache' = IF cached THEN cache \cup {q} ELSE cache
      /\ lost' = IF cached THEN lost ELSE [lost EXCEPT ![q] = @ + 1]
  BY <1>0 DEF Respond
<1>3. ASSUME NEW k \in Keys
      PROVE  /\ WaitingFor(k) \subseteq Callers
             /\ Cardinality(WaitingFor(k)) \in Nat
             /\ Cardinality(WaitingFor(k)') \in Nat
             /\ Cardinality(WaitingFor(k)') <= Cardinality(WaitingFor(k))
             /\ Cardinality(WaitingFor(k)) <= Cardinality(Callers)
  <2>1. WaitingFor(k) \subseteq Callers /\ WaitingFor(k)' \subseteq WaitingFor(k)
    BY InFlightAreCallers
  <2>2. IsFiniteSet(WaitingFor(k))
    BY <2>1, CountOfCallers
  <2> QED
    BY <2>1, <2>2, CountOfCallers, FS_Subset
<1>4. Cardinality(WaitingFor(q)') <= Cardinality(WaitingFor(q)) - 1
  <2>1. WaitingFor(q) \subseteq Callers /\ WaitingFor(q)' \subseteq WaitingFor(q) \ {c}
    BY <1>1, InFlightAreCallers
  <2>2. Cardinality(WaitingFor(q) \ {c}) = Cardinality(WaitingFor(q)) - 1
    BY <2>1, <1>1, CountWithout
  <2>3. IsFiniteSet(WaitingFor(q) \ {c})
    BY <2>1, CountOfCallers
  <2> QED
    BY <2>1, <2>2, <2>3, FS_Subset
<1>5. ASSUME NEW k \in Keys, k # q
      PROVE  IF k \in cache'
             THEN pays'[k] - lost'[k] + Cardinality(WaitingFor(k)') <= Cardinality(Callers)
             ELSE pays'[k] = lost'[k]
  <2>1. pays'[k] = pays[k] /\ lost'[k] = lost[k] /\ (k \in cache' <=> k \in cache)
    BY <1>2, <1>5 DEF TypeInv
  <2>2. IF k \in cache
        THEN pays[k] - lost[k] + Cardinality(WaitingFor(k)) <= Cardinality(Callers)
        ELSE pays[k] = lost[k]
    BY DEF NobodyPaysForCached
  <2> QED
    BY <2>1, <2>2, <1>3, CallersAreCounted DEF TypeInv
<1>6. IF q \in cache'
      THEN pays'[q] - lost'[q] + Cardinality(WaitingFor(q)') <= Cardinality(Callers)
      ELSE pays'[q] = lost'[q]
  <2> DEFINE n == Cardinality(WaitingFor(q))
             m == Cardinality(WaitingFor(q)')
             all == Cardinality(Callers)
  <2>1. n \in Nat /\ m \in Nat /\ m <= n - 1 /\ n <= all /\ all \in Nat
    BY <1>3, <1>4, CallersAreCounted
  <2>2. pays[q] \in Nat /\ lost[q] \in Nat /\ pays'[q] = pays[q] + 1
    BY <1>1, <1>2 DEF TypeInv
  <2>3. IF q \in cache THEN pays[q] - lost[q] + n <= all ELSE pays[q] = lost[q]
    BY <1>1 DEF NobodyPaysForCached
  <2> HIDE DEF n, m, all
  <2>4. CASE cached
    <3>1. q \in cache' /\ lost'[q] = lost[q]
      BY <2>4, <1>2
    <3> QED
      BY <3>1, <2>1, <2>2, <2>3 DEF n, m, all
  <2>5. CASE ~cached
    <3>1. (q \in cache' <=> q \in cache) /\ lost'[q] = lost[q] + 1
      BY <2>5, <1>1, <1>2 DEF TypeInv
    <3> QED
      BY <3>1, <2>1, <2>2, <2>3 DEF n, m, all
  <2> QED
    BY <2>4, <2>5
<1> QED
  BY <1>1, <1>5, <1>6 DEF NobodyPaysForCached

\* No call takes tokens, and what is missing in the bucket does not get less.
LEMMA CoveredWhenFewer ==
  ASSUME TypeInv, Covered, Claims' \subseteq Claims, tokens' \in Int, credit' \in Int,
         excess' \in Int, credit' + excess' - tokens' >= credit + excess - tokens
  PROVE  Covered'
<1>1. /\ IsFiniteSet(Claims) /\ IsFiniteSet(Claims')
      /\ Cardinality(Claims) \in Nat /\ Cardinality(Claims') \in Nat
  BY ClaimsAreFinite, FS_Subset, FS_CardinalityType
<1>2. Cardinality(Claims') <= Cardinality(Claims)
  BY <1>1, FS_Subset
<1>3. credit + excess - tokens \in Int /\ credit' + excess' - tokens' \in Int
  BY DEF TypeInv
<1>4. credit' + excess' - tokens' >= Cardinality(Claims')
  BY <1>1, <1>2, <1>3, StillCovers DEF Covered
<1> QED
  BY <1>4 DEF Covered

\* The tokens go with the calls that hold them.
LEMMA ClaimsGoWithCalls ==
  ASSUME Holding' \subseteq Holding, \A d \in Holding' : key'[d] = key[d]
  PROVE  Claims' \subseteq Claims
BY DEF Claims

LEMMA NobodyClaims ==
  ASSUME Holding = {}
  PROVE  Cardinality(Claims) = 0
BY CountOfNone DEF Claims

\* A call takes all it asked for, or all that the bucket holds.
LEMMA CoveredWhenOneTakes ==
  ASSUME TypeInv, Covered, NEW c \in Callers \ Holding, key[c] \in Keys,
         Holding' = Holding \cup {c}, key' = key,
         TakeTokens(Estimate(key[c])), UNCHANGED weighed
  PROVE  Covered'
<1> DEFINE n == Cardinality(Claims)
           w == Taken(key[c])
<1>1. w \in Nat /\ 1..w = {i \in 1..Tpm : i <= w}
  BY TakenIsNat, RateLimiterAssumption
<1>2. Claims' = Claims \cup ClaimsOf(c, w) /\ Claims \cap ClaimsOf(c, w) = {}
  BY <1>1 DEF Claims, ClaimsOf
<1>3. n \in Nat /\ Cardinality(Claims') = n + w
  <2>1. n \in Nat
    BY ClaimsAreFinite, FS_CardinalityType
  <2>2. IsFiniteSet(ClaimsOf(c, w)) /\ Cardinality(ClaimsOf(c, w)) = w
    BY <1>1, ClaimsOfOne
  <2> QED
    BY <1>2, <2>1, <2>2, ClaimsAreFinite, DisjointCount
<1>4. tokens' = tokens - w
  BY DEF TakeTokens, Taken
<1>5. credit + excess - tokens >= n
  BY DEF Covered
<1>6. credit' = credit /\ excess' = excess
  BY DEF weighed
<1> HIDE DEF n, w
<1> QED
  BY <1>1, <1>3, <1>4, <1>5, <1>6 DEF Covered, TypeInv

\* An answered call gives back no more than it did not use, and what it had
\* not to take is counted beyond it.
LEMMA CoveredWhenOneLeaves ==
  ASSUME TypeInv, Covered, NEW c \in Holding, key[c] \in Keys, Holding' = Holding \ {c},
         \A d \in Holding' : key'[d] = key[d],
         NEW completion \in Completions, tokens' \in Nat, credit' \in Int, excess' \in Int,
         Refund(Unused(key[c], completion)), credit' = credit - (Prompt + completion),
         excess' = excess + Beyond(key[c], completion)
  PROVE  Covered'
<1> DEFINE n == Cardinality(Claims')
           w == Taken(key[c])
           most == MaxTokens[key[c]]
<1>1. w \in Nat /\ 1..w = {i \in 1..Tpm : i <= w}
  BY TakenIsNat, RateLimiterAssumption
<1>2. Claims = Claims' \cup ClaimsOf(c, w) /\ Claims' \cap ClaimsOf(c, w) = {}
  BY <1>1 DEF Claims, ClaimsOf
<1>3. IsFiniteSet(Claims')
  BY <1>2, ClaimsAreFinite, FS_Subset
<1>4. n \in Nat /\ Cardinality(Claims) = n + w
  <2>1. n \in Nat
    BY <1>3, FS_CardinalityType
  <2>2. IsFiniteSet(ClaimsOf(c, w)) /\ Cardinality(ClaimsOf(c, w)) = w
    BY <1>1, ClaimsOfOne
  <2> QED
    BY <1>2, <1>3, <2>1, <2>2, DisjointCount
<1>5. completion \in Nat /\ Prompt \in Nat /\ most \in Nat
  BY LLMClientAssumption
<1>6. tokens' <= tokens + Positive(most - completion)
  BY <1>5, RateLimiterAssumption DEF Refund, Unused, AtMost, Positive, TypeInv
<1>7. excess' = excess + (((Prompt + most) - w) + Positive(completion - most))
  BY DEF Beyond, Estimate, Taken
<1>8. credit + excess - tokens >= n + w
  BY <1>4 DEF Covered
<1> HIDE DEF n, w, most
<1>9. credit' + excess' - tokens' >= n
  BY <1>1, <1>4, <1>5, <1>6, <1>7, <1>8 DEF Positive, TypeInv
<1> QED
  BY <1>9 DEF Covered, n

-----------------------------------------------------------------------------
(* The actions *)

LEMMA InitIsInductive == Init => Inductive
<1> SUFFICES ASSUME Init PROVE Inductive
  OBVIOUS
<1>1. InFlight = {} /\ Holding = {}
  BY DEF Init, InFlight, Holding
<1>2. TypeInv
  BY <1>1, RateLimiterAssumption DEF Init, InitBuckets, TypeInv, Places
<1>3. Bounded
  BY <1>1 DEF Init, Bounded
<1>4. NobodyPaysForCached
  BY DEF Init, NobodyPaysForCached
<1>5. Covered
  BY <1>1, NobodyClaims, RateLimiterAssumption DEF Init, InitBuckets, Covered
<1> QED
  BY <1>2, <1>3, <1>4, <1>5 DEF Inductive

\* A process begins with nothing in flight, and when it ends nothing is.
LEMMA FreshIsEmpty ==
  ASSUME Fresh
  PROVE  /\ InFlight' = {} /\ Holding' = {}
         /\ \A k \in Keys : WaitingFor(k)' = {}
         /\ Bounded' /\ Covered'
         /\ pc' \in [Callers -> Places] /\ key' \in [Callers -> Keys \cup {NoKey}]
         /\ spent' \in Nat /\ tokens' \in Nat /\ credit' \in Int /\ excess' \in Nat
<1>1. InFlight' = {} /\ Holding' = {}
  BY DEF Fresh, InFlight, Holding
<1>2. \A k \in Keys : WaitingFor(k)' = {}
  BY <1>1 DEF WaitingFor
<1>3. Bounded'
  BY <1>1 DEF Fresh, Bounded
<1>4. Covered'
  <2>1. Cardinality(Claims') = 0
    BY <1>1, CountOfNone DEF Claims
  <2> QED
    BY <2>1, RateLimiterAssumption DEF Fresh, FullBuckets, Covered
<1>5. /\ pc' \in [Callers -> Places] /\ key' \in [Callers -> Keys \cup {NoKey}]
      /\ spent' \in Nat /\ tokens' \in Nat /\ credit' \in Int /\ excess' \in Nat
  BY RateLimiterAssumption DEF Fresh, FullBuckets, Places
<1> QED
  BY <1>1, <1>2, <1>3, <1>4, <1>5

LEMMA FreshStep ==
  ASSUME Inductive, Start \/ Stop
  PROVE  Inductive'
<1>1. Fresh /\ UNCHANGED <<cache, pays, lost>>
  BY DEF Start, Stop, disk, history
<1>2. TypeInv'
  BY <1>1, FreshIsEmpty DEF Inductive, TypeInv
<1>3. NobodyPaysForCached'
  BY <1>1, FreshIsEmpty, PaidWhenNoneJoins DEF Inductive
<1> QED
  BY <1>1, <1>2, <1>3, FreshIsEmpty DEF Inductive

LEMMA KilledBookingStep ==
  ASSUME Inductive, NEW c \in Callers, NEW cost \in Costs, KilledBooking(c, cost)
  PROVE  Inductive'
<1>1. c \in InFlight
  BY DEF KilledBooking, Respond, InFlight
<1>2. Fresh /\ Respond(c, cost, FALSE)
  BY DEF KilledBooking
<1>3. pays' \in [Keys -> Nat] /\ lost' \in [Keys -> Nat]
  BY <1>1, <1>2 DEF Inductive, TypeInv, Respond
<1>4. TypeInv'
  BY <1>2, <1>3, FreshIsEmpty DEF TypeInv
<1>5. NobodyPaysForCached'
  BY <1>1, <1>2, FreshIsEmpty, PaidWhenAnswered DEF Inductive
<1> QED
  BY <1>2, <1>4, <1>5, FreshIsEmpty DEF Inductive

\* A call that finds no response and some budget left joins those in flight.
LEMMA CompleteStep ==
  ASSUME Inductive, NEW c \in Callers, NEW k \in Keys, Complete(c, k)
  PROVE  Inductive'
<1> USE DEF Complete, buckets, disk
<1>1. CASE Cached(k)
  <2>1. UNCHANGED <<pc, key, spent, tokens, credit, excess, cache, pays, lost>>
    BY <1>1
  <2> QED
    BY <2>1 DEF Inductive, TypeInv, Bounded, NobodyPaysForCached, Covered, InFlight, Holding,
                WaitingFor, MaxCost, Claims
<1>2. CASE ~Cached(k)
  <2> DEFINE place == IF WithinBudget THEN "requests" ELSE "raised"
  <2>1. /\ pc' = [pc EXCEPT ![c] = place] /\ key' = [key EXCEPT ![c] = k]
        /\ UNCHANGED <<spent, tokens, credit, excess, cache, pays, lost>>
    BY <1>2 DEF Go
  <2>2. pc'[c] = place /\ key'[c] = k /\ pc[c] = "idle"
        /\ \A d \in Callers \ {c} : pc'[d] = pc[d] /\ key'[d] = key[d]
    BY <2>1 DEF Inductive, TypeInv
  <2>3. /\ Holding' = Holding
        /\ InFlight' = IF WithinBudget THEN InFlight \cup {c} ELSE InFlight
    BY <2>2 DEF InFlight, Holding
  <2>4. TypeInv'
    BY <2>1, <2>2, <2>3 DEF Inductive, TypeInv, Places, InFlight
  <2>5. Bounded'
    <3>1. CASE WithinBudget
      BY <3>1, <2>1, InFlightAreCallers, BoundedWhenOneJoins, <2>3 DEF Inductive
    <3>2. CASE ~WithinBudget
      BY <3>2, <2>1, <2>3, BoundedWhenFewer DEF Inductive
    <3> QED
      BY <3>1, <3>2
  <2>6. NobodyPaysForCached'
    <3>1. \A q \in Keys : q \in cache => WaitingFor(q)' \subseteq WaitingFor(q)
      BY <1>2, <2>2, <2>3 DEF WaitingFor, InFlight, Cached
    <3> QED
      BY <3>1, <2>1, PaidWhenNoneJoins DEF Inductive
  <2>7. Covered'
    <3>1. Claims' = Claims
      BY <2>2, <2>3 DEF Claims, Holding
    <3> QED
      BY <2>1, <3>1 DEF Covered, Inductive
  <2> QED
    BY <2>4, <2>5, <2>6, <2>7 DEF Inductive
<1> QED
  BY <1>1, <1>2

\* A caller goes from one place to another, to where it is in flight only from
\* where it was, and nothing is paid.
LEMMA Moves ==
  ASSUME Inductive, NEW c \in Callers, NEW place \in Places, Go(c, place),
         pc[c] \notin {"requests", "tokens", "sent", "asleep"} =>
           place \notin {"requests", "tokens", "sent", "asleep"},
         UNCHANGED <<key, spent, cache, pays, lost>>
  PROVE  /\ pc' \in [Callers -> Places]
         /\ \A d \in InFlight' : key'[d] \in Keys
         /\ Bounded' /\ NobodyPaysForCached'
<1>1. pc' \in [Callers -> Places] /\ InFlight' \subseteq InFlight
  BY DEF Inductive, TypeInv, Go, InFlight
<1>2. \A d \in InFlight' : key'[d] \in Keys
  BY <1>1 DEF Inductive, TypeInv
<1>3. Bounded'
  BY <1>1, BoundedWhenFewer DEF Inductive
<1>4. \A k \in Keys : WaitingFor(k)' \subseteq WaitingFor(k)
  BY <1>1 DEF WaitingFor
<1>5. NobodyPaysForCached'
  BY <1>4, PaidWhenNoneJoins DEF Inductive
<1> QED
  BY <1>1, <1>2, <1>3, <1>5

LEMMA AcquireRequestStep ==
  ASSUME Inductive, NEW c \in Callers, AcquireRequest(c)
  PROVE  Inductive'
<1> USE DEF AcquireRequest, TakeRequest, disk, history, weighed
<1>1. TypeInv' /\ Bounded' /\ NobodyPaysForCached'
  BY Moves DEF Inductive, TypeInv, Places
<1>2. Claims' = Claims
  BY DEF Go, Claims, Holding, Inductive, TypeInv
<1>3. Covered'
  BY <1>2, CoveredWhenFewer DEF Inductive, TypeInv
<1> QED
  BY <1>1, <1>3 DEF Inductive

LEMMA AcquireTokensStep ==
  ASSUME Inductive, NEW c \in Callers, AcquireTokens(c)
  PROVE  Inductive'
<1> USE DEF AcquireTokens, disk, history, weighed
<1>0. key[c] \in Keys
  BY DEF Inductive, TypeInv, InFlight
<1>1. tokens' \in Nat
  BY <1>0, TakenIsNat DEF TakeTokens, Taken, Inductive, TypeInv
<1>2. TypeInv' /\ Bounded' /\ NobodyPaysForCached'
  BY <1>1, Moves DEF Inductive, TypeInv, Places
<1>3. c \notin Holding /\ Holding' = Holding \cup {c}
  BY DEF Go, Holding, Inductive, TypeInv
<1>4. Covered'
  BY <1>0, <1>3, CoveredWhenOneTakes DEF Inductive
<1> QED
  BY <1>2, <1>4 DEF Inductive

LEMMA FailsStep ==
  ASSUME Inductive, NEW c \in Callers, FailsTransiently(c) \/ FailsForGood(c) \/ Resend(c)
  PROVE  Inductive'
<1> USE DEF FailsTransiently, FailsForGood, Resend, disk, history, buckets
<1>1. PICK place \in {"asleep", "raised", "sent"} : Go(c, place)
  OBVIOUS
<1>2. /\ pc[c] \in {"sent", "asleep"}
      /\ UNCHANGED <<tokens, credit, excess, cache, pays, lost, spent, key>>
  OBVIOUS
<1>3. TypeInv' /\ Bounded' /\ NobodyPaysForCached'
  BY <1>1, <1>2, Moves DEF Inductive, TypeInv, Places
<1>4. Holding' \subseteq Holding
  BY <1>1, <1>2 DEF Go, Holding, Inductive, TypeInv
<1>5. Covered'
  BY <1>2, <1>4, ClaimsGoWithCalls, CoveredWhenFewer DEF Inductive, TypeInv
<1> QED
  BY <1>3, <1>5 DEF Inductive

LEMMA RecordAttemptStep ==
  ASSUME Inductive, NEW c \in Callers, RecordAttempt(c)
  PROVE  Inductive'
<1> USE DEF RecordAttempt, history, buckets
<1>1. TypeInv' /\ Bounded' /\ NobodyPaysForCached'
  BY Moves DEF Inductive, TypeInv, Places
<1>2. Claims' = Claims
  BY DEF Go, Claims, Holding, Inductive, TypeInv
<1>3. Covered'
  BY <1>2, CoveredWhenFewer DEF Inductive, TypeInv
<1> QED
  BY <1>1, <1>3 DEF Inductive

\* Time adds the same to the bucket and to what it ever had.
LEMMA TimePassesStep ==
  ASSUME Inductive, TimePasses
  PROVE  Inductive'
<1> USE DEF TimePasses, disk, history
<1>1. UNCHANGED <<cache, pays, lost, spent, pc, key>>
  OBVIOUS
<1>2. /\ tokens' \in Nat /\ credit' \in Int /\ excess' = excess
      /\ credit' - tokens' >= credit - tokens
  BY RateLimiterAssumption DEF Tick, AtMost, Inductive, TypeInv
<1>3. TypeInv' /\ Bounded' /\ NobodyPaysForCached'
  BY <1>1, <1>2 DEF Inductive, TypeInv, Bounded, NobodyPaysForCached, InFlight, WaitingFor
<1>4. Claims' = Claims
  BY <1>1 DEF Claims, Holding
<1>5. Covered'
  <2> HIDE DEF TimePasses, disk, history
  <2>1. credit' + excess' - tokens' >= credit + excess - tokens
    <3>1. /\ tokens \in Int /\ credit \in Int /\ excess \in Int
          /\ tokens' \in Int /\ credit' \in Int
      BY <1>2 DEF Inductive, TypeInv
    <3>2. credit' + excess - tokens' >= credit + excess - tokens
      BY <1>2, <3>1, SumGrows
    <3> QED
      BY <1>2, <3>2
  <2> QED
    BY <1>2, <1>4, <2>1, CoveredWhenFewer DEF Inductive, TypeInv
<1> QED
  BY <1>3, <1>5 DEF Inductive

\* An answer: one call less, what it cost, what it did not use.
LEMMA ReturnsStep ==
  ASSUME Inductive, NEW c \in Callers, NEW completion \in Completions, NEW cost \in Costs,
         Returns(c, completion, cost)
  PROVE  Inductive'
<1>1. PICK cached \in BOOLEAN : Respond(c, cost, cached)
  BY DEF Returns
<1>2. PICK place \in {"owing", "idle"} : Go(c, place)
  BY DEF Returns
<1>3. /\ spent' = spent + cost /\ key' = [key EXCEPT ![c] = NoKey]
      /\ Refund(Unused(key[c], completion)) /\ credit' = credit - (Prompt + completion)
      /\ excess' = excess + Beyond(key[c], completion)
  BY DEF Returns
<1>4. pc[c] = "sent" /\ c \in InFlight /\ c \in Holding
  BY <1>1 DEF Respond, InFlight, Holding
<1>5. /\ pc' \in [Callers -> Places]
      /\ InFlight' = InFlight \ {c} /\ Holding' = Holding \ {c}
      /\ \A k \in Keys : WaitingFor(k)' \subseteq WaitingFor(k) \ {c}
  BY <1>2, <1>3, <1>4 DEF Go, Places, InFlight, Holding, WaitingFor, Inductive, TypeInv
<1>6. TypeInv'
  <2>1. pays' \in [Keys -> Nat] /\ lost' \in [Keys -> Nat]
    BY <1>1, <1>4 DEF Inductive, TypeInv, Respond
  <2>2. /\ key' \in [Callers -> Keys \cup {NoKey}]
        /\ \A d \in InFlight' : key'[d] \in Keys
    BY <1>3, <1>5 DEF Inductive, TypeInv, InFlight
  <2>3. /\ cost \in Nat /\ completion \in Nat /\ Prompt \in Nat
        /\ key[c] \in Keys /\ MaxTokens[key[c]] \in Nat
    BY <1>4, LLMClientAssumption DEF Inductive, TypeInv
  <2>4. tokens' \in Nat /\ credit' \in Int /\ spent' \in Nat
    BY <1>3, <2>3, RateLimiterAssumption DEF Refund, Unused, Positive, AtMost, Inductive, TypeInv
  <2>5. excess' \in Nat
    BY <1>3, <2>3, RateLimiterAssumption
       DEF Beyond, Positive, Estimate, Wanted, AtMost, Inductive, TypeInv
  <2> QED
    BY <1>5, <2>1, <2>2, <2>4, <2>5 DEF TypeInv
<1>7. Bounded'
  BY <1>3, <1>4, <1>5, BoundedWhenOneLeaves DEF Inductive
<1>8. NobodyPaysForCached'
  BY <1>1, <1>4, <1>5, PaidWhenAnswered DEF Inductive
<1>9. Covered'
  <2>1. key[c] \in Keys
    BY <1>4 DEF Inductive, TypeInv
  <2>2. \A d \in Holding' : key'[d] = key[d]
    BY <1>3, <1>5, InFlightAreCallers DEF Inductive, TypeInv
  <2>3. tokens' \in Nat /\ credit' \in Int /\ excess' \in Int
    BY <1>6 DEF TypeInv
  <2> QED
    BY <1>3, <1>4, <1>5, <2>1, <2>2, <2>3, CoveredWhenOneLeaves DEF Inductive
<1> QED
  BY <1>6, <1>7, <1>8, <1>9 DEF Inductive

LEMMA NextIsInductive == Inductive /\ [Next]_vars => Inductive'
<1> SUFFICES ASSUME Inductive, [Next]_vars PROVE Inductive'
  OBVIOUS
<1>1. CASE Start \/ Stop
  BY <1>1, FreshStep
<1>2. CASE TimePasses
  BY <1>2, TimePassesStep
<1>3. ASSUME NEW c \in Callers, NEW k \in Keys, Complete(c, k) PROVE Inductive'
  BY <1>3, CompleteStep
<1>4. ASSUME NEW c \in Callers, Step(c) PROVE Inductive'
  BY <1>4, AcquireRequestStep, AcquireTokensStep, ReturnsStep, FailsStep, RecordAttemptStep
     DEF Step, Answered
<1>5. ASSUME NEW c \in Callers, NEW cost \in Costs, KilledBooking(c, cost) PROVE Inductive'
  BY <1>5, KilledBookingStep
<1>6. CASE UNCHANGED vars
  BY <1>6 DEF vars, Inductive, TypeInv, Bounded, NobodyPaysForCached, Covered, InFlight,
              Holding, Claims, WaitingFor
<1> QED
  BY <1>1, <1>2, <1>3, <1>4, <1>5, <1>6 DEF Next

LEMMA AlwaysInductive == Spec => []Inductive
  BY InitIsInductive, NextIsInductive, PTL DEF Spec

-----------------------------------------------------------------------------
\* The ceiling is passed by less than what the calls on their way cost
\* (BudgetGuard.check before, BudgetGuard.record after a call).
THEOREM OverspendIsAlwaysBounded == Spec => []OverspendIsBounded
<1>1. Inductive => OverspendIsBounded
  BY DEF Inductive, Bounded, OverspendIsBounded
<1> QED
  BY <1>1, AlwaysInductive, PTL

\* A paid response is cached, but for kills and failed writes, and is bought
\* again only by callers that had looked for it before (PromptCache).
THEOREM CachedIsNeverBoughtAgain == Spec => []NobodyPaysForCached
<1>1. Inductive => NobodyPaysForCached
  BY DEF Inductive
<1> QED
  BY <1>1, AlwaysInductive, PTL

\* The responses weigh no more than the bucket gained and than calls larger than
\* it, or longer than max_tokens, never asked it for (RateLimiter.acquire, refund).
THEOREM TokensAlwaysWithinRate == Spec => []TokensWithinRate
<1>1. Inductive => TokensWithinRate
  <2> SUFFICES ASSUME Inductive PROVE credit + excess >= 0
    BY DEF TokensWithinRate
  <2>1. Cardinality(Claims) \in Nat
    BY ClaimsAreFinite, FS_CardinalityType
  <2> QED
    BY <2>1 DEF Inductive, Covered, TypeInv
<1> QED
  BY <1>1, AlwaysInductive, PTL

=============================================================================
