\* Two callers and three requests, a tight budget and tight buckets.
SPECIFICATION FairSpec
CONSTANTS
  t1 = t1
  t2 = t2
  j1 = j1
  Callers = {c1, c2}
  Keys = {t1, t2, j1}
  Translating = {t1, t2}
  NoKey = none
  Prompt = 1
  MaxTokens <- Allowed
  Completions = {1, 3}
  Costs = {1, 2}
  Limit = 2
  Cap = 1
  Rpm = 1
  Tpm = 4
  RpmRefill = 1
  TpmRefill = 2
  MaxCalls = 3
  MaxStarts = 2
CHECK_DEADLOCK FALSE
INVARIANTS
  OverspendIsBounded
  NobodyPaysForCached
  TokensWithinRate
PROPERTIES
  EveryCallEnds
