\* Batches that share a chapter, segments that share a batch: per-segment
\* outcomes, partial commits, the breaker, faults at every point of two runs.
SPECIFICATION Spec
CONSTANTS
  Seg = {1, 2, 3, 4}
  Batch = {1, 2, 3}
  Chapter = {"c1", "c2"}
  BatchOf <- QuadBatchOf
  ChapterOf <- QuadChapterOf
  Concurrency = 2
  MaxAttempts = 2
  BreakerMin = 2
  RateNum = 1
  RateDen = 2
  SummaryEvery = 2
  Judged <- PassOrOmit
  Malformed <- Blank
  MaxRuns = 2
  FaultyRuns = 2
CHECK_DEADLOCK FALSE
INVARIANTS
  TypeOK
  DoneIsAccepted
  NoRework
  CompletedHasNoGap
  QuietWhenStopped
  MemoryMatchesRows
  BreakerCountsCommitted
  DoneIsExported
PROPERTIES
  KeepsPromise
