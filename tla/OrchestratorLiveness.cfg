\* Three batches over two chapters on two slots, a summary after every batch;
\* one faulty run and one without faults, the breaker out of reach.
SPECIFICATION ResumingSpec
CONSTANTS
  Seg = {1, 2, 3}
  Batch = {1, 2, 3}
  Chapter = {"c1", "c2"}
  BatchOf <- TrioBatchOf
  ChapterOf <- TrioChapterOf
  Concurrency = 2
  MaxAttempts = 2
  BreakerMin = 4
  RateNum = 1
  RateDen = 2
  SummaryEvery = 1
  Judged <- PassOnly
  Malformed <- Sound
  MaxRuns = 2
  FaultyRuns = 1
CHECK_DEADLOCK FALSE
PROPERTIES
  RunEnds
  EventuallyCompleted
