\* A resume that is interrupted before it reaches a flagged segment.
SPECIFICATION Spec
CONSTANTS
  Seg = {1, 2, 3}
  Batch = {1, 2, 3}
  Chapter = {"c1", "c2"}
  BatchOf <- TrioBatchOf
  ChapterOf <- TrioChapterOf
  Concurrency = 2
  MaxAttempts = 1
  BreakerMin = 2
  RateNum = 1
  RateDen = 2
  SummaryEvery = 2
  Judged <- PassOrReject
  Malformed <- Mangled
  MaxRuns = 2
  FaultyRuns = 2
CHECK_DEADLOCK FALSE
PROPERTIES
  TranslationStaysInDocument
