\* Four paragraphs, a pair of notes, two selections of chapters.
SPECIFICATION Spec
CONSTANTS
  Manuscripts <- SomeManuscripts
  Selections <- SomeSelections
  MaxSelections = 2
  HeadingSize = 12
  BlockIds <- SomeBlocks
  ChapterIds <- SomeChapters
  Budget = 7
  TagTokens = 1
  MaxSegments = 2
CHECK_DEADLOCK FALSE
INVARIANTS
  BatchesTile
  OneChapter
  WithinLimits
  NoneWasted
  RenderedOnce
  BatchesSurviveSelection
