\* Three terms, two passages, three commands.
SPECIFICATION Spec
CONSTANTS
  Sources <- SomeSources
  Targets <- SomeTargets
  Kinds <- SomeKinds
  Names <- SomeNames
  Blocks <- SomeBlocks
  Samples = 2
  BatchTokens = 5
  MinOccurrences = 3
  Answers <- SomeAnswers
  Segments <- SomeSegments
  MaxCommands = 3
  NoFile = NoFile
  Broken = Broken
CHECK_DEADLOCK FALSE
INVARIANTS
  NothingLostToASlip
  AuditAgreesWithWarnings
PROPERTIES
  TermsKept
