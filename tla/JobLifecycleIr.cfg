\* What --chapters with --from leaves of the document on disk.
SPECIFICATION Spec
CONSTANTS
  Chapters = {1, 2}
  Segments = {"b1", "b2", "b3"}
  ChapterOf <- TwoChapters
  MaxCommands = 4
CHECK_DEADLOCK FALSE
INVARIANTS
  IrStaysComplete
