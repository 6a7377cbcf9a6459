\* What an export shows of the edits made before it.
SPECIFICATION Spec
CONSTANTS
  Chapters = {1, 2}
  Segments = {"b1", "b2", "b3"}
  ChapterOf <- TwoChapters
  MaxCommands = 4
CHECK_DEADLOCK FALSE
INVARIANTS
  ExportShowsEdits
