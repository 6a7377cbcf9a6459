\* Three segments in two chapters, four commands.
SPECIFICATION Spec
CONSTANTS
  Chapters = {1, 2}
  Segments = {"b1", "b2", "b3"}
  ChapterOf <- TwoChapters
  MaxCommands = 4
CHECK_DEADLOCK FALSE
INVARIANTS
  EditsSurvive
  OnlySelected
  SavedShowsFinished
