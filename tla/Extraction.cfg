\* Nine books, each switch off in turn, two commands, one or two tools.
SPECIFICATION Spec
CONSTANTS
  Books <- SomeBooks
  Replacements <- SomeReplacements
  Requests <- SomeRequests
  SwitchSets <- SomeSwitches
  ToolSets <- SomeTools
  Similar <- SomeSimilar
  MaxCommands = 2
  SamplePages = 3
  SkipPercent = 10
  MinChars = 200
  GarblePercent = 2
  OddPercent = 35
  GutterPercent = 5
  SharePercent = 25
  VisionCap = 2
  MarginPercent = 12
  FurniturePercent = 60
  NotePercent = 85
  GapTenths = 16
  DropCapTenths = 18
CHECK_DEADLOCK FALSE
INVARIANTS
  NothingLost
  ReadingOrder
  ParagraphsAreTheText
  HyphensFollowTheBook
  NeverSilentlyMixed
  TextOfTheBook
PROPERTIES
  HeadsOfTheBook
