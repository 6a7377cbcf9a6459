\* Two segments, two attempts: every answer and reply in one run, few in a run
\* that is stopped anywhere and run again.
SPECIFICATION Spec
CONSTANTS
  AllIds <- TwoIds
  Models <- SomeModels
  MaxAttempts = 2
  Temperatures <- Ladder2
  Sampling = "some"
  AlwaysJudged = FALSE
  Contexts = {"same"}
  Hints = {"silent", "outlier"}
  ShowWarnings = TRUE
  Weights <- DefaultWeights
  CompletenessFloor = 70
  MinScore = 80
CHECK_DEADLOCK FALSE
INVARIANTS
  DoneIsSound
  NoGap
  KeepsWhatAttemptsSay
  OneKindOfResult
  ReplayFollows
