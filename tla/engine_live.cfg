SPECIFICATION FairSpec
CONSTANTS
  N = 1
  Needs <- SoloNeeds
  MaxParallel = 0
  Target <- SoloTarget
  MaxSessions <- SoloSessions
  NSteps <- SoloSteps
  Coe <- SoloCoe
  StepTimeout <- LiveStepTimeout
  JobTimeout <- SoloJobTimeout
  Disabled = {}
  ExitReasons = {"exit-code"}
  MaxMembers = 1
  MaySetsid = FALSE
PROPERTIES TeardownEnds CancelEndsRun JobTimeoutEndsJob
