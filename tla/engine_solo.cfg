SPECIFICATION Spec
CONSTANTS
  N = 1
  Needs <- SoloNeeds
  MaxParallel = 0
  Target <- SoloTarget
  MaxSessions <- SoloSessions
  NSteps <- SoloSteps
  Coe <- SoloCoe
  StepTimeout <- SoloStepTimeout
  JobTimeout <- SoloJobTimeout
  Disabled = {}
  ExitReasons = {"exit-code", "plugin-error"}
  MaxMembers = 1
  MaySetsid = TRUE
INVARIANTS TypeOK Inv NeverAborts TimeoutIsOwn StepsAccountedFor NothingOutlivesItsStep
PROPERTIES KillAfterGrace OneGracePeriod StrongestTriggerWins TestsCoverTheEngine
