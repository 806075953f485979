SPECIFICATION Spec
CONSTANTS
  N = 4
  Needs <- TeamNeeds
  MaxParallel = 2
  Target <- TeamTarget
  MaxSessions <- TeamSessions
  NSteps <- TeamSteps
  Coe <- TeamCoe
  StepTimeout <- TeamStepTimeout
  JobTimeout <- TeamJobTimeout
  Disabled = {4}
  ExitReasons = {"exit-code"}
  MaxMembers = 1
  MaySetsid = FALSE
INVARIANTS LimitsHold NeverUnrunnable CancelHeard NoLostExit
PROPERTY ImplementsWorkflow
