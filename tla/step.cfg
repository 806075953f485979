CONSTANTS
  Steps <- MCSteps
  NSteps = 2
  Targets = {"local", "remote"}
  Hosts <- MCHosts
  Meddled <- MCMeddled
  MaxMeddles = 1
  ResultMax = 2
  PipeCap = 1
  BigLines <- MCBigLines
SPECIFICATION Spec
INVARIANTS
  SuccessMeansDone
  UnchangedIsHonest
  
  OutputsAreTheSteps
  
  
  GivenUpSeesAbsence
