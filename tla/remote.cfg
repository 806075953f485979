CONSTANTS
  NJobs = 4
  NSteps <- MCNSteps
  TargetOf <- MCTargetOf
  LocalOnly = {3}
  Disabled = {"out"}
  MaxDeaths = 1
  MaxSlow = 1
SPECIFICATION Spec
INVARIANTS
  StopsAreHeard
  MastersClosed
  LostIsSaidSo
  
