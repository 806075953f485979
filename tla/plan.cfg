SPECIFICATION Spec
CONSTANTS
  N = 3
  Docs <- MCDocs
  Disabled = {2}
INVARIANTS CycleFoundIffThere SelectionIsRunnable ExitTellsTheTruth AcceptedRefsResolve
