CONSTANTS
  top = top
  mid = mid
  left = left
  right = right
  side = side
  NoRun = NoRun
  Run <- MCRun
  Parent <- MCParent
  First <- MCFirst
SPECIFICATION CallsSpec
INVARIANTS
  FinishMatches
  FailMatches
  KillMatches
  SetRunningMatches
