CONSTANTS
  leaf = leaf
  top = top
  first = first
  second = second
  third = third
  t1 = t1
  t2 = t2
  t3 = t3
  t4 = t4
  a1 = a1
  a2 = a2
  NoRun = NoRun
  NoAttempt = NoAttempt
  Run <- RelayRun
  Parent <- RelayParent
  Task <- RelayTask
  TaskRun <- RelayTaskRun
  Upstream <- RelayUpstream
  Contents <- RelayContents
  Unrenderable = {}
  ForceRerun = {}
  Attempt <- TwoAttempts
  Kind <- Kinds
  MaxRetries <- NoRetries
  Preserve = {"all"}
  MaxCrashes = 0
SYMMETRY AttemptSymmetry
SPECIFICATION Spec
INVARIANTS
  RunHasOneOutcome
  SharedAttemptsHaveSameContents
  FinishedRunsAreComplete
  IInv
  EndsSpread
PROPERTY
  EndingsSpec
