CONSTANTS
  leaf = leaf
  top = top
  first = first
  second = second
  third = third
  t1 = t1
  t2 = t2
  t3 = t3
  t4 = t4
  a1 = a1
  a2 = a2
  NoRun = NoRun
  NoAttempt = NoAttempt
  Run <- FanRun
  Parent <- FanParent
  Task <- FanTask
  TaskRun <- FanTaskRun
  Upstream <- FanUpstream
  Contents <- FanContents
  Unrenderable = {t3, t4}
  ForceRerun = {second}
  Attempt <- OneAttempt
  Kind <- Kinds
  MaxRetries <- NoRetries
  Preserve = {"on_failure"}
  MaxCrashes = 1
SPECIFICATION Spec
INVARIANTS
  FailedRunsHaveACause
PROPERTY
  EndingsSpec
