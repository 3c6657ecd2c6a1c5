CONSTANTS
  leaf = leaf
  top = top
  first = first
  second = second
  third = third
  t1 = t1
  t2 = t2
  t3 = t3
  t4 = t4
  a1 = a1
  a2 = a2
  NoRun = NoRun
  NoAttempt = NoAttempt
  Run <- SoloRun
  Parent <- SoloParent
  Task <- SoloTask
  TaskRun <- SoloTaskRun
  Upstream <- SoloUpstream
  Contents <- SoloContents
  Unrenderable = {}
  ForceRerun = {}
  Attempt <- OneAttempt
  Kind <- Kinds
  MaxRetries <- OneSystemRetry
  Preserve = {"all"}
  MaxCrashes = 1
SPECIFICATION FairSpec
INVARIANTS
  TypeOK
  ExhaustedTasksHaveFailed
  FinishedTasksHaveAFinishedAttempt
  UnendedTasksAreWatched

  
