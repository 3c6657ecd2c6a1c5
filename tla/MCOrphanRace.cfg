CONSTANTS
  t1 = t1
  t2 = t2
  a1 = a1
  a2 = a2
  NoAttempt = NoAttempt
  Task <- TwoTasks
  Attempt <- TwoAttempts
  MaxDeaths = 1
SPECIFICATION Spec
PROPERTY
  AttemptsInTheMakingAreKept
CHECK_DEADLOCK FALSE
