CONSTANTS
  Pusher = {0, 1, 2}
  Start = 0
  Shapes <- ShapesDef
  MaxPushing = 2
  MaxCrashes = 1

SPECIFICATION Spec

INVARIANTS
  InputSetsMatch
  FinishedRunIsComplete
  IInv

PROPERTIES
  TasksFlow
  
  RunEnds
