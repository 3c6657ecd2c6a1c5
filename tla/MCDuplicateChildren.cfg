CONSTANTS
  Pusher = {0, 1, 2}
  Start = 0
  Shapes <- DeepDef
  MaxPushing = 1
  MaxCrashes = 0

SPECIFICATION Spec

INVARIANT NoDuplicateChildren
