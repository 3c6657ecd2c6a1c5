CONSTANTS
  N = 3
  File = {1, 3}
  MaxLost = 3

SPECIFICATION Spec

INVARIANTS
  SilenceHasACause
  
  IInv

PROPERTIES
  ReportsSpec
  EndsAfterAnalysis
