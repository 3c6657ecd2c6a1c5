CONSTANTS
  Process <- FourSavers
  Column <- Outcomes
  Assigns <- MCAssigns
  Guarded = {"finish", "kill"}
  MaxRetries = 4
SPECIFICATION FairSpec
INVARIANTS
  ConflictsComeFromOthers
  IInv
PROPERTY
  SaveReturns
