CONSTANTS
  Process <- FinishAndKill
  Column <- Outcomes
  Assigns <- MCAssigns
  Guarded = {"finish", "kill"}
  MaxRetries = 5
SPECIFICATION Spec
INVARIANT
  CompletedIsNotKilled
