-------------------------- MODULE MCOptimisticSave --------------------------
EXTENDS OptimisticSave

\* Run.finish, Run.kill and two heartbeats (a save with no assignments).
FourSavers == {"finish", "kill", "beat1", "beat2"}
FinishAndKill == {"finish", "kill"}
Outcomes == {"finished", "killed"}
MCAssigns == [p \in Process |-> CASE p = "finish" -> {"finished"}
                                  [] p = "kill" -> {"killed"}
                                  [] OTHER -> {}]
=============================================================================
