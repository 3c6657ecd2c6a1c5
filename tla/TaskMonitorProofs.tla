------------------------- MODULE TaskMonitorProofs --------------------------
(***************************************************************************)
(* Proofs about TaskMonitor, for any number of outputs and of requests     *)
(* that fail: its inductive invariant, the two invariants that follow from *)
(* it, and that the worker implements WorkerReports.                       *)
(***************************************************************************)
EXTENDS TaskMonitor, TLAPS

\* The initial state has reported and saved nothing.
LEMMA InitIInv == Init => IInv
<1> SUFFICES ASSUME Init PROVE IInv
  OBVIOUS
<1> USE OutputAssumption, LostAssumption DEF Init
<1>1. TypeOK
  <2>1. isFailed \in BOOLEAN /\ preserve \in [all : BOOLEAN, onFailure : BOOLEAN]
    OBVIOUS
  <2>2. step \in Steps /\ step # "upload"
    BY DEF Steps
  <2>3. next \in 1..(N + 1)
    OBVIOUS
  <2>4. data \in [Output -> {"none", "declared", "complete", "failed"}]
    OBVIOUS
  <2>5. lost \in 0..MaxLost /\ faults \subseteq {"quiet", "cleanup", "killed"}
    OBVIOUS
  <2> QED
    BY <2>1, <2>2, <2>3, <2>4, <2>5 DEF TypeOK
<1>2. ReportsInOrder  BY DEF ReportsInOrder
<1>3. OutputsInOrder  BY DEF OutputsInOrder, Output, Ending
<1>4. CausesKnown     BY DEF CausesKnown, Ending
<1>5. ContainerKnown  BY DEF ContainerKnown
<1> QED
  BY <1>1, <1>2, <1>3, <1>4, <1>5 DEF IInv

\* Types are kept: a request that fails is counted only below the bound, and the next
\* output is one of them or the one after the last.
LEMMA TypeStep == TypeOK /\ [Next]_vars => TypeOK'
<1> SUFFICES ASSUME TypeOK, [Next]_vars PROVE TypeOK'
  OBVIOUS
<1> USE OutputAssumption, LostAssumption DEF TypeOK, Steps, Output, After, Lose, ReportError, RequestFails
<1>1. CASE EventFails       BY <1>1 DEF EventFails
<1>2. CASE Initialize       BY <1>2 DEF Initialize
<1>3. CASE InitializeFails  BY <1>3 DEF InitializeFails
<1>4. CASE ConnectFails     BY <1>4 DEF ConnectFails
<1>5. CASE Step             BY <1>5 DEF Step
<1>6. CASE StepFails        BY <1>6 DEF StepFails
<1>7. CASE StreamFails      BY <1>7 DEF StreamFails
<1>8. CASE SaveLogs         BY <1>8 DEF SaveLogs
<1>9. CASE SaveLogsFails    BY <1>9 DEF SaveLogsFails
<1>10. CASE ImportExits     BY <1>10 DEF ImportExits
<1>11. CASE SaveOutput      BY <1>11 DEF SaveOutput
<1>12. CASE Upload          BY <1>12 DEF Upload
<1>13. CASE SaveOutputFails BY <1>13 DEF SaveOutputFails, OutputBreaks
<1>14. CASE ReportOutputs   BY <1>14 DEF ReportOutputs
<1>15. CASE Finish          BY <1>15 DEF Finish
<1>16. CASE DeleteWorkingDir BY <1>16 DEF DeleteWorkingDir
<1>17. CASE DeleteContainer BY <1>17 DEF DeleteContainer
<1>18. CASE Exit            BY <1>18 DEF Exit
<1>19. CASE Succeeds        BY <1>19 DEF Succeeds
<1>20. CASE AnalysisFails   BY <1>20 DEF AnalysisFails
<1>21. CASE HeartbeatFails  BY <1>21 DEF HeartbeatFails
<1>22. CASE Die             BY <1>22 DEF Die
<1>23. CASE UNCHANGED vars  BY <1>23 DEF vars
<1> QED
  BY <1>1, <1>2, <1>3, <1>4, <1>5, <1>6, <1>7, <1>8, <1>9, <1>10, <1>11, <1>12, <1>13, <1>14,
     <1>15, <1>16, <1>17, <1>18, <1>19, <1>20, <1>21, <1>22, <1>23 DEF Next, Work

\* Reports come in order: only the logs and what is after the finish see a report.
LEMMA ReportsStep == IInv /\ [Next]_vars => ReportsInOrder'
<1> SUFFICES ASSUME IInv, [Next]_vars PROVE ReportsInOrder'
  OBVIOUS
<1> USE DEF IInv, TypeOK, ReportsInOrder, After, Lose, ReportError
<1>1. CASE EventFails       BY <1>1 DEF EventFails
<1>2. CASE Initialize       BY <1>2 DEF Initialize
<1>3. CASE InitializeFails  BY <1>3 DEF InitializeFails
<1>4. CASE ConnectFails     BY <1>4 DEF ConnectFails
<1>5. CASE Step             BY <1>5 DEF Step
<1>6. CASE StepFails        BY <1>6 DEF StepFails
<1>7. CASE StreamFails      BY <1>7 DEF StreamFails
<1>8. CASE SaveLogs         BY <1>8 DEF SaveLogs
<1>9. CASE SaveLogsFails    BY <1>9 DEF SaveLogsFails
<1>10. CASE ImportExits     BY <1>10 DEF ImportExits
<1>11. CASE SaveOutput      BY <1>11 DEF SaveOutput
<1>12. CASE Upload          BY <1>12 DEF Upload
<1>13. CASE SaveOutputFails BY <1>13 DEF SaveOutputFails, OutputBreaks
<1>14. CASE ReportOutputs   BY <1>14 DEF ReportOutputs
<1>15. CASE Finish          BY <1>15 DEF Finish
<1>16. CASE DeleteWorkingDir BY <1>16 DEF DeleteWorkingDir
<1>17. CASE DeleteContainer BY <1>17 DEF DeleteContainer
<1>18. CASE Exit            BY <1>18 DEF Exit
<1>19. CASE Succeeds        BY <1>19 DEF Succeeds
<1>20. CASE AnalysisFails   BY <1>20 DEF AnalysisFails
<1>21. CASE HeartbeatFails  BY <1>21 DEF HeartbeatFails
<1>22. CASE Die             BY <1>22 DEF Die
<1>23. CASE UNCHANGED vars  BY <1>23 DEF vars
<1> QED
  BY <1>1, <1>2, <1>3, <1>4, <1>5, <1>6, <1>7, <1>8, <1>9, <1>10, <1>11, <1>12, <1>13, <1>14,
     <1>15, <1>16, <1>17, <1>18, <1>19, <1>20, <1>21, <1>22, <1>23 DEF Next, Work

\* The next output moves on only when the one before is complete, and only the next is
\* ever written.
LEMMA OutputsStep == IInv /\ [Next]_vars => OutputsInOrder'
<1> SUFFICES ASSUME IInv, [Next]_vars PROVE OutputsInOrder'
  OBVIOUS
<1> USE OutputAssumption DEF IInv, TypeOK, Output, OutputsInOrder, Steps, Ending, After, ReportError, RequestFails, Lose
<1>1. CASE EventFails       BY <1>1 DEF EventFails
<1>2. CASE Initialize       BY <1>2 DEF Initialize
<1>3. CASE InitializeFails  BY <1>3 DEF InitializeFails
<1>4. CASE ConnectFails     BY <1>4 DEF ConnectFails
<1>5. CASE Step             BY <1>5 DEF Step
<1>6. CASE StepFails        BY <1>6 DEF StepFails
<1>7. CASE StreamFails      BY <1>7 DEF StreamFails
<1>8. CASE SaveLogs         BY <1>8 DEF SaveLogs
<1>9. CASE SaveLogsFails    BY <1>9 DEF SaveLogsFails
<1>10. CASE ImportExits     BY <1>10 DEF ImportExits
<1>11. CASE SaveOutput      BY <1>11 DEF SaveOutput
<1>12. CASE Upload          BY <1>12 DEF Upload
<1>13. CASE SaveOutputFails BY <1>13 DEF SaveOutputFails, OutputBreaks
<1>14. CASE ReportOutputs   BY <1>14 DEF ReportOutputs
<1>15. CASE Finish          BY <1>15 DEF Finish
<1>16. CASE DeleteWorkingDir BY <1>16 DEF DeleteWorkingDir
<1>17. CASE DeleteContainer BY <1>17 DEF DeleteContainer
<1>18. CASE Exit            BY <1>18 DEF Exit
<1>19. CASE Succeeds        BY <1>19 DEF Succeeds
<1>20. CASE AnalysisFails   BY <1>20 DEF AnalysisFails
<1>21. CASE HeartbeatFails  BY <1>21 DEF HeartbeatFails
<1>22. CASE Die             BY <1>22 DEF Die
<1>23. CASE UNCHANGED vars  BY <1>23 DEF vars
<1> QED
  BY <1>1, <1>2, <1>3, <1>4, <1>5, <1>6, <1>7, <1>8, <1>9, <1>10, <1>11, <1>12, <1>13, <1>14,
     <1>15, <1>16, <1>17, <1>18, <1>19, <1>20, <1>21, <1>22, <1>23 DEF Next, Work

\* A report is missing only after a request that failed, or one of the silent ends.
LEMMA CausesStep == IInv /\ [Next]_vars => CausesKnown'
<1> SUFFICES ASSUME IInv, [Next]_vars PROVE CausesKnown'
  OBVIOUS
<1> USE LostAssumption DEF IInv, TypeOK, CausesKnown, ReportsInOrder, Ending, Steps, ReportError, RequestFails, Lose, After
<1>1. CASE EventFails       BY <1>1 DEF EventFails
<1>2. CASE Initialize       BY <1>2 DEF Initialize
<1>3. CASE InitializeFails  BY <1>3 DEF InitializeFails
<1>4. CASE ConnectFails     BY <1>4 DEF ConnectFails
<1>5. CASE Step             BY <1>5 DEF Step
<1>6. CASE StepFails        BY <1>6 DEF StepFails
<1>7. CASE StreamFails      BY <1>7 DEF StreamFails
<1>8. CASE SaveLogs         BY <1>8 DEF SaveLogs
<1>9. CASE SaveLogsFails    BY <1>9 DEF SaveLogsFails
<1>10. CASE ImportExits     BY <1>10 DEF ImportExits
<1>11. CASE SaveOutput      BY <1>11 DEF SaveOutput
<1>12. CASE Upload          BY <1>12 DEF Upload
<1>13. CASE SaveOutputFails BY <1>13 DEF SaveOutputFails, OutputBreaks
<1>14. CASE ReportOutputs   BY <1>14 DEF ReportOutputs
<1>15. CASE Finish          BY <1>15 DEF Finish
<1>16. CASE DeleteWorkingDir BY <1>16 DEF DeleteWorkingDir
<1>17. CASE DeleteContainer BY <1>17 DEF DeleteContainer
<1>18. CASE Exit            BY <1>18 DEF Exit
<1>19. CASE Succeeds        BY <1>19 DEF Succeeds
<1>20. CASE AnalysisFails   BY <1>20 DEF AnalysisFails
<1>21. CASE HeartbeatFails  BY <1>21 DEF HeartbeatFails
<1>22. CASE Die             BY <1>22 DEF Die
<1>23. CASE UNCHANGED vars  BY <1>23 DEF vars
<1> QED
  BY <1>1, <1>2, <1>3, <1>4, <1>5, <1>6, <1>7, <1>8, <1>9, <1>10, <1>11, <1>12, <1>13, <1>14,
     <1>15, <1>16, <1>17, <1>18, <1>19, <1>20, <1>21, <1>22, <1>23 DEF Next, Work

\* A container is made before it is removed, and removed only if the setting allows it.
LEMMA ContainerStep == IInv /\ [Next]_vars => ContainerKnown'
<1> SUFFICES ASSUME IInv, [Next]_vars PROVE ContainerKnown'
  OBVIOUS
<1> USE DEF IInv, TypeOK, ContainerKnown, After
<1>1. CASE EventFails       BY <1>1 DEF EventFails
<1>2. CASE Initialize       BY <1>2 DEF Initialize
<1>3. CASE InitializeFails  BY <1>3 DEF InitializeFails
<1>4. CASE ConnectFails     BY <1>4 DEF ConnectFails
<1>5. CASE Step             BY <1>5 DEF Step
<1>6. CASE StepFails        BY <1>6 DEF StepFails
<1>7. CASE StreamFails      BY <1>7 DEF StreamFails
<1>8. CASE SaveLogs         BY <1>8 DEF SaveLogs
<1>9. CASE SaveLogsFails    BY <1>9 DEF SaveLogsFails
<1>10. CASE ImportExits     BY <1>10 DEF ImportExits
<1>11. CASE SaveOutput      BY <1>11 DEF SaveOutput
<1>12. CASE Upload          BY <1>12 DEF Upload
<1>13. CASE SaveOutputFails BY <1>13 DEF SaveOutputFails, OutputBreaks
<1>14. CASE ReportOutputs   BY <1>14 DEF ReportOutputs
<1>15. CASE Finish          BY <1>15 DEF Finish
<1>16. CASE DeleteWorkingDir BY <1>16 DEF DeleteWorkingDir
<1>17. CASE DeleteContainer BY <1>17 DEF DeleteContainer, Preserved, Settings
<1>18. CASE Exit            BY <1>18 DEF Exit
<1>19. CASE Succeeds        BY <1>19 DEF Succeeds
<1>20. CASE AnalysisFails   BY <1>20 DEF AnalysisFails
<1>21. CASE HeartbeatFails  BY <1>21 DEF HeartbeatFails
<1>22. CASE Die             BY <1>22 DEF Die
<1>23. CASE UNCHANGED vars  BY <1>23 DEF vars
<1> QED
  BY <1>1, <1>2, <1>3, <1>4, <1>5, <1>6, <1>7, <1>8, <1>9, <1>10, <1>11, <1>12, <1>13, <1>14,
     <1>15, <1>16, <1>17, <1>18, <1>19, <1>20, <1>21, <1>22, <1>23 DEF Next, Work

\* No step breaks the invariant.
LEMMA Inductive == IInv /\ [Next]_vars => IInv'
<1> SUFFICES ASSUME IInv, [Next]_vars PROVE IInv'
  OBVIOUS
<1>1. TypeOK'          BY TypeStep DEF IInv
<1>2. ReportsInOrder'  BY ReportsStep
<1>3. OutputsInOrder'  BY OutputsStep
<1>4. CausesKnown'     BY CausesStep
<1>5. ContainerKnown'  BY ContainerStep
<1> QED
  BY <1>1, <1>2, <1>3, <1>4, <1>5 DEF IInv

\* The inductive invariant of the worker holds.
THEOREM WorkerInvariance == Spec => []IInv
<1>1. Init => IInv
  BY InitIInv
<1>2. IInv /\ [Next]_vars => IInv'
  BY Inductive
<1> QED
  BY <1>1, <1>2, PTL DEF Spec

\* Every variable of the worker keeps its type.
THEOREM WorkerTypeCorrect == Spec => []TypeOK
<1>1. IInv => TypeOK
  BY DEF IInv
<1> QED
  BY <1>1, WorkerInvariance, PTL

\* A worker that ended by itself without a report lost a request, or is one of the two
\* kinds that end in silence.
THEOREM SilenceCorrect == Spec => []SilenceHasACause
<1>1. IInv => SilenceHasACause
  BY DEF IInv, CausesKnown, SilenceHasACause, Ending
<1> QED
  BY <1>1, WorkerInvariance, PTL

\* The container is kept as PRESERVE_ON_FAILURE says, and PRESERVE_ALL says nothing.
THEOREM ContainerCorrect == Spec => []ContainerAsSet
<1>1. IInv => ContainerAsSet
  BY DEF IInv, ContainerKnown, ContainerAsSet
<1> QED
  BY <1>1, WorkerInvariance, PTL

-----------------------------------------------------------------------------
(* The refinement.                                                          *)

\* The worker begins as WorkerReports does.
LEMMA InitReports == Init => Reports!Init
  BY DEF Init, Reports!Init, Output

\* Each step of the worker is a step of WorkerReports, or one the server does not see.
LEMMA StepReports == IInv /\ [Next]_vars => [Reports!Next]_Reports!vars
<1> SUFFICES ASSUME IInv, [Next]_vars PROVE Reports!Next \/ UNCHANGED Reports!vars
  OBVIOUS
<1> USE DEF IInv, TypeOK, ReportsInOrder, After
<1>1. ASSUME UNCHANGED data, step # "gone", step' # "gone", UNCHANGED report
      PROVE  UNCHANGED Reports!vars
  BY <1>1 DEF Reports!vars
<1>2. ASSUME UNCHANGED data, step' = "gone"
      PROVE  Reports!Next \/ UNCHANGED Reports!vars
  BY <1>2 DEF Reports!Next, Reports!WorkerExits
<1>3. ASSUME UNCHANGED data, step # "gone", step' # "gone",
             report = "running", report' \in {report, "analysis", "system"}
      PROVE  Reports!Next \/ UNCHANGED Reports!vars
  BY <1>3 DEF Reports!Next, Reports!WorkerReportsError, Reports!vars
<1>4. ASSUME UNCHANGED report, step # "gone", step' # "gone", report = "running",
             next \in Output, data[next] # "complete",
             NEW state, data' = data \/ data' = [data EXCEPT ![next] = state]
      PROVE  Reports!Next \/ UNCHANGED Reports!vars
  <2> DEFINE Complete == {o \in Output : data[o] = "complete"}
  <2>1. Complete' = Complete \/ Complete' = Complete \cup {next}
    BY <1>4
  <2>2. CASE Complete' = Complete
    BY <1>4, <2>2 DEF Reports!vars
  <2>3. CASE Complete' = Complete \cup {next}
    BY <1>4, <2>3 DEF Reports!Next, Reports!SaveOutput
  <2> QED
    BY <2>1, <2>2, <2>3
<1>5. next \in Output /\ step \in {"outputs", "upload"} => data[next] # "complete"
  BY OutputAssumption DEF OutputsInOrder, Output, Ending
<1>6. CASE \/ EventFails \/ Initialize \/ ConnectFails \/ Step \/ StreamFails \/ SaveLogs
           \/ DeleteWorkingDir \/ DeleteContainer \/ Succeeds \/ HeartbeatFails
  <2>1. UNCHANGED <<data, report>>
    BY <1>6 DEF EventFails, Initialize, ConnectFails, Step, StreamFails, SaveLogs,
         DeleteWorkingDir, DeleteContainer, Succeeds, HeartbeatFails
  <2>2. step' = "gone" <=> step = "gone"
    BY <1>6 DEF EventFails, Initialize, ConnectFails, Step, StreamFails, SaveLogs,
         DeleteWorkingDir, DeleteContainer, Succeeds, HeartbeatFails, HasEvent
  <2> QED
    BY <2>1, <2>2 DEF Reports!vars
<1>7. CASE Exit \/ Die
  BY <1>2, <1>7 DEF Exit, Die
<1>8. CASE InitializeFails \/ StepFails \/ AnalysisFails \/ ReportOutputs
  BY <1>3, <1>8 DEF InitializeFails, StepFails, AnalysisFails, ReportOutputs, ReportError
<1>9. CASE SaveLogsFails
  <2>1. report' \in {report, "system"} /\ UNCHANGED data /\ step # "gone" /\ step' # "gone"
    BY <1>9 DEF SaveLogsFails, ReportError
  <2>2. report \in {"running", "analysis", "system"}
    BY <1>9 DEF SaveLogsFails
  <2> QED
    BY <2>1, <2>2 DEF Reports!Next, Reports!WorkerReportsError, Reports!vars
<1>10. CASE ImportExits
  <2>1. CASE step = "logs"
    BY <1>1, <1>10, <2>1 DEF ImportExits
  <2>2. CASE step = "upload"
    <3>1. UNCHANGED report /\ step # "gone" /\ step' # "gone" /\ report = "running"
      BY <1>10, <2>2 DEF ImportExits
    <3>2. next \in Output /\ data[next] # "complete"
      BY <1>5, <2>2
    <3>3. data' = [data EXCEPT ![next] = "failed"]
      BY <1>10, <2>2 DEF ImportExits
    <3> QED
      BY <1>4, <3>1, <3>2, <3>3
  <2> QED
    BY <1>10, <2>1, <2>2 DEF ImportExits
<1>11. CASE SaveOutput
  BY <1>4, <1>5, <1>11 DEF SaveOutput
<1>12. CASE Upload
  <2>1. UNCHANGED report /\ step # "gone" /\ step' # "gone" /\ report = "running"
    BY <1>12 DEF Upload
  <2>2. next \in Output /\ data[next] # "complete"
    BY <1>5, <1>12 DEF Upload
  <2>3. data' = [data EXCEPT ![next] = "complete"]
    BY <1>12 DEF Upload
  <2> QED
    BY <1>4, <2>1, <2>2, <2>3
<1>13. CASE SaveOutputFails
  <2>1. next \in Output /\ step \in {"outputs", "upload"}
    BY <1>13 DEF SaveOutputFails, OutputBreaks
  <2>2. \E state : data' = data \/ data' = [data EXCEPT ![next] = state]
    BY <1>13 DEF SaveOutputFails, OutputBreaks, RequestFails
  <2>3. UNCHANGED report /\ report = "running" /\ step # "gone" /\ step' # "gone"
    BY <1>13, <2>1 DEF SaveOutputFails
  <2> QED
    BY <1>4, <1>5, <2>1, <2>2, <2>3
<1>14. CASE Finish
  <2>1. {o \in Output : data[o] = "complete"} = Output
    BY <1>14, OutputAssumption DEF Finish, OutputsInOrder, Output
  <2>2. UNCHANGED data /\ report = "running" /\ step # "gone" /\ step' # "gone"
    BY <1>14 DEF Finish
  <2>3. report' \in {report, "finished"}
    BY <1>14 DEF Finish
  <2> QED
    BY <2>1, <2>2, <2>3 DEF Reports!Next, Reports!WorkerFinishes, Reports!vars
<1>15. CASE UNCHANGED vars
  BY <1>15 DEF vars, Reports!vars
<1> QED
  BY <1>6, <1>7, <1>8, <1>9, <1>10, <1>11, <1>12, <1>13, <1>14, <1>15 DEF Next, Work

\* Whatever fails and however often, the server sees what WorkerReports promises.
THEOREM WorkerImplementsReports == Spec => ReportsSpec
<1>1. Init => Reports!Init
  BY InitReports
<1>2. IInv /\ [Next]_vars => [Reports!Next]_Reports!vars
  BY StepReports
<1> QED
  BY <1>1, <1>2, WorkerInvariance, PTL DEF Spec, ReportsSpec, Reports!Spec
=============================================================================
