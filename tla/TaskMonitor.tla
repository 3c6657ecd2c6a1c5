---------------------------- MODULE TaskMonitor -----------------------------
(***************************************************************************)
(* The worker of one task attempt (loomengine_worker/task_monitor.py, with *)
(* outputs.py and the import manager): it copies the inputs, runs the      *)
(* command in a container, saves logs and outputs, and reports what became *)
(* of it, while another thread sends heartbeats.                           *)
(*                                                                         *)
(* Every request to the server may fail: it does not arrive, or it does    *)
(* and the answer is lost.  Every step may fail by itself.  Both are       *)
(* exceptions, and whether they are reported depends on the try they are   *)
(* raised in.                                                              *)
(***************************************************************************)
EXTENDS Naturals

CONSTANTS
  N,        \* the number of outputs, which are saved in the order 1..N
  File,     \* those of them that are files
  MaxLost   \* bound: requests that fail

ASSUME OutputAssumption ==
  /\ N \in Nat
  /\ File \subseteq 1..N

ASSUME LostAssumption == MaxLost \in Nat

Output == 1..N

VARIABLES
  preserve,   \* the server's settings PRESERVE_ALL and PRESERVE_ON_FAILURE
  step,       \* what the thread of run is about to do
  next,       \* the output that is saved next
  isFailed,   \* is_failed of the monitor
  heart,      \* the thread that sends heartbeats
  container,  \* the container of the command
  data,       \* what the server has of each output
  report,     \* the last report the server has received
  lost,       \* how many other requests have failed
  faults      \* what else has gone wrong, by kind

vars == <<preserve, step, next, isFailed, heart, container, data, report, lost, faults>>

Steps == {"init", "inputs", "script", "container", "start", "stream", "returncode", "logs",
          "outputs", "upload", "reporting", "workdir", "cleanup", "returning", "gone"}

TypeOK ==
  /\ preserve \in [all : BOOLEAN, onFailure : BOOLEAN]
  /\ step \in Steps
  /\ next \in 1..(N + 1)
  /\ step = "upload" => next \in Output
  /\ isFailed \in BOOLEAN
  /\ heart \in {"none", "beating", "stopped"}
  /\ container \in {"none", "there", "removed"}
  /\ data \in [Output -> {"none", "declared", "complete", "failed"}]
  /\ report \in {"running", "analysis", "system", "finished"}
  /\ lost \in 0..MaxLost
  /\ faults \subseteq {"quiet", "cleanup", "killed"}

Init ==
  /\ preserve \in [all : BOOLEAN, onFailure : BOOLEAN]
  /\ step = "init"
  /\ next = 1
  /\ isFailed = FALSE
  /\ heart = "none"
  /\ container = "none"
  /\ data = [o \in Output |-> "none"]
  /\ report = "running"
  /\ lost = 0
  /\ faults = {}

-----------------------------------------------------------------------------
(* Requests and reports.                                                    *)

Lose == lost < MaxLost /\ lost' = lost + 1

\* A request about the next output fails: it did not arrive, or it did.  A repetition of
\* one that saved data is refused, "Update to existing data not allowed".
RequestFails(states) ==
  /\ Lose
  /\ data' \in {data} \cup {[data EXCEPT ![next] = state] : state \in states}

\* _report_system_error and _report_analysis_error post an event and then the error.
\* If either fails that is kept quiet; the error may have arrived or not.
ReportError(kind) ==
  /\ isFailed' = TRUE
  /\ \/ report' = kind /\ UNCHANGED lost
     \/ Lose /\ report' \in {report, kind}

\* The post of _event at the beginning of these steps is outside their try.
HasEvent == {"inputs", "container", "start", "returncode", "logs", "outputs"}

EventFails ==
  /\ step \in HasEvent
  /\ step = "outputs" => next = 1
  /\ Lose
  /\ step' = "workdir"
  /\ UNCHANGED <<preserve, next, isFailed, heart, container, data, report, faults>>

-----------------------------------------------------------------------------
(* __init__                                                                 *)

Initialize ==
  /\ step = "init"
  /\ step' = "inputs"
  /\ heart' = "beating"
  /\ UNCHANGED <<preserve, next, isFailed, container, data, report, lost, faults>>

\* Storage settings, settings, Docker or directories; run is never called.
InitializeFails ==
  /\ step = "init"
  /\ ReportError("system")
  /\ step' = "returning"
  /\ UNCHANGED <<preserve, next, heart, container, data, faults>>

\* The first event or the attempt itself: "From here on errors can be reported".
ConnectFails ==
  /\ step = "init"
  /\ Lose
  /\ step' = "returning"
  /\ UNCHANGED <<preserve, next, isFailed, heart, container, data, report, faults>>

-----------------------------------------------------------------------------
(* The steps of run before the analysis has ended.                          *)

After == [inputs |-> "script", script |-> "container", container |-> "start",
          start |-> "stream", stream |-> "returncode"]

Step ==
  /\ step \in DOMAIN After
  /\ step' = After[step]
  /\ container' = IF step = "container" THEN "there" ELSE container
  /\ UNCHANGED <<preserve, next, isFailed, heart, data, report, lost, faults>>

\* (Mutant of the next definition: the report is forgotten.)
StepFailsQuietly ==
  /\ step \in DOMAIN After \ {"stream"}
  /\ step' = "workdir"
  /\ container' \in IF step = "container" THEN {"none", "there"} ELSE {container}
  /\ UNCHANGED <<preserve, next, isFailed, heart, data, report, lost, faults>>

\* A step fails inside its try.  _create_container may fail with its last request, when
\* the container is there.
StepFails ==
  /\ step \in DOMAIN After \ {"stream"}
  /\ ReportError("system")
  /\ step' = "workdir"
  /\ container' \in IF step = "container" THEN {"none", "there"} ELSE {container}
  /\ UNCHANGED <<preserve, next, heart, data, faults>>

\* _stream_docker_logs has no try.
StreamFails ==
  /\ step = "stream"
  /\ step' = "workdir"
  /\ faults' = faults \cup {"quiet"}
  /\ UNCHANGED <<preserve, next, isFailed, heart, container, data, report, lost>>

Succeeds ==
  /\ step = "returncode"
  /\ step' = "logs"
  /\ UNCHANGED <<preserve, next, isFailed, heart, container, data, report, lost, faults>>

\* A bad return code is an analysis error, and a container that cannot be asked a
\* system error; neither is raised, so that the logs are saved.
AnalysisFails ==
  /\ step = "returncode"
  /\ \E kind \in {"analysis", "system"} : ReportError(kind)
  /\ step' = "logs"
  /\ UNCHANGED <<preserve, next, heart, container, data, faults>>

-----------------------------------------------------------------------------
(* Logs, outputs, finish.                                                   *)

\* (Mutant of the next definition: outputs are saved after a failed analysis.)
SaveLogsRegardless ==
  /\ step = "logs"
  /\ step' = "outputs"
  /\ UNCHANGED <<preserve, next, isFailed, heart, container, data, report, lost, faults>>

SaveLogs ==
  /\ step = "logs"
  /\ step' = IF isFailed THEN "workdir" ELSE "outputs"
  /\ UNCHANGED <<preserve, next, isFailed, heart, container, data, report, lost, faults>>

SaveLogsFails ==
  /\ step = "logs"
  /\ ReportError("system")
  /\ step' = "workdir"
  /\ UNCHANGED <<preserve, next, heart, container, data, faults>>

\* The import manager raises SystemExit when credentials for the cloud are missing,
\* which is no Exception.
ImportExits ==
  /\ step \in {"logs", "upload"}
  /\ step' = "workdir"
  /\ data' = IF step = "upload" THEN [data EXCEPT ![next] = "failed"] ELSE data
  /\ faults' = faults \cup {"quiet"}
  /\ UNCHANGED <<preserve, next, isFailed, heart, container, report, lost>>

\* The data of a file is first what the server knows of the file, then the copy of it.
SaveOutput ==
  /\ step = "outputs"
  /\ next \in Output
  /\ \/ /\ next \notin File
        /\ data' = [data EXCEPT ![next] = "complete"]
        /\ next' = next + 1
        /\ UNCHANGED step
     \/ /\ next \in File
        /\ data' = [data EXCEPT ![next] = "declared"]
        /\ step' = "upload"
        /\ UNCHANGED next
  /\ UNCHANGED <<preserve, isFailed, heart, container, report, lost, faults>>

Upload ==
  /\ step = "upload"
  /\ data' = [data EXCEPT ![next] = "complete"]
  /\ next' = next + 1
  /\ step' = "outputs"
  /\ UNCHANGED <<preserve, isFailed, heart, container, report, lost, faults>>

\* An output that is not there, a request that fails, or a copy that does, whose
\* failure is noted with the file.  The error of it goes to _save_outputs.
OutputBreaks ==
  \/ /\ step = "outputs"
     /\ next \in Output
     /\ \/ UNCHANGED <<data, lost>>
        \/ RequestFails(IF next \in File THEN {"declared"} ELSE {"complete"})
  \/ /\ step = "upload"
     /\ \/ data' = [data EXCEPT ![next] = "failed"] /\ UNCHANGED lost
        \/ RequestFails({"failed", "complete"})

\* (Mutant of the next definition: the output is tried again for ever.)
SaveOutputRetries ==
  /\ OutputBreaks
  /\ step' = "outputs"
  /\ UNCHANGED <<preserve, next, isFailed, heart, container, report, faults>>

SaveOutputFails ==
  /\ OutputBreaks
  /\ step' = "reporting"
  /\ UNCHANGED <<preserve, next, isFailed, heart, container, report, faults>>

ReportOutputs ==
  /\ step = "reporting"
  /\ ReportError("system")
  /\ step' = "workdir"
  /\ UNCHANGED <<preserve, next, heart, container, data, faults>>

\* (Mutant of the next definition: the first definition of _finish.)
FinishOrReport ==
  /\ step = "outputs"
  /\ next = N + 1
  /\ \/ report' = "finished" /\ step' = "workdir" /\ UNCHANGED <<isFailed, lost>>
     \/ /\ Lose
        /\ report' \in {report, "finished"}
        /\ step' = "reporting"
        /\ UNCHANGED isFailed
  /\ UNCHANGED <<preserve, next, heart, container, data, faults>>

\* The second definition of _finish is the one in force, without a try.
Finish ==
  /\ step = "outputs"
  /\ next = N + 1
  /\ \/ report' = "finished" /\ UNCHANGED lost
     \/ Lose /\ report' \in {report, "finished"}
  /\ step' = "workdir"
  /\ UNCHANGED <<preserve, next, isFailed, heart, container, data, faults>>

-----------------------------------------------------------------------------
(* The finally of run, heartbeats, and the end.                             *)

DeleteWorkingDir ==
  /\ step = "workdir"
  /\ \/ step' = "cleanup" /\ UNCHANGED faults
     \/ step' = "returning" /\ faults' = faults \cup {"cleanup"}
  /\ UNCHANGED <<preserve, next, isFailed, heart, container, data, report, lost>>

\* (Mutant of the next definition: what the settings say.)
SettingsAsNamed == [all |-> preserve.all, onFailure |-> preserve.onFailure]

\* What the server sends as PRESERVE_ALL is the value of PRESERVE_ON_FAILURE.
Settings == [all |-> preserve.onFailure, onFailure |-> preserve.onFailure]

Preserved == Settings.all \/ (isFailed /\ Settings.onFailure)

DeleteContainer ==
  /\ step = "cleanup"
  /\ step' = "returning"
  /\ \/ /\ container' = IF container = "there" /\ ~Preserved THEN "removed" ELSE container
        /\ UNCHANGED faults
     \/ /\ container = "there"
        /\ ~Preserved
        /\ faults' = faults \cup {"cleanup"}
        /\ UNCHANGED container
  /\ UNCHANGED <<preserve, next, isFailed, heart, data, report, lost>>

\* A heartbeat that fails ends the main thread; the other one goes on.
HeartbeatFails ==
  /\ heart = "beating"
  /\ heart' = "stopped"
  /\ UNCHANGED <<preserve, step, next, isFailed, container, data, report, lost, faults>>

\* The main thread sees that the other one has ended, and the process ends with both.
Exit ==
  /\ step = "returning"
  /\ step' = "gone"
  /\ heart' = "stopped"
  /\ UNCHANGED <<preserve, next, isFailed, container, data, report, lost, faults>>

\* The host goes down, or the container of the monitor is removed.
Die ==
  /\ step # "gone"
  /\ step' = "gone"
  /\ heart' = "stopped"
  /\ faults' = faults \cup {"killed"}
  /\ UNCHANGED <<preserve, next, isFailed, container, data, report, lost>>

Work ==
  \/ EventFails \/ Initialize \/ InitializeFails \/ ConnectFails
  \/ Step \/ StepFails \/ StreamFails
  \/ SaveLogs \/ SaveLogsFails \/ ImportExits
  \/ SaveOutput \/ Upload \/ SaveOutputFails \/ ReportOutputs \/ Finish
  \/ DeleteWorkingDir \/ DeleteContainer \/ Exit

Next ==
  \/ Work
  \/ Succeeds \/ AnalysisFails
  \/ HeartbeatFails
  \/ Die
  \/ step = "gone" /\ UNCHANGED vars

\* The thread of run goes on.  That the analysis ends is not assumed.
Spec == Init /\ [][Next]_vars /\ WF_vars(Work)

-----------------------------------------------------------------------------
(* Properties.                                                              *)

\* Whatever fails, the server sees what WorkerReports says: a finish comes after all
\* outputs, nothing but repetitions after it, and no output after an error.
Reports == INSTANCE WorkerReports WITH
  worker   <- IF step = "gone" THEN "exited" ELSE report,
  complete <- {o \in Output : data[o] = "complete"}

ReportsSpec == Reports!Spec

\* A worker that ends by itself without a report was cut off by requests that failed,
\* or is one of those that end in silence: the logs of the container could not be
\* streamed, or credentials were missing.
SilenceHasACause ==
  (step = "gone" /\ report = "running") => (lost > 0 \/ faults \cap {"quiet", "killed"} # {})

\* When the worker has ended by itself and could clean up, its container is there if and
\* only if PRESERVE_ON_FAILURE is set, whatever PRESERVE_ALL is and however it ended.
ContainerAsSet ==
  (step = "gone" /\ faults \cap {"cleanup", "killed"} = {}) =>
    /\ container = "there" => preserve.onFailure
    /\ container = "removed" => ~preserve.onFailure

\* The worker hangs nowhere but in the analysis, whatever fails.
EndsAfterAnalysis == (step = "logs") ~> (step = "gone" /\ heart = "stopped")

\* The inductive invariant.  Until the logs nothing has been reported but the analysis,
\* and outputs are saved only if nothing has; outputs before the next one are complete;
\* what ended without a report has a cause; the container is as set once it is cleaned up.
ReportsInOrder ==
  /\ step \in DOMAIN After \cup {"init", "returncode", "outputs", "upload", "reporting"} =>
       report = "running" /\ ~isFailed
  /\ step = "logs" =>
       report \in {"running", "analysis", "system"} /\ (~isFailed => report = "running")

Ending == {"workdir", "cleanup", "returning", "gone"}

OutputsInOrder ==
  \A o \in Output :
    /\ o < next => data[o] = "complete"
    /\ o >= next /\ step \notin Ending \cup {"reporting"} => data[o] # "complete"

CausesKnown ==
  (step \in Ending \/ isFailed) /\ report = "running" =>
    lost > 0 \/ faults \cap {"quiet", "killed"} # {}

ContainerKnown ==
  /\ step = "init" => container = "none"
  /\ container = "removed" => ~preserve.onFailure
  /\ step \in {"returning", "gone"} /\ faults \cap {"cleanup", "killed"} = {} =>
       (container = "there" => preserve.onFailure)

IInv == TypeOK /\ ReportsInOrder /\ OutputsInOrder /\ CausesKnown /\ ContainerKnown
=============================================================================
