----------------------------- MODULE Lifecycle -----------------------------
(***************************************************************************)
(* The life of runs, tasks and task attempts in the Loom server: the rows  *)
(* of models/runs.py, models/tasks.py and models/task_attempts.py, the     *)
(* handlers of async.py and views.py that change them, and the worker      *)
(* processes (task_monitor.py) that report on attempts.                    *)
(*                                                                         *)
(* Many handlers run at once: 30 greenlets of the Celery worker and the    *)
(* web server's threads share the database, and every statement commits on *)
(* its own.  A handler is therefore not one step.  Where the code loads    *)
(* rows and acts on them after other work (the loop over active_on_tasks,  *)
(* the pass of check_for_stalled_tasks, execute_task between its decision  *)
(* and the activation) the loaded rows are kept in a variable and acted on *)
(* in a later step, by which time the database may have moved on.  The     *)
(* work on one task within such a step is atomic; OptimisticSave opens up  *)
(* a single save.                                                          *)
(*                                                                         *)
(* Time is not modelled: a heartbeat or a task may be found too old at any *)
(* check.  Data is not modelled either: a task is ready when the tasks it  *)
(* takes its inputs from have pushed their outputs.                        *)
(***************************************************************************)
EXTENDS RunTree

CONSTANTS
  Task,          \* the tasks the inputs of the runs give rise to
  TaskRun,       \* Task.run
  Upstream,      \* the tasks whose outputs make up the inputs of a task
  Contents,      \* the value of TaskFingerprint for each task
  Unrenderable,  \* the tasks whose command or file names cannot be rendered
  ForceRerun,    \* the runs with force_rerun set, all if the server has FORCE_RERUN
  Attempt,       \* the rows TaskAttempt can have
  NoAttempt,     \* a null task_attempt or active_task_attempt
  Kind,          \* the three kinds of error
  MaxRetries,    \* MAXIMUM_RETRIES_FOR_*_FAILURE
  Preserve,      \* the settings PRESERVE_ALL, PRESERVE_ON_FAILURE that are on
  MaxCrashes     \* bound: how many handlers may die half way

ASSUME TaskAssumption ==
  /\ TaskRun \in [Task -> Run]
  /\ \A t \in Task : Steps(TaskRun[t]) = {}
  /\ Upstream \in [Task -> SUBSET Task]
  /\ Unrenderable \subseteq Task
  /\ ForceRerun \subseteq Run
  /\ IsFiniteSet(Task)

ASSUME AttemptAssumption == NoAttempt \notin Attempt

ASSUME KindAssumption ==
  /\ Kind = {"system", "analysis", "timeout"}
  /\ MaxRetries \in [Kind -> Nat]

ASSUME SettingsAssumption ==
  /\ Preserve \subseteq {"all", "on_failure"}
  /\ MaxCrashes \in Nat

VARIABLES
  runStatus,     \* Run.status_is_*
  taskStatus,    \* Task.status_is_*; no column is on before the row exists
  failures,      \* Task.*_failure_count
  active,        \* Task.task_attempt
  members,       \* Task.all_task_attempts
  attStatus,     \* TaskAttempt.status_is_*; none is on before the row exists
  fingerprint,   \* TaskFingerprint.active_task_attempt
  executions,    \* how many execute_task messages each task has in the queue
  jobs,          \* the other messages in the queue
  worker,        \* how far the worker process of each attempt has come
  finishing,     \* tasks loaded by TaskAttempt.finish, finish() still to call
  erring,        \* tasks loaded by TaskAttempt.*_error, *_error() still to call
  visiting,      \* tasks loaded by the pass of check_for_stalled_tasks
  executing,     \* execute_task handlers that have decided and not yet acted
  crashes        \* handlers that have died

rows     == <<runStatus, taskStatus, failures, active, members, attStatus, fingerprint>>
queue    == <<executions, jobs>>
handlers == <<finishing, erring, visiting, executing>>
vars     == <<rows, queue, worker, handlers, crashes>>

-----------------------------------------------------------------------------
TaskFlag == TerminalFlag \cup {"running", "waiting"}
AttemptFlag == TerminalFlag \cup {"running", "cleaned_up"}
WorkerState == {"none", "running", "analysis", "system", "finished", "exited", "returned"}
AttemptOrNone == Attempt \cup {NoAttempt}
Counts == [Kind -> Nat]

Job == [fn : {"postprocess_run"}, arg : Run]
         \cup [fn : {"finish_task_attempt", "cleanup_task_attempt"}, arg : Attempt]

FinishRow  == [task : Task, attempt : Attempt]
ErrorRow   == [task : Task, attempt : Attempt, kind : Kind, count : Nat]
CheckedRow == [task : Task, attempt : AttemptOrNone, terminal : BOOLEAN, counts : Counts]
Execution  == [task : Task, message : Nat, attempt : AttemptOrNone, finished : BOOLEAN,
               terminal : BOOLEAN, count : Nat, seen : AttemptOrNone]

TypeOK ==
  /\ runStatus \in RunStatus
  /\ taskStatus \in [Task -> SUBSET TaskFlag]
  /\ failures \in [Task -> Counts]
  /\ active \in [Task -> AttemptOrNone]
  /\ members \in [Task -> SUBSET Attempt]
  /\ attStatus \in [Attempt -> SUBSET AttemptFlag]
  /\ fingerprint \in [{Contents[t] : t \in Task} -> AttemptOrNone]
  /\ executions \in [Task -> Nat]
  /\ jobs \subseteq Job
  /\ worker \in [Attempt -> WorkerState]
  /\ finishing \subseteq FinishRow
  /\ erring \subseteq ErrorRow
  /\ visiting \subseteq CheckedRow
  /\ executing \subseteq Execution
  /\ crashes \in 0..MaxCrashes

\* Runs have been created with nothing run yet, and the postprocess_run message of
\* each topmost one is in the queue.
Init ==
  /\ runStatus = [r \in Run |-> {"waiting"}]
  /\ taskStatus = [t \in Task |-> {}]
  /\ failures = [t \in Task |-> [k \in Kind |-> 0]]
  /\ active = [t \in Task |-> NoAttempt]
  /\ members = [t \in Task |-> {}]
  /\ attStatus = [a \in Attempt |-> {}]
  /\ fingerprint = [c \in {Contents[t] : t \in Task} |-> NoAttempt]
  /\ executions = [t \in Task |-> 0]
  /\ jobs = [fn : {"postprocess_run"}, arg : {r \in Run : IsTopmost(r)}]
  /\ worker = [a \in Attempt |-> "none"]
  /\ finishing = {} /\ erring = {} /\ visiting = {} /\ executing = {}
  /\ crashes = 0

-----------------------------------------------------------------------------
(* Reading the rows.                                                        *)

Exists(status) == status # {}
TasksOf(r) == {t \in Task : TaskRun[t] = r}
ActiveOn(a) == {t \in Task : active[t] = a}

\* Run.are_tasks_finished on the tree of the run's tasks: every task the
\* degrees of the data paths announce is there and finished.
AreTasksFinished(ts, r) == \A t \in TasksOf(r) : "finished" \in ts[t]

\* TaskAttempt.might_succeed of a row of the database.
MightSucceed(a) == attStatus[a] \cap {"finished", "running"} # {}

\* TaskAttempt.cleanup queues the job unless one of these holds.
NeedsCleanup(status) ==
  /\ "cleaned_up" \notin status
  /\ "all" \notin Preserve
  /\ ~("on_failure" \in Preserve /\ "failed" \in status)

CleanupJobs(A, as) ==
  [fn : {"cleanup_task_attempt"}, arg : {a \in A : NeedsCleanup(as[a])}]

\* What the attempts A look like after TaskAttempt.kill.
Killed(A) ==
  [a \in Attempt |-> IF a \in A /\ ~Terminal(attStatus[a])
                     THEN (attStatus[a] \ {"running"}) \cup {"killed"}
                     ELSE attStatus[a]]

\* What an attempt looks like after TaskAttempt._process_error on a row that
\* is not terminal.
Broken(status) == (status \ {"running"}) \cup {"failed"}

\* The tasks for which push_all_inputs on the leaf runs R finds an input set
\* and no row: with the outputs of the tasks Done in place.
NewTasks(R, Done) ==
  {t \in Task : TaskRun[t] \in R /\ ~Exists(taskStatus[t]) /\ Upstream[t] \subseteq Done}

\* The runs that take an output of a run as input.
DownstreamRuns(r) ==
  {TaskRun[t] : t \in {u \in Task : \E w \in Upstream[u] : TaskRun[w] = r}}

FinishedTasks(ts) == {t \in Task : "finished" \in ts[t]}

-----------------------------------------------------------------------------
(* What the methods of Task write.  Each of these fixes runStatus',         *)
(* taskStatus', executions', attStatus' and jobs' (failures' as well where  *)
(* it is an error).                                                         *)

\* Task.kill on the tasks T that are not terminal, and what TaskAttempt.kill
\* does to all their attempts and to those of the task also.
KillTasks(ts, T, also, oldJobs) ==
  LET hit == {t \in T : Exists(ts[t]) /\ ~Terminal(ts[t])}
      A   == UNION {members[t] : t \in hit \cup also}
  IN  /\ taskStatus' = [t \in Task |-> IF t \in hit THEN Ended(ts[t], "killed") ELSE ts[t]]
      /\ attStatus' = Killed(A)
      /\ jobs' = oldJobs \cup CleanupJobs(A, Killed(A))

\* Run.fail on the run r, with all that it kills.
FailTree(rs, ts, r, also, oldJobs) ==
  /\ runStatus' = FailRun(rs, r)
  /\ KillTasks(ts, UNION {TasksOf(x) : x \in TasksKilledByFailure(rs, r)}, also, oldJobs)

\* Task.bulk_create_tasks: the rows come up running, their runs and the
\* ancestors are set running whatever their status, one message each.
\* (The first is a mutant: the rows come up waiting.)
CreatedWaiting(ts, New) == [t \in Task |-> IF t \in New THEN {"waiting"} ELSE ts[t]]
Created(ts, New) == [t \in Task |-> IF t \in New THEN {"running"} ELSE ts[t]]
Queued(New) == [t \in Task |-> IF t \in New THEN executions[t] + 1 ELSE executions[t]]
RunsOf(T) == {TaskRun[t] : t \in T}
Begun(New) == StartRuns(runStatus, RunsOf(New))

\* create_unsaved_task_from_input_set fails on the first task it cannot render, b:
\* it fails the run, and the exception ends the push of the tasks New.  Of these
\* only the tasks Made, of runs pushed before, have been created.
PushFails(ts, New, Made, oldJobs) ==
  \E b \in New \cap Unrenderable :
     /\ executions' = Queued(Made)
     /\ FailTree(Begun(Made), Created(ts, Made), TaskRun[b], {}, oldJobs)

\* Task.finish past its guard, for a task whose attempts are M and whose status
\* otherwise is that in ts: the status is saved, then three ways on.
Saved(t, ts) == [ts EXCEPT ![t] = Ended(@, "finished")]

\* On a task that has already pushed its outputs DataNode.clone fails an assertion.
FinishAgain(t, ts) ==
  /\ "finished" \in ts[t]
  /\ taskStatus' = Saved(t, ts)
  /\ UNCHANGED <<runStatus, executions, attStatus, jobs>>

\* The runs that take its outputs, in no fixed order, have their inputs pushed; it
\* fails on one of them, and neither the cleanup nor the run's finish is reached.
FinishFails(t, ts) ==
  LET new == NewTasks(DownstreamRuns(TaskRun[t]), FinishedTasks(Saved(t, ts)))
  IN  /\ "finished" \notin ts[t]
      /\ \E R \in SUBSET (RunsOf(new) \ RunsOf(new \cap Unrenderable)) :
           PushFails(Saved(t, ts), new, {u \in new : TaskRun[u] \in R}, jobs)

Finish(t, ts, M) ==
  LET saved == Saved(t, ts)
      new   == NewTasks(DownstreamRuns(TaskRun[t]), FinishedTasks(saved))
  IN  /\ "finished" \notin ts[t]
      /\ new \cap Unrenderable = {}
      /\ taskStatus' = Created(saved, new)
      /\ executions' = Queued(new)
      /\ jobs' = jobs \cup CleanupJobs(M, attStatus)
      /\ runStatus' = IF AreTasksFinished(saved, TaskRun[t])
                      THEN FinishRun(Begun(new), TaskRun[t])
                      ELSE Begun(new)
      /\ UNCHANGED attStatus

\* The kinds of error, of those in K, that have no retries left.  (The first is a
\* mutant: one retry too many.)
ExhaustedLate(K, counts) == {k \in K : counts[k] > MaxRetries[k]}
Exhausted(K, counts) == {k \in K : counts[k] >= MaxRetries[k]}

\* Task._process_error past its guard, for the kinds of error K (in the order
\* system, timeout when there are two) with the counts the loaded row had.  A
\* kind that has retries left queues another execution; one that has none ends
\* the task and the run, and whatever kind would follow finds it terminal.
ProcessError(t, K, counts) ==
  LET exhausted == Exhausted(K, counts)
      handled   == IF "system" \in exhausted THEN {"system"} ELSE K
      retried   == handled \ exhausted
      failed    == [taskStatus EXCEPT ![t] = Ended(@, "failed")]
  IN  /\ failures' = [failures EXCEPT ![t] =
                        [k \in Kind |-> IF k \in handled THEN counts[k] + 1 ELSE @[k]]]
      /\ executions' = [executions EXCEPT ![t] = @ + Cardinality(retried)]
      /\ \/ /\ exhausted = {}
            /\ runStatus' = runStatus
            /\ KillTasks(taskStatus, {}, {t}, jobs)
         \/ /\ exhausted # {}
            /\ FailTree(runStatus, failed, TaskRun[t], {t}, jobs)

-----------------------------------------------------------------------------
(* Creating tasks.                                                          *)

\* postprocess_run: the tasks that need no other task, in all leaves of the run, in
\* one push.
PostprocessRun(r) ==
  LET new   == IF Terminal(runStatus[r]) THEN {}
               ELSE NewTasks({x \in Run : r \in UpFrom(Run, x)}, FinishedTasks(taskStatus))
      taken == jobs \ {[fn |-> "postprocess_run", arg |-> r]}
  IN  /\ [fn |-> "postprocess_run", arg |-> r] \in jobs
      /\ \/ PushFails(taskStatus, new, {}, taken)
         \/ /\ new \cap Unrenderable = {}
            /\ taskStatus' = Created(taskStatus, new)
            /\ executions' = Queued(new)
            /\ runStatus' = Begun(new)
            /\ jobs' = taken
            /\ UNCHANGED attStatus
      /\ UNCHANGED <<failures, active, members, fingerprint, worker, handlers, crashes>>

-----------------------------------------------------------------------------
(* execute_task.                                                            *)

\* The attempt of the task's fingerprint.  (The first is a mutant: the fingerprint
\* is that of the step, whatever the inputs of the task.)
StepFingerprint(t) == fingerprint[Contents[CHOOSE u \in TasksOf(TaskRun[t]) : TRUE]]
FingerprintAttempt(t) == fingerprint[Contents[t]]

\* Whether the attempt that is reused can finish the task at once.
FinishedAlready(a) == "finished" \in attStatus[a]

\* (Mutant of the next definition: there need not be a message.)
DropWithoutMessage(t) ==
  /\ active[t] # NoAttempt
  /\ MightSucceed(active[t])
  /\ executions' = [executions EXCEPT ![t] = @ - 1]
  /\ UNCHANGED <<rows, jobs, worker, handlers, crashes>>

\* A message is taken.  A task whose attempt is responsive and not timed out is
\* left alone: possible only if the attempt might succeed.  Otherwise the handler
\* settles whether to reuse the attempt of the fingerprint.  It does not look at
\* the status of the task.  (message keeps apart two handlers for one task.)
DropExecution(t) ==
  /\ executions[t] > 0
  /\ active[t] # NoAttempt
  /\ MightSucceed(active[t])
  /\ executions' = [executions EXCEPT ![t] = @ - 1]
  /\ UNCHANGED <<rows, jobs, worker, handlers, crashes>>

DecideExecution(t) ==
  LET fp    == FingerprintAttempt(t)
      reuse == TaskRun[t] \notin ForceRerun /\ fp # NoAttempt /\ MightSucceed(fp)
  IN  /\ executions[t] > 0
      /\ executions' = [executions EXCEPT ![t] = @ - 1]
      /\ executing' = executing \cup
           {[task |-> t,
             message |-> executions[t],
             attempt |-> IF reuse THEN fp ELSE NoAttempt,
             finished |-> reuse /\ FinishedAlready(fp),
             terminal |-> Terminal(taskStatus[t]),
             count |-> failures[t]["system"],
             seen |-> fp]}
      /\ UNCHANGED <<rows, jobs, worker, finishing, erring, visiting, crashes>>

\* Task.activate_task_attempt writes no matter what became of the task.
Activated(t) == [taskStatus EXCEPT ![t] = Started(@)]

ReuseAttempt(e) ==
  LET t == e.task
      a == e.attempt
  IN  /\ e \in executing
      /\ a # NoAttempt
      /\ executing' = executing \ {e}
      /\ active' = [active EXCEPT ![t] = a]
      /\ members' = [members EXCEPT ![t] = @ \cup {a}]
      /\ \/ /\ e.finished /\ ~e.terminal
            /\ \/ FinishAgain(t, Activated(t))
               \/ FinishFails(t, Activated(t))
               \/ Finish(t, Activated(t), members[t] \cup {a})
         \/ /\ ~e.finished \/ e.terminal
            /\ taskStatus' = Activated(t)
            /\ UNCHANGED <<runStatus, executions, attStatus, jobs>>
      /\ UNCHANGED <<failures, fingerprint, worker, finishing, erring, visiting, crashes>>

\* Task.create_and_activate_task_attempt, then update_task_attempt_maybe on the
\* fingerprint as it was loaded, then the playbook that starts the worker.
CreateAttempt(e, a) ==
  LET t     == e.task
      claim == \/ TaskRun[t] \notin ForceRerun
               \/ e.seen = NoAttempt
               \/ attStatus[e.seen] \cap {"finished", "running"} = {}
  IN  /\ e \in executing
      /\ e.attempt = NoAttempt
      /\ ~Exists(attStatus[a])
      /\ executing' = executing \ {e}
      /\ attStatus' = [attStatus EXCEPT ![a] = {"running"}]
      /\ active' = [active EXCEPT ![t] = a]
      /\ members' = [members EXCEPT ![t] = @ \cup {a}]
      /\ taskStatus' = Activated(t)
      /\ fingerprint' = IF claim THEN [fingerprint EXCEPT ![Contents[t]] = a] ELSE fingerprint
      /\ worker' = [worker EXCEPT ![a] = "running"]
      /\ UNCHANGED <<runStatus, failures, queue, finishing, erring, visiting, crashes>>

\* The attempt cannot be created: a system error of the task as it was loaded.
CreateFails(e) ==
  /\ e \in executing
  /\ e.attempt = NoAttempt
  /\ executing' = executing \ {e}
  /\ \/ /\ ~e.terminal
        /\ ProcessError(e.task, {"system"}, [k \in Kind |-> e.count])
     \/ /\ e.terminal
        /\ UNCHANGED <<runStatus, taskStatus, failures, attStatus, queue>>
  /\ UNCHANGED <<active, members, fingerprint, worker, finishing, erring, visiting, crashes>>

-----------------------------------------------------------------------------
(* The worker process and what the server does with its reports.            *)

\* TaskMonitor.run posts finish only if it has reported no error; the connection
\* repeats a request whose answer was lost.
WorkerFinishes(a) ==
  /\ worker[a] \in {"running", "finished"}
  /\ worker' = [worker EXCEPT ![a] = "finished"]
  /\ jobs' = jobs \cup {[fn |-> "finish_task_attempt", arg |-> a]}
  /\ UNCHANGED <<rows, executions, handlers, crashes>>

\* The process ends, or its machine is lost: after the last report or before it.
WorkerExits(a) ==
  /\ worker[a] \in {"running", "analysis", "system", "finished"}
  /\ worker' = [worker EXCEPT ![a] = "exited"]
  /\ UNCHANGED <<rows, queue, handlers, crashes>>

\* The loop over active_on_tasks has loaded its rows; those that are terminal
\* make the calls return at once.
LoadErring(a, k) ==
  erring' = erring \cup
    {[task |-> t, attempt |-> a, kind |-> k, count |-> failures[t][k]] :
        t \in {u \in ActiveOn(a) : ~Terminal(taskStatus[u])}}

\* POST analysis-error, then, if saving the logs fails too, POST system-error.
\* The second, or a repeated one, finds the attempt failed and still goes on to
\* the tasks.
WorkerReportsError(a, k) ==
  /\ \/ k = "analysis" /\ worker[a] \in {"running", "analysis"}
     \/ k = "system" /\ worker[a] \in {"running", "analysis", "system"}
  /\ worker' = [worker EXCEPT ![a] = k]
  /\ attStatus' = IF Terminal(attStatus[a]) THEN attStatus
                  ELSE [attStatus EXCEPT ![a] = Broken(@)]
  /\ LoadErring(a, k)
  /\ UNCHANGED <<runStatus, taskStatus, failures, active, members, fingerprint,
                 queue, finishing, visiting, executing, crashes>>

\* The playbook of execute_task returns an error: it never started the worker, or
\* the worker is gone.  The row it holds is the one execute_task created, so the
\* terminal guard passes whatever happened since.
PlaybookFails(a) ==
  /\ worker[a] \notin {"none", "returned"}
  /\ worker' = [worker EXCEPT ![a] = "returned"]
  /\ attStatus' = [attStatus EXCEPT ![a] = Broken(@)]
  /\ LoadErring(a, "system")
  /\ UNCHANGED <<runStatus, taskStatus, failures, active, members, fingerprint,
                 queue, finishing, visiting, executing, crashes>>

\* (Mutant of the next definition: no return for an attempt that has ended.)
FinishWithoutReturn(a) ==
  /\ [fn |-> "finish_task_attempt", arg |-> a] \in jobs
  /\ jobs' = jobs \ {[fn |-> "finish_task_attempt", arg |-> a]}
  /\ attStatus' = IF Terminal(attStatus[a]) THEN attStatus
                  ELSE [attStatus EXCEPT ![a] = Ended(@, "finished")]
  /\ finishing' = finishing \cup
       [task : {t \in ActiveOn(a) : ~Terminal(taskStatus[t])}, attempt : {a}]
  /\ UNCHANGED <<runStatus, taskStatus, failures, active, members, fingerprint,
                 executions, worker, erring, visiting, executing, crashes>>

\* finish_task_attempt: the attempt, and the rows of its tasks are loaded.
FinishTaskAttempt(a) ==
  /\ [fn |-> "finish_task_attempt", arg |-> a] \in jobs
  /\ jobs' = jobs \ {[fn |-> "finish_task_attempt", arg |-> a]}
  /\ \/ /\ Terminal(attStatus[a])
        /\ UNCHANGED <<attStatus, finishing>>
     \/ /\ ~Terminal(attStatus[a])
        /\ attStatus' = [attStatus EXCEPT ![a] = Ended(@, "finished")]
        /\ finishing' = finishing \cup
             [task : {t \in ActiveOn(a) : ~Terminal(taskStatus[t])}, attempt : {a}]
  /\ UNCHANGED <<runStatus, taskStatus, failures, active, members, fingerprint,
                 executions, worker, erring, visiting, executing, crashes>>

\* ... and Task.finish is called on each.  An exception ends the loop.
FinishTask(f) ==
  LET t == f.task
  IN  /\ f \in finishing
      /\ \/ /\ FinishAgain(t, taskStatus) \/ FinishFails(t, taskStatus)
            /\ finishing' = {g \in finishing : g.attempt # f.attempt}
         \/ /\ Finish(t, taskStatus, members[t])
            /\ finishing' = finishing \ {f}
      /\ UNCHANGED <<failures, active, members, fingerprint, worker,
                     erring, visiting, executing, crashes>>

\* Task.system_error or Task.analysis_error on a row loaded by the attempt.
HandleError(e) ==
  /\ e \in erring
  /\ erring' = erring \ {e}
  /\ ProcessError(e.task, {e.kind}, [k \in Kind |-> e.count])
  /\ UNCHANGED <<active, members, fingerprint, worker, finishing, visiting, executing, crashes>>

-----------------------------------------------------------------------------
(* Periodic tasks.                                                          *)

\* The filter of check_for_stalled_tasks.  (The first is a mutant: it leaves out the
\* tasks that would make is_timed_out fail.)
WatchedWithAttempt == {t \in Task : "running" \in taskStatus[t] /\ active[t] # NoAttempt}
Watched == {t \in Task : "running" \in taskStatus[t]}

\* check_for_stalled_tasks loads every task that is marked running.  Bound: a
\* pass starts when the last one has ended.
StartCheck ==
  /\ visiting = {}
  /\ visiting' = {[task |-> t, attempt |-> active[t], terminal |-> Terminal(taskStatus[t]),
                   counts |-> failures[t]] : t \in Watched}
  /\ UNCHANGED <<rows, queue, worker, finishing, erring, executing, crashes>>

\* The body of its loop on one row: system error if not responsive, then timeout
\* error if timed out.  An attempt that cannot succeed is never responsive.
\* is_timed_out fails on a task without an attempt, which ends the pass.
VisitTask(v, responsive, timedOut) ==
  LET kinds == (IF responsive THEN {} ELSE {"system"}) \cup (IF timedOut THEN {"timeout"} ELSE {})
  IN  /\ v \in visiting
      /\ (responsive /\ v.attempt # NoAttempt) => MightSucceed(v.attempt)
      /\ timedOut => v.attempt # NoAttempt
      /\ visiting' = IF v.attempt = NoAttempt THEN {} ELSE visiting \ {v}
      /\ \/ /\ ~v.terminal /\ kinds # {}
            /\ ProcessError(v.task, kinds, v.counts)
         \/ /\ v.terminal \/ kinds = {}
            /\ UNCHANGED <<runStatus, taskStatus, failures, attStatus, queue>>
      /\ UNCHANGED <<active, members, fingerprint, worker, finishing, erring, executing, crashes>>

\* check_for_missed_cleanup.
CheckForMissedCleanup ==
  /\ jobs' = jobs \cup
       CleanupJobs({a \in Attempt : Exists(attStatus[a]) /\ "running" \notin attStatus[a]}, attStatus)
  /\ UNCHANGED <<rows, executions, worker, handlers, crashes>>

\* cleanup_task_attempt: the playbook removes the container of the worker, or
\* fails and leaves the attempt to the next check.
CleanupTaskAttempt(a, done) ==
  /\ [fn |-> "cleanup_task_attempt", arg |-> a] \in jobs
  /\ jobs' = jobs \ {[fn |-> "cleanup_task_attempt", arg |-> a]}
  /\ attStatus' = IF done THEN [attStatus EXCEPT ![a] = @ \cup {"cleaned_up"}] ELSE attStatus
  /\ worker' = IF done /\ worker[a] # "returned" THEN [worker EXCEPT ![a] = "exited"] ELSE worker
  /\ UNCHANGED <<runStatus, taskStatus, failures, active, members, fingerprint,
                 executions, handlers, crashes>>

-----------------------------------------------------------------------------
\* kill_run, for a user who asks for it.
KillRunByUser(r) ==
  /\ ~Terminal(runStatus[r])
  /\ runStatus' = KillRun(runStatus, r)
  /\ KillTasks(taskStatus, UNION {TasksOf(x) : x \in KilledBy(runStatus, r)}, {}, jobs)
  /\ UNCHANGED <<failures, active, members, fingerprint, executions, worker, handlers, crashes>>

\* A process of the server dies, and with it some of the handlers half way.  Their
\* messages were acknowledged when they were taken, so nobody runs the rest.
HandlersDie ==
  /\ crashes < MaxCrashes
  /\ crashes' = crashes + 1
  /\ \E A, B \in SUBSET Attempt, X \in SUBSET executing :
       /\ finishing' = {f \in finishing : f.attempt \notin A}
       /\ erring' = {e \in erring : e.attempt \notin B}
       /\ executing' = executing \ X
  /\ visiting' \in {visiting, {}}
  /\ handlers' # handlers
  /\ UNCHANGED <<rows, queue, worker>>

Next ==
  \/ \E r \in Run : PostprocessRun(r) \/ KillRunByUser(r)
  \/ \E t \in Task : DropExecution(t) \/ DecideExecution(t)
  \/ \E e \in executing : \/ ReuseAttempt(e) \/ CreateFails(e)
                          \/ \E a \in Attempt : CreateAttempt(e, a)
  \/ \E a \in Attempt : \/ WorkerFinishes(a) \/ WorkerExits(a) \/ PlaybookFails(a)
                        \/ \E k \in Kind : WorkerReportsError(a, k)
                        \/ FinishTaskAttempt(a)
                        \/ \E done \in BOOLEAN : CleanupTaskAttempt(a, done)
  \/ \E f \in finishing : FinishTask(f)
  \/ \E e \in erring : HandleError(e)
  \/ StartCheck
  \/ \E v \in visiting, responsive, timedOut \in BOOLEAN : VisitTask(v, responsive, timedOut)
  \/ CheckForMissedCleanup
  \/ HandlersDie

Spec == Init /\ [][Next]_vars

-----------------------------------------------------------------------------
(* Fairness: Celery goes on taking messages and running periodic tasks, and *)
(* a handler that is not killed goes on.  Nothing is assumed of the worker, *)
(* the playbooks, the users or the crashes.                                 *)

TakeExecution(t) == DropExecution(t) \/ DecideExecution(t)
ActOnExecution ==
  \E e \in executing : ReuseAttempt(e) \/ CreateFails(e) \/ \E a \in Attempt : CreateAttempt(e, a)
Visit == \E v \in visiting, responsive, timedOut \in BOOLEAN : VisitTask(v, responsive, timedOut)

\* A visit that finds the task stale.  It is fair because a task visited for
\* ever is older than any timeout.
FindStale(t) ==
  \E v \in visiting, responsive, timedOut \in BOOLEAN :
     /\ v.task = t
     /\ timedOut \/ ~responsive
     /\ VisitTask(v, responsive, timedOut)

Fairness ==
  /\ \A r \in Run : WF_vars(PostprocessRun(r))
  /\ \A t \in Task : /\ WF_vars(TakeExecution(t))
                     /\ WF_vars(\E f \in finishing : f.task = t /\ FinishTask(f))
                     /\ SF_vars(FindStale(t))
  /\ \A a \in Attempt : WF_vars(FinishTaskAttempt(a))
  /\ WF_vars(ActOnExecution)
  /\ WF_vars(\E e \in erring : HandleError(e))
  /\ WF_vars(StartCheck)
  /\ WF_vars(Visit)

FairSpec == Spec /\ Fairness

-----------------------------------------------------------------------------
(* Safety.                                                                  *)

\* A run is marked finished only if its work is: a leaf's tasks all exist and
\* are finished, a workflow's steps are finished (Run.finish, called by
\* Task.finish after are_tasks_finished and upwards by _are_children_finished).
FinishedRunsAreComplete ==
  \A r \in Run : "finished" \in runStatus[r] =>
     /\ AreTasksFinished(taskStatus, r)
     /\ \A s \in Steps(r) : "finished" \in runStatus[s]

\* A run has at most one outcome, in whatever order the handlers finish, fail and
\* kill it and the runs around it, each cascade of calls being one step here.
\* (Inside a single save it does not hold: OptimisticSave, CompletedIsNotKilled.)
RunHasOneOutcome ==
  \A r \in Run : \A f, g \in runStatus[r] \cap TerminalFlag : f = g

BrokenTasks ==
  {t \in Task : \/ "failed" \in taskStatus[t]
                \/ t \in Unrenderable /\ Upstream[t] \subseteq FinishedTasks(taskStatus)}

\* A failed run has the cause somewhere beneath it, which is what its user is told to
\* look at: a failed task, or a task that could not be made of its inputs.
FailedRunsHaveACause ==
  \A r \in Run : "failed" \in runStatus[r] =>
     \E t \in BrokenTasks : r \in UpFrom(Run, TaskRun[t])

\* The retry counters stop the retries: one that has passed its maximum means
\* the task has failed, although stale rows write them.
ExhaustedTasksHaveFailed ==
  \A t \in Task, k \in Kind :
     failures[t][k] > MaxRetries[k] => "failed" \in taskStatus[t]

\* A finished task has a finished attempt of its own to show for it: through
\* reuse, retries and kills, nothing else ever ends a task well.
FinishedTasksHaveAFinishedAttempt ==
  \A t \in Task : "finished" \in taskStatus[t] =>
     \E a \in members[t] : "finished" \in attStatus[a]

\* An attempt serves only tasks with the same fingerprinted contents, so that a
\* reused result is a result for these inputs and this command.
SharedAttemptsHaveSameContents ==
  \A t, u \in Task : members[t] \cap members[u] # {} => Contents[t] = Contents[u]

\* A task that has not ended is marked running, so the check for stalled tasks,
\* which filters on that column, can still reach it.
UnendedTasksAreWatched ==
  \A t \in Task : Exists(taskStatus[t]) /\ ~Terminal(taskStatus[t]) =>
     "running" \in taskStatus[t]

\* Through all cascades, pushes that fail, retries, kills and crashes, the runs end as
\* RunOutcomes says: every step of the server is one of its steps, or none for it.
Endings == INSTANCE RunOutcomes WITH
  outcome  <- [r \in Run |-> runStatus[r] \cap TerminalFlag],
  finished <- FinishedTasks(taskStatus),
  broken   <- BrokenTasks

EndingsSpec == Endings!Spec

\* No cascade stops half way: what a failure, a kill or the finish of a last step should
\* have reached has ended.  (Below a failed step the kill does not go on.)
EndsSpread == Endings!EndsSpread

-----------------------------------------------------------------------------
(* Why they hold: the facts about what handlers have loaded that make the   *)
(* invariants above inductive.                                              *)

\* Messages, active attempts and loaded rows are those of existing tasks.
HandledTasksExist ==
  /\ \A t \in Task : (executions[t] > 0 \/ active[t] # NoAttempt) => Exists(taskStatus[t])
  /\ \A f \in finishing : Exists(taskStatus[f.task])
  /\ \A e \in erring : Exists(taskStatus[e.task])
  /\ \A v \in visiting : Exists(taskStatus[v.task])
  /\ \A e \in executing : Exists(taskStatus[e.task])

\* Whoever is about to finish a task holds a finished attempt for it, even when the
\* task has meanwhile been given another.
FinishersHoldAFinishedAttempt ==
  /\ \A t \in Task : active[t] # NoAttempt => active[t] \in members[t]
  /\ \A f \in finishing : f.attempt \in members[f.task] /\ "finished" \in attStatus[f.attempt]
  /\ \A e \in executing : e.finished => /\ e.attempt # NoAttempt
                                        /\ "finished" \in attStatus[e.attempt]

\* An attempt is put to use for some contents by a task that has it, by the
\* fingerprint, or by a handler about to reuse it.
UsedFor(a, c) ==
  \/ \E t \in Task : Contents[t] = c /\ a \in members[t]
  \/ c \in DOMAIN fingerprint /\ fingerprint[c] = a
  \/ \E e \in executing : Contents[e.task] = c /\ e.attempt = a

\* It has one use, and a row.
AttemptsHaveOneUse ==
  \A a \in Attempt : \A c, d \in {Contents[t] : t \in Task} :
     /\ UsedFor(a, c) /\ UsedFor(a, d) => c = d
     /\ UsedFor(a, c) => Exists(attStatus[a])

IInv ==
  /\ TypeOK
  /\ HandledTasksExist
  /\ FinishersHoldAFinishedAttempt
  /\ AttemptsHaveOneUse
  /\ FinishedRunsAreComplete
  /\ RunHasOneOutcome
  /\ FailedRunsHaveACause
  /\ ExhaustedTasksHaveFailed
  /\ FinishedTasksHaveAFinishedAttempt
  /\ SharedAttemptsHaveSameContents
  /\ UnendedTasksAreWatched

-----------------------------------------------------------------------------
\* Every topmost run ends, although workers, playbooks and handlers may die
\* without a word at any point: the check for stalled tasks picks up what they
\* leave.
RunsEnd == \A r \in Run : IsTopmost(r) => <>Terminal(runStatus[r])
=============================================================================
