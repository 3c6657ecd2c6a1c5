-------------------------- MODULE LifecycleProofs --------------------------
(***************************************************************************)
(* Proofs about Lifecycle for every tree of runs, every set of tasks and   *)
(* attempts, every retry setting and any number of crashes.                *)
(***************************************************************************)
EXTENDS Lifecycle, RunTreeProofs, FiniteSetTheorems

USE DEF TerminalFlag

-----------------------------------------------------------------------------
(* What no step of the server may do, whatever the interleaving.            *)

\* A task that changes keeps its terminal columns and comes out ended or running.
TasksMove ==
  \A t \in Task :
    \/ taskStatus'[t] = taskStatus[t]
    \/ /\ taskStatus[t] \cap TerminalFlag \subseteq taskStatus'[t]
       /\ Terminal(taskStatus'[t]) \/ "running" \in taskStatus'[t]

\* An attempt keeps its terminal columns and its row.
AttemptsMove ==
  \A a \in Attempt : /\ attStatus[a] \cap TerminalFlag \subseteq attStatus'[a]
                     /\ Exists(attStatus[a]) => Exists(attStatus'[a])

\* A run that has an outcome keeps it, and gets no second one.
RunsMove == Outcomes(runStatus, runStatus')

-----------------------------------------------------------------------------
(* The operators that several actions are made of.                          *)

\* Task.kill, over any tasks: what it writes is of the right type, it removes no
\* terminal column of a task or an attempt, and it finishes nothing.
LEMMA KillTasksFacts ==
  ASSUME TypeOK,
         NEW ts \in [Task -> SUBSET TaskFlag], NEW T \in SUBSET Task, NEW also \in SUBSET Task,
         NEW oldJobs \in SUBSET Job, KillTasks(ts, T, also, oldJobs)
  PROVE  /\ taskStatus' \in [Task -> SUBSET TaskFlag]
         /\ attStatus' \in [Attempt -> SUBSET AttemptFlag]
         /\ jobs' \subseteq Job
         /\ \A t \in Task : \/ taskStatus'[t] = ts[t]
                            \/ /\ Exists(ts[t]) /\ ~Terminal(ts[t])
                               /\ taskStatus'[t] = Ended(ts[t], "killed")
         /\ AttemptsMove
<1> DEFINE hit == {t \in T : Exists(ts[t]) /\ ~Terminal(ts[t])}
           A   == UNION {members[t] : t \in hit \cup also}
<1>1. /\ taskStatus' = [t \in Task |-> IF t \in hit THEN Ended(ts[t], "killed") ELSE ts[t]]
      /\ attStatus' = Killed(A)
      /\ jobs' = oldJobs \cup CleanupJobs(A, Killed(A))
  BY DEF KillTasks
<1>2. A \subseteq Attempt
  BY DEF TypeOK
<1>3. taskStatus' \in [Task -> SUBSET TaskFlag]
  BY <1>1 DEF Ended, TaskFlag
<1>4. \A t \in Task : \/ taskStatus'[t] = ts[t]
                      \/ /\ Exists(ts[t]) /\ ~Terminal(ts[t])
                         /\ taskStatus'[t] = Ended(ts[t], "killed")
  BY <1>1
<1> HIDE DEF A
<1>5. attStatus' \in [Attempt -> SUBSET AttemptFlag]
  BY <1>1 DEF Killed, TypeOK, AttemptFlag
<1>6. CleanupJobs(A, Killed(A)) \subseteq Job
  BY <1>2 DEF CleanupJobs, Job
<1>7. jobs' \subseteq Job
  BY <1>1, <1>6
<1>8. AttemptsMove
  BY <1>1 DEF Killed, Exists, AttemptsMove
<1> QED
  BY <1>3, <1>4, <1>5, <1>7, <1>8

LEMMA CreatedFacts ==
  ASSUME NEW ts \in [Task -> SUBSET TaskFlag], NEW N
  PROVE  Created(ts, N) \in [Task -> SUBSET TaskFlag]
BY DEF Created, TaskFlag

LEMMA QueuedFacts ==
  ASSUME TypeOK, NEW N
  PROVE  Queued(N) \in [Task -> Nat]
BY DEF Queued, TypeOK

LEMMA CleanupJobsFacts ==
  ASSUME NEW A \in SUBSET Attempt, NEW as
  PROVE  CleanupJobs(A, as) \subseteq Job
BY DEF CleanupJobs, Job

LEMMA BegunFacts ==
  ASSUME TypeOK, NEW N
  PROVE  /\ Begun(N) \in RunStatus
         /\ \A x \in Run : Begun(N)[x] \cap TerminalFlag = runStatus[x] \cap TerminalFlag
BY StartRunsOutcomes DEF Begun, TypeOK

\* Run.fail with the tasks it kills: types, and only runs above r are newly failed.
LEMMA FailTreeFacts ==
  ASSUME TypeOK, NEW rs \in RunStatus, NEW ts \in [Task -> SUBSET TaskFlag], NEW r \in Run,
         NEW also \in SUBSET Task, NEW oldJobs \in SUBSET Job,
         FailTree(rs, ts, r, also, oldJobs)
  PROVE  /\ runStatus' \in RunStatus
         /\ taskStatus' \in [Task -> SUBSET TaskFlag]
         /\ attStatus' \in [Attempt -> SUBSET AttemptFlag]
         /\ jobs' \subseteq Job
         /\ AttemptsMove
         /\ Outcomes(rs, runStatus')
         /\ \A t \in Task : \/ taskStatus'[t] = ts[t]
                            \/ /\ Exists(ts[t]) /\ ~Terminal(ts[t])
                               /\ taskStatus'[t] = Ended(ts[t], "killed")
         /\ \A x \in Run : "finished" \in runStatus'[x] => "finished" \in rs[x]
         /\ \A x \in Run : "failed" \in runStatus'[x] /\ "failed" \notin rs[x] => x \in UpFrom(Run, r)
<1> DEFINE T == UNION {TasksOf(x) : x \in TasksKilledByFailure(rs, r)}
<1>1. runStatus' = FailRun(rs, r) /\ KillTasks(ts, T, also, oldJobs)
  BY DEF FailTree
<1>2. T \in SUBSET Task
  BY DEF TasksOf
<1> HIDE DEF T
<1>3. \A x \in Run : "finished" \in runStatus'[x] => "finished" \in rs[x]
  BY <1>1 DEF FailRun, Ended
<1>4. \A x \in Run : "failed" \in runStatus'[x] /\ "failed" \notin rs[x] => x \in UpFrom(Run, r)
  BY <1>1, FailRunUpwards
<1>5. runStatus' \in RunStatus /\ Outcomes(rs, runStatus')
  BY <1>1, FailRunOutcomes
<1> QED
  BY <1>1, <1>2, <1>3, <1>4, <1>5, KillTasksFacts

\* What a task can become in a push or a kill, and without being finished.
Onward(old, new) ==
  \/ new = old
  \/ /\ old \cap TerminalFlag \subseteq new
     /\ "finished" \in new => "finished" \in old
     /\ Terminal(new) \/ "running" \in new

\* A push that fails on a task that cannot be rendered.
LEMMA PushFailsFacts ==
  ASSUME TypeOK, NEW ts \in [Task -> SUBSET TaskFlag], NEW New \in SUBSET Task,
         NEW Made \in SUBSET New, NEW oldJobs \in SUBSET Job,
         PushFails(ts, New, Made, oldJobs)
  PROVE  /\ taskStatus' \in [Task -> SUBSET TaskFlag]
         /\ executions' \in [Task -> Nat]
         /\ attStatus' \in [Attempt -> SUBSET AttemptFlag]
         /\ jobs' \subseteq Job
         /\ runStatus' \in RunStatus
         /\ AttemptsMove
         /\ RunsMove
         /\ \A t \in Task : Onward(IF t \in New THEN {} ELSE ts[t], taskStatus'[t])
                              \/ Onward(ts[t], taskStatus'[t])
         /\ \E b \in New \cap Unrenderable : runStatus' = FailRun(Begun(Made), TaskRun[b])
<1>1. PICK b \in New \cap Unrenderable :
         /\ executions' = Queued(Made)
         /\ FailTree(Begun(Made), Created(ts, Made), TaskRun[b], {}, oldJobs)
  BY DEF PushFails
<1>2. TaskRun[b] \in Run /\ {} \in SUBSET Task
  BY TaskAssumption
<1>3. /\ Begun(Made) \in RunStatus
      /\ \A x \in Run : Begun(Made)[x] \cap TerminalFlag = runStatus[x] \cap TerminalFlag
  BY BegunFacts
<1>4. Created(ts, Made) \in [Task -> SUBSET TaskFlag]
  BY CreatedFacts
<1>5. /\ runStatus' \in RunStatus
      /\ taskStatus' \in [Task -> SUBSET TaskFlag]
      /\ attStatus' \in [Attempt -> SUBSET AttemptFlag]
      /\ jobs' \subseteq Job
      /\ AttemptsMove
      /\ Outcomes(Begun(Made), runStatus')
      /\ \A t \in Task : \/ taskStatus'[t] = Created(ts, Made)[t]
                         \/ taskStatus'[t] = Ended(Created(ts, Made)[t], "killed")
  BY <1>1, <1>2, <1>3, <1>4, FailTreeFacts
<1>6. RunsMove
  BY <1>3, <1>5 DEF RunsMove, Outcomes, Terminal
<1>7. ASSUME NEW t \in Task
      PROVE  Onward(IF t \in New THEN {} ELSE ts[t], taskStatus'[t]) \/ Onward(ts[t], taskStatus'[t])
  <2>1. CASE t \in Made
    <3>1. Created(ts, Made)[t] = {"running"} /\ t \in New
      BY <2>1 DEF Created
    <3> QED
      BY <1>5, <3>1 DEF Onward, Ended, Terminal
  <2>2. CASE t \notin Made
    <3>1. Created(ts, Made)[t] = ts[t]
      BY <2>2 DEF Created
    <3> QED
      BY <1>5, <3>1 DEF Onward, Ended, Terminal
  <2> QED
    BY <2>1, <2>2
<1>8. runStatus' = FailRun(Begun(Made), TaskRun[b])
  BY <1>1 DEF FailTree
<1> QED
  BY <1>1, <1>5, <1>6, <1>7, <1>8, QueuedFacts

\* The three ways on from the first save of Task.finish.
FinishWays(t, ts, M) == FinishAgain(t, ts) \/ FinishFails(t, ts) \/ Finish(t, ts, M)

\* The first save of Task.finish, on the row as it is or just activated.
LEMMA SavedFacts ==
  ASSUME TypeOK, NEW t \in Task, NEW ts \in {taskStatus, Activated(t)}
  PROVE  /\ Saved(t, ts) \in [Task -> SUBSET TaskFlag]
         /\ \A u \in Task : u # t => Saved(t, ts)[u] = taskStatus[u]
         /\ taskStatus[t] \cap TerminalFlag \subseteq Saved(t, ts)[t]
         /\ "finished" \in Saved(t, ts)[t]
<1>1. ts \in [Task -> SUBSET TaskFlag]
  BY DEF TypeOK, Activated, Started, TaskFlag
<1> QED
  BY <1>1 DEF Saved, TypeOK, Activated, Started, Ended, TaskFlag

\* Task.finish with the tasks it creates and the runs it finishes.
LEMMA FinishFacts ==
  ASSUME TypeOK, NEW t \in Task, NEW ts \in {taskStatus, Activated(t)},
         NEW M \in SUBSET Attempt,
         FinishWays(t, ts, M)
  PROVE  /\ taskStatus' \in [Task -> SUBSET TaskFlag]
         /\ executions' \in [Task -> Nat]
         /\ attStatus' \in [Attempt -> SUBSET AttemptFlag]
         /\ jobs' \subseteq Job
         /\ runStatus' \in RunStatus
         /\ TasksMove
         /\ AttemptsMove
         /\ RunsMove
         /\ \A u \in Task : u # t /\ "finished" \in taskStatus'[u] => "finished" \in taskStatus[u]
<1> DEFINE saved == Saved(t, ts)
           new   == NewTasks(DownstreamRuns(TaskRun[t]), FinishedTasks(saved))
<1>1. /\ saved \in [Task -> SUBSET TaskFlag]
      /\ \A u \in Task : u # t => saved[u] = taskStatus[u]
      /\ taskStatus[t] \cap TerminalFlag \subseteq saved[t]
      /\ "finished" \in saved[t]
  BY SavedFacts
<1>2. new \in SUBSET Task /\ \A u \in new : ~Exists(taskStatus[u])
  BY DEF NewTasks
<1>3. CASE FinishAgain(t, ts)
  <2>1. taskStatus' = saved /\ UNCHANGED <<runStatus, executions, attStatus, jobs>>
    BY <1>3 DEF FinishAgain
  <2> HIDE DEF saved
  <2> QED
    BY <1>1, <2>1 DEF TypeOK, TasksMove, AttemptsMove, RunsMove, Outcomes, Terminal
<1>4. CASE FinishFails(t, ts)
  <2>1. PICK R : PushFails(saved, new, {u \in new : TaskRun[u] \in R}, jobs)
    BY <1>4 DEF FinishFails
  <2> DEFINE made == {u \in new : TaskRun[u] \in R}
  <2>2. made \in SUBSET new /\ PushFails(saved, new, made, jobs) /\ jobs \in SUBSET Job
    BY <2>1 DEF TypeOK
  <2> HIDE DEF saved, new, made
  <2>3. /\ taskStatus' \in [Task -> SUBSET TaskFlag]
        /\ executions' \in [Task -> Nat]
        /\ attStatus' \in [Attempt -> SUBSET AttemptFlag]
        /\ jobs' \subseteq Job
        /\ runStatus' \in RunStatus
        /\ AttemptsMove
        /\ RunsMove
        /\ \A u \in Task : Onward(IF u \in new THEN {} ELSE saved[u], taskStatus'[u])
                             \/ Onward(saved[u], taskStatus'[u])
    BY <1>1, <1>2, <2>2, PushFailsFacts
  <2>4. \A u \in new : taskStatus[u] = {}
    BY <1>2 DEF Exists
  <2>5. TasksMove
    BY <1>1, <2>3, <2>4 DEF Onward, TasksMove, Terminal
  <2>6. \A u \in Task : u # t /\ "finished" \in taskStatus'[u] => "finished" \in taskStatus[u]
    BY <1>1, <2>3 DEF Onward
  <2> QED
    BY <2>3, <2>5, <2>6
<1>5. CASE Finish(t, ts, M)
  <2>1. /\ taskStatus' = Created(saved, new)
        /\ executions' = Queued(new)
        /\ jobs' = jobs \cup CleanupJobs(M, attStatus)
        /\ runStatus' = IF AreTasksFinished(saved, TaskRun[t])
                        THEN FinishRun(Begun(new), TaskRun[t]) ELSE Begun(new)
        /\ attStatus' = attStatus
    BY <1>5 DEF Finish
  <2> HIDE DEF saved, new
  <2>2. /\ Begun(new) \in RunStatus
        /\ \A x \in Run : Begun(new)[x] \cap TerminalFlag = runStatus[x] \cap TerminalFlag
    BY BegunFacts
  <2>3. /\ FinishRun(Begun(new), TaskRun[t]) \in RunStatus
        /\ Outcomes(Begun(new), FinishRun(Begun(new), TaskRun[t]))
    BY <2>2, FinishRunOutcomes, TaskAssumption
  <2>4. TasksMove
    BY <1>1, <1>2, <2>1 DEF Created, Exists, TasksMove, Terminal
  <2>5. RunsMove
    BY <2>1, <2>2, <2>3 DEF RunsMove, Outcomes, Terminal
  <2>6. \A u \in Task : u # t /\ "finished" \in taskStatus'[u] => "finished" \in taskStatus[u]
    BY <1>1, <2>1 DEF Created
  <2>7. AttemptsMove /\ attStatus' \in [Attempt -> SUBSET AttemptFlag]
    BY <2>1 DEF AttemptsMove, TypeOK
  <2> QED
    BY <1>1, <2>1, <2>2, <2>3, <2>4, <2>5, <2>6, <2>7,
       CreatedFacts, QueuedFacts, CleanupJobsFacts DEF TypeOK
<1> QED
  BY <1>3, <1>4, <1>5 DEF FinishWays

\* Task._process_error: types, and what it does to the counters and the task.
LEMMA ProcessErrorFacts ==
  ASSUME TypeOK, NEW t \in Task, NEW K \in SUBSET Kind, NEW counts \in Counts,
         ProcessError(t, K, counts)
  PROVE  /\ failures' \in [Task -> Counts]
         /\ executions' \in [Task -> Nat]
         /\ runStatus' \in RunStatus
         /\ taskStatus' \in [Task -> SUBSET TaskFlag]
         /\ attStatus' \in [Attempt -> SUBSET AttemptFlag]
         /\ jobs' \subseteq Job
         /\ TasksMove
         /\ AttemptsMove
         /\ RunsMove
         /\ \A k \in Kind : failures'[t][k] > MaxRetries[k] =>
              failures[t][k] > MaxRetries[k] \/ "failed" \in taskStatus'[t]
         /\ \A u \in Task : u # t => failures'[u] = failures[u]
         /\ \A x \in Run : "finished" \in runStatus'[x] => "finished" \in runStatus[x]
         /\ \A x \in Run : "failed" \in runStatus'[x] /\ "failed" \notin runStatus[x] =>
              x \in UpFrom(Run, TaskRun[t]) /\ "failed" \in taskStatus'[t]
<1> USE DEF Exhausted
<1> DEFINE exhausted == Exhausted(K, counts)
           handled   == IF "system" \in exhausted THEN {"system"} ELSE K
           retried   == handled \ exhausted
           failed    == [taskStatus EXCEPT ![t] = Ended(@, "failed")]
           r         == TaskRun[t]
<1>1. IsFiniteSet(Kind)
  <2>1. IsFiniteSet({} \cup {"system"})
    BY FS_EmptySet, FS_AddElement
  <2>2. IsFiniteSet(({} \cup {"system"}) \cup {"analysis"})
    BY <2>1, FS_AddElement
  <2>3. IsFiniteSet((({} \cup {"system"}) \cup {"analysis"}) \cup {"timeout"})
    BY <2>2, FS_AddElement
  <2>4. Kind = (({} \cup {"system"}) \cup {"analysis"}) \cup {"timeout"}
    BY KindAssumption
  <2> QED
    BY <2>3, <2>4
<1>2. Cardinality(retried) \in Nat
  BY <1>1, FS_Subset, FS_CardinalityType
<1>3. failures' = [failures EXCEPT ![t] =
                     [k \in Kind |-> IF k \in handled THEN counts[k] + 1 ELSE failures[t][k]]]
  BY DEF ProcessError, TypeOK
<1>4. failures' \in [Task -> Counts]
  BY <1>3 DEF TypeOK, Counts
<1>5. executions' = [executions EXCEPT ![t] = @ + Cardinality(retried)]
  BY DEF ProcessError
<1>6. executions' \in [Task -> Nat]
  BY <1>2, <1>5 DEF TypeOK
<1>7. failed \in [Task -> SUBSET TaskFlag]
  BY DEF TypeOK, Ended, TaskFlag
<1>8. r \in Run
  BY TaskAssumption
<1> HIDE DEF handled, retried
<1>9. CASE exhausted = {}
  <2>1. runStatus' = runStatus /\ KillTasks(taskStatus, {}, {t}, jobs)
    BY <1>9 DEF ProcessError
  <2>2. TasksMove
    BY <2>1 DEF KillTasks, TasksMove, TypeOK
  <2>3. \A k \in Kind : failures'[t][k] > MaxRetries[k] => failures[t][k] > MaxRetries[k]
    <3> SUFFICES ASSUME NEW k \in Kind, k \in handled
                 PROVE  ~(counts[k] + 1 > MaxRetries[k])
      BY <1>3 DEF TypeOK
    <3>1. k \in K /\ k \notin exhausted
      BY <1>9 DEF handled
    <3> QED
      BY <3>1, KindAssumption DEF Counts
  <2>4. /\ \A u \in Task : u # t => failures'[u] = failures[u]
        /\ RunsMove
    BY <1>3, <2>1 DEF TypeOK, RunsMove, Outcomes
  <2>5. /\ taskStatus' \in [Task -> SUBSET TaskFlag]
        /\ attStatus' \in [Attempt -> SUBSET AttemptFlag]
        /\ jobs' \subseteq Job
        /\ AttemptsMove
    BY <2>1, KillTasksFacts DEF TypeOK
  <2> QED
    BY <1>4, <1>6, <2>1, <2>2, <2>3, <2>4, <2>5 DEF TypeOK
<1>10. CASE exhausted # {}
  <2>1. FailTree(runStatus, failed, r, {t}, jobs)
    BY <1>10 DEF ProcessError
  <2>2. runStatus \in RunStatus /\ jobs \in SUBSET Job /\ {t} \in SUBSET Task
    BY DEF TypeOK
  <2>3. \A u \in Task : \/ failed[u] = taskStatus[u]
                        \/ /\ taskStatus[u] \cap TerminalFlag \subseteq failed[u]
                           /\ Terminal(failed[u])
    BY DEF TypeOK, Ended, Terminal
  <2>4. "failed" \in failed[t]
    BY DEF TypeOK, Ended
  <2> HIDE DEF failed, r
  <2>5. /\ runStatus' \in RunStatus
        /\ taskStatus' \in [Task -> SUBSET TaskFlag]
        /\ attStatus' \in [Attempt -> SUBSET AttemptFlag]
        /\ jobs' \subseteq Job
        /\ AttemptsMove
        /\ Outcomes(runStatus, runStatus')
        /\ \A u \in Task : \/ taskStatus'[u] = failed[u]
                           \/ /\ Exists(failed[u]) /\ ~Terminal(failed[u])
                              /\ taskStatus'[u] = Ended(failed[u], "killed")
        /\ \A x \in Run : "finished" \in runStatus'[x] => "finished" \in runStatus[x]
        /\ \A x \in Run : "failed" \in runStatus'[x] /\ "failed" \notin runStatus[x] => x \in UpFrom(Run, r)
    BY <1>7, <1>8, <2>1, <2>2, FailTreeFacts
  <2>6. TasksMove
    BY <2>3, <2>5 DEF TasksMove, Ended, Terminal
  <2>7. "failed" \in taskStatus'[t]
    BY <2>4, <2>5 DEF Ended
  <2>8. \A u \in Task : u # t => failures'[u] = failures[u]
    BY <1>3 DEF TypeOK
  <2> QED
    BY <1>4, <1>6, <2>5, <2>6, <2>7, <2>8 DEF RunsMove, r
<1> QED
  BY <1>9, <1>10

-----------------------------------------------------------------------------
(* The types, and the moves of every step.                                  *)

Moves == TasksMove /\ AttemptsMove /\ RunsMove /\ \A t \in Task : members[t] \subseteq members'[t]

LEMMA InitType == Init => TypeOK
<1> SUFFICES ASSUME Init PROVE TypeOK
  OBVIOUS
<1>1. runStatus \in RunStatus
  BY DEF Init, RunStatus, RunFlag
<1>2. failures \in [Task -> Counts]
  BY DEF Init, Counts
<1>3. jobs \subseteq Job
  BY DEF Init, Job
<1>4. /\ taskStatus \in [Task -> SUBSET TaskFlag]
      /\ active \in [Task -> AttemptOrNone]
      /\ members \in [Task -> SUBSET Attempt]
      /\ attStatus \in [Attempt -> SUBSET AttemptFlag]
      /\ fingerprint \in [{Contents[t] : t \in Task} -> AttemptOrNone]
      /\ executions \in [Task -> Nat]
      /\ worker \in [Attempt -> WorkerState]
  BY DEF Init, AttemptOrNone, WorkerState
<1>5. crashes \in 0..MaxCrashes
  BY SettingsAssumption DEF Init
<1> QED
  BY <1>1, <1>2, <1>3, <1>4, <1>5 DEF Init, TypeOK

\* Rows that a step leaves alone make its moves empty ones.
LEMMA NoMoves ==
  ASSUME UNCHANGED <<runStatus, taskStatus, attStatus, members>>
  PROVE  Moves
BY DEF Moves, TasksMove, AttemptsMove, RunsMove, Outcomes

LEMMA PostprocessRunStep ==
  ASSUME TypeOK, NEW r \in Run, PostprocessRun(r)
  PROVE  TypeOK' /\ Moves
<1> DEFINE new   == IF Terminal(runStatus[r]) THEN {}
                    ELSE NewTasks({x \in Run : r \in UpFrom(Run, x)}, FinishedTasks(taskStatus))
           taken == jobs \ {[fn |-> "postprocess_run", arg |-> r]}
<1>1. /\ \/ PushFails(taskStatus, new, {}, taken)
         \/ /\ taskStatus' = Created(taskStatus, new)
            /\ executions' = Queued(new)
            /\ runStatus' = Begun(new)
            /\ jobs' = taken
            /\ UNCHANGED attStatus
      /\ UNCHANGED <<failures, active, members, fingerprint, worker, handlers, crashes>>
  BY DEF PostprocessRun
<1>2. new \in SUBSET Task /\ \A u \in new : ~Exists(taskStatus[u])
  BY DEF NewTasks
<1>3. taken \in SUBSET Job
  BY DEF TypeOK
<1> HIDE DEF new, taken
<1>4. CASE PushFails(taskStatus, new, {}, taken)
  <2>1. /\ taskStatus' \in [Task -> SUBSET TaskFlag]
        /\ executions' \in [Task -> Nat]
        /\ attStatus' \in [Attempt -> SUBSET AttemptFlag]
        /\ jobs' \subseteq Job
        /\ runStatus' \in RunStatus
        /\ AttemptsMove
        /\ RunsMove
        /\ \A t \in Task : Onward(IF t \in new THEN {} ELSE taskStatus[t], taskStatus'[t])
                             \/ Onward(taskStatus[t], taskStatus'[t])
    BY <1>2, <1>3, <1>4, PushFailsFacts DEF TypeOK
  <2>2. TasksMove
    BY <1>2, <2>1 DEF TasksMove, Onward, Exists
  <2> QED
    BY <1>1, <2>1, <2>2 DEF TypeOK, handlers, Moves
<1>5. CASE /\ taskStatus' = Created(taskStatus, new)
           /\ executions' = Queued(new)
           /\ runStatus' = Begun(new)
           /\ jobs' = taken
           /\ UNCHANGED attStatus
  <2>1. TypeOK'
    BY <1>1, <1>3, <1>5, CreatedFacts, QueuedFacts, BegunFacts DEF TypeOK, handlers
  <2>2. TasksMove
    BY <1>2, <1>5 DEF TasksMove, Created, Exists, TypeOK
  <2>3. AttemptsMove /\ RunsMove
    BY <1>5, BegunFacts DEF AttemptsMove, RunsMove, Outcomes
  <2> QED
    BY <1>1, <2>1, <2>2, <2>3 DEF Moves
<1> QED
  BY <1>1, <1>4, <1>5

LEMMA ExecutionStep ==
  ASSUME TypeOK, NEW t \in Task, DropExecution(t) \/ DecideExecution(t)
  PROVE  TypeOK' /\ Moves
<1>1. Moves
  BY NoMoves DEF DropExecution, DecideExecution, rows
<1>2. executions' \in [Task -> Nat]
  BY DEF TypeOK, DropExecution, DecideExecution
<1>3. CASE DropExecution(t)
  BY <1>1, <1>2, <1>3 DEF DropExecution, TypeOK, rows, handlers
<1>4. CASE DecideExecution(t)
  <2> USE DEF FingerprintAttempt, FinishedAlready
  <2> DEFINE fp == fingerprint[Contents[t]]
             reuse == TaskRun[t] \notin ForceRerun /\ fp # NoAttempt /\ MightSucceed(fp)
             e == [task |-> t, message |-> executions[t],
                   attempt |-> IF reuse THEN fp ELSE NoAttempt,
                   finished |-> reuse /\ "finished" \in attStatus[fp],
                   terminal |-> Terminal(taskStatus[t]),
                   count |-> failures[t]["system"],
                   seen |-> fp]
  <2>1. executing' = executing \cup {e}
    BY <1>4 DEF DecideExecution
  <2>2. fp \in AttemptOrNone /\ NoAttempt \in AttemptOrNone
    BY DEF TypeOK, AttemptOrNone
  <2>3. executions[t] \in Nat /\ failures[t]["system"] \in Nat
    BY KindAssumption DEF TypeOK, Counts
  <2>4. reuse \in BOOLEAN /\ Terminal(taskStatus[t]) \in BOOLEAN
    BY DEF Terminal
  <2> HIDE DEF fp, reuse
  <2>5. (reuse /\ "finished" \in attStatus[fp]) \in BOOLEAN
    OBVIOUS
  <2>6. e \in Execution
    BY <2>2, <2>3, <2>4, <2>5 DEF Execution
  <2> HIDE DEF e
  <2> QED
    BY <1>1, <1>2, <1>4, <2>1, <2>6 DEF DecideExecution, TypeOK, rows
<1> QED
  BY <1>3, <1>4

LEMMA ReuseAttemptStep ==
  ASSUME TypeOK, NEW e \in executing, ReuseAttempt(e)
  PROVE  TypeOK' /\ Moves
<1> DEFINE t == e.task
           a == e.attempt
<1>1. t \in Task /\ a \in Attempt
  BY DEF ReuseAttempt, TypeOK, Execution, AttemptOrNone
<1>2. /\ active' = [active EXCEPT ![t] = a]
      /\ members' = [members EXCEPT ![t] = @ \cup {a}]
      /\ executing' \subseteq executing
      /\ UNCHANGED <<failures, fingerprint, worker, finishing, erring, visiting, crashes>>
  BY DEF ReuseAttempt
<1>3. /\ active' \in [Task -> AttemptOrNone]
      /\ members' \in [Task -> SUBSET Attempt]
      /\ \A u \in Task : members[u] \subseteq members'[u]
      /\ members[t] \cup {a} \in SUBSET Attempt
  BY <1>1, <1>2 DEF TypeOK, AttemptOrNone
<1>4. CASE e.finished /\ ~e.terminal
  <2>1. FinishWays(t, Activated(t), members[t] \cup {a})
    BY <1>4 DEF ReuseAttempt, FinishWays
  <2> HIDE DEF t, a
  <2> QED
    BY <1>1, <1>2, <1>3, <2>1, FinishFacts DEF TypeOK, Moves
<1>5. CASE ~(e.finished /\ ~e.terminal)
  <2>1. taskStatus' = Activated(t) /\ UNCHANGED <<runStatus, executions, attStatus, jobs>>
    BY <1>5 DEF ReuseAttempt
  <2> HIDE DEF t, a
  <2>2. taskStatus' \in [Task -> SUBSET TaskFlag] /\ TasksMove /\ AttemptsMove /\ RunsMove
    BY <1>1, <2>1 DEF Activated, Started, TypeOK, TaskFlag, TasksMove, AttemptsMove, RunsMove, Outcomes
  <2> QED
    BY <1>2, <1>3, <2>1, <2>2 DEF TypeOK, Moves
<1> QED
  BY <1>4, <1>5

LEMMA CreateAttemptStep ==
  ASSUME TypeOK, NEW e \in executing, NEW a \in Attempt, CreateAttempt(e, a)
  PROVE  TypeOK' /\ Moves
<1> DEFINE t == e.task
<1>1. t \in Task
  BY DEF TypeOK, Execution
<1>2. /\ executing' \subseteq executing
      /\ ~Exists(attStatus[a])
      /\ attStatus' = [attStatus EXCEPT ![a] = {"running"}]
      /\ active' = [active EXCEPT ![t] = a]
      /\ members' = [members EXCEPT ![t] = @ \cup {a}]
      /\ taskStatus' = Activated(t)
      /\ fingerprint' \in {fingerprint, [fingerprint EXCEPT ![Contents[t]] = a]}
      /\ worker' = [worker EXCEPT ![a] = "running"]
      /\ UNCHANGED <<runStatus, failures, queue, finishing, erring, visiting, crashes>>
  BY DEF CreateAttempt
<1> HIDE DEF t
<1>3. /\ attStatus' \in [Attempt -> SUBSET AttemptFlag]
      /\ active' \in [Task -> AttemptOrNone]
      /\ members' \in [Task -> SUBSET Attempt]
      /\ fingerprint' \in [{Contents[u] : u \in Task} -> AttemptOrNone]
      /\ worker' \in [Attempt -> WorkerState]
  BY <1>1, <1>2 DEF TypeOK, AttemptFlag, AttemptOrNone, WorkerState
<1>4. taskStatus' \in [Task -> SUBSET TaskFlag] /\ TasksMove
  BY <1>1, <1>2 DEF Activated, Started, TypeOK, TaskFlag, TasksMove
<1>5. AttemptsMove
  BY <1>2 DEF AttemptsMove, Exists, TypeOK
<1>6. RunsMove /\ \A u \in Task : members[u] \subseteq members'[u]
  BY <1>1, <1>2 DEF TypeOK, RunsMove, Outcomes
<1>7. TypeOK'
  BY <1>2, <1>3, <1>4 DEF TypeOK, queue
<1> QED
  BY <1>4, <1>5, <1>6, <1>7 DEF Moves

LEMMA CreateFailsStep ==
  ASSUME TypeOK, NEW e \in executing, CreateFails(e)
  PROVE  TypeOK' /\ Moves
<1> DEFINE counts == [k \in Kind |-> e.count]
<1>1. e.task \in Task /\ {"system"} \in SUBSET Kind /\ counts \in Counts
  BY KindAssumption DEF TypeOK, Execution, Counts
<1>2. /\ executing' \subseteq executing
      /\ \/ ProcessError(e.task, {"system"}, counts)
         \/ UNCHANGED <<runStatus, taskStatus, failures, attStatus, queue>>
      /\ UNCHANGED <<active, members, fingerprint, worker, finishing, erring, visiting, crashes>>
  BY DEF CreateFails
<1> HIDE DEF counts
<1>3. CASE ProcessError(e.task, {"system"}, counts)
  BY <1>1, <1>2, <1>3, ProcessErrorFacts DEF TypeOK, Moves
<1>4. CASE UNCHANGED <<runStatus, taskStatus, failures, attStatus, queue>>
  BY <1>2, <1>4, NoMoves DEF TypeOK, queue
<1> QED
  BY <1>2, <1>3, <1>4

LEMMA LoadErringType ==
  ASSUME TypeOK, NEW a \in Attempt, NEW k \in Kind, LoadErring(a, k)
  PROVE  erring' \subseteq ErrorRow
<1> SUFFICES ASSUME NEW t \in Task
             PROVE  [task |-> t, attempt |-> a, kind |-> k, count |-> failures[t][k]] \in ErrorRow
  BY DEF LoadErring, TypeOK, ActiveOn
<1>1. failures[t][k] \in Nat
  BY DEF TypeOK, Counts
<1> QED
  BY <1>1 DEF ErrorRow

\* The steps in which the worker, its playbook or its cleanup is heard of.
LEMMA WorkerStep ==
  ASSUME TypeOK, NEW a \in Attempt, NEW k \in Kind, NEW done \in BOOLEAN,
         \/ WorkerFinishes(a) \/ WorkerExits(a) \/ WorkerReportsError(a, k)
         \/ PlaybookFails(a) \/ CleanupTaskAttempt(a, done)
  PROVE  TypeOK' /\ Moves
<1>1. CASE WorkerFinishes(a)
  <2>1. jobs' \subseteq Job
    BY <1>1 DEF WorkerFinishes, TypeOK, Job
  <2> QED
    BY <1>1, <2>1, NoMoves DEF WorkerFinishes, TypeOK, WorkerState, rows, handlers
<1>2. CASE WorkerExits(a)
  BY <1>2, NoMoves DEF WorkerExits, TypeOK, WorkerState, rows, queue, handlers
<1>3. CASE WorkerReportsError(a, k) \/ PlaybookFails(a)
  <2>1. /\ attStatus' \in {attStatus, [attStatus EXCEPT ![a] = Broken(@)]}
        /\ UNCHANGED <<runStatus, taskStatus, failures, active, members, fingerprint,
                       queue, finishing, visiting, executing, crashes>>
    BY <1>3 DEF WorkerReportsError, PlaybookFails
  <2>2. attStatus' \in [Attempt -> SUBSET AttemptFlag] /\ AttemptsMove
    BY <2>1 DEF TypeOK, Broken, AttemptFlag, AttemptsMove, Exists
  <2>3. worker' \in [Attempt -> WorkerState]
    BY <1>3 DEF WorkerReportsError, PlaybookFails, TypeOK, WorkerState
  <2>4. erring' \subseteq ErrorRow
    BY <1>3, LoadErringType, KindAssumption DEF WorkerReportsError, PlaybookFails
  <2>5. TasksMove /\ RunsMove
    BY <2>1 DEF TasksMove, RunsMove, Outcomes
  <2> QED
    BY <2>1, <2>2, <2>3, <2>4, <2>5 DEF TypeOK, queue, Moves
<1>4. CASE CleanupTaskAttempt(a, done)
  <2>1. attStatus' \in {attStatus, [attStatus EXCEPT ![a] = @ \cup {"cleaned_up"}]}
    BY <1>4 DEF CleanupTaskAttempt
  <2>2. attStatus' \in [Attempt -> SUBSET AttemptFlag] /\ AttemptsMove
    BY <2>1 DEF TypeOK, AttemptFlag, AttemptsMove, Exists
  <2>3. worker' \in [Attempt -> WorkerState]
    BY <1>4 DEF CleanupTaskAttempt, TypeOK, WorkerState
  <2>4. TasksMove /\ RunsMove
    BY <1>4 DEF CleanupTaskAttempt, TasksMove, RunsMove, Outcomes
  <2> QED
    BY <1>4, <2>2, <2>3, <2>4 DEF CleanupTaskAttempt, TypeOK, handlers, Moves
<1> QED
  BY <1>1, <1>2, <1>3, <1>4

LEMMA FinishTaskAttemptStep ==
  ASSUME TypeOK, NEW a \in Attempt, FinishTaskAttempt(a)
  PROVE  TypeOK' /\ Moves
<1>1. attStatus' \in {attStatus, [attStatus EXCEPT ![a] = Ended(@, "finished")]}
  BY DEF FinishTaskAttempt
<1>2. attStatus' \in [Attempt -> SUBSET AttemptFlag] /\ AttemptsMove
  BY <1>1 DEF TypeOK, Ended, AttemptFlag, AttemptsMove, Exists
<1>3. finishing' \subseteq FinishRow /\ jobs' \subseteq Job
  BY DEF FinishTaskAttempt, TypeOK, ActiveOn, FinishRow
<1>4. TasksMove /\ RunsMove
  BY DEF FinishTaskAttempt, TasksMove, RunsMove, Outcomes
<1> QED
  BY <1>2, <1>3, <1>4 DEF FinishTaskAttempt, TypeOK, Moves

LEMMA FinishTaskStep ==
  ASSUME TypeOK, NEW f \in finishing, FinishTask(f)
  PROVE  TypeOK' /\ Moves
<1>1. f.task \in Task
  BY DEF TypeOK, FinishRow
<1>2. FinishWays(f.task, taskStatus, members[f.task]) /\ members[f.task] \in SUBSET Attempt
  BY <1>1 DEF FinishTask, FinishWays, TypeOK
<1>3. finishing' \subseteq finishing
  BY DEF FinishTask
<1> QED
  BY <1>1, <1>2, <1>3, FinishFacts DEF FinishTask, TypeOK, Moves

LEMMA HandleErrorStep ==
  ASSUME TypeOK, NEW e \in erring, HandleError(e)
  PROVE  TypeOK' /\ Moves
<1> DEFINE counts == [k \in Kind |-> e.count]
<1>1. e.task \in Task /\ {e.kind} \in SUBSET Kind /\ counts \in Counts
  BY DEF TypeOK, ErrorRow, Counts
<1>2. ProcessError(e.task, {e.kind}, counts)
  BY DEF HandleError
<1> HIDE DEF counts
<1> QED
  BY <1>1, <1>2, ProcessErrorFacts DEF HandleError, TypeOK, Moves

LEMMA StartCheckStep ==
  ASSUME TypeOK, StartCheck
  PROVE  TypeOK' /\ Moves
<1>1. visiting' \subseteq CheckedRow
  <2> SUFFICES ASSUME NEW t \in Watched
               PROVE  [task |-> t, attempt |-> active[t], terminal |-> Terminal(taskStatus[t]),
                       counts |-> failures[t]] \in CheckedRow
    BY DEF StartCheck
  <2>1. t \in Task /\ active[t] \in AttemptOrNone /\ failures[t] \in Counts
    BY DEF TypeOK, Watched
  <2>2. Terminal(taskStatus[t]) \in BOOLEAN
    BY DEF Terminal
  <2> QED
    BY <2>1, <2>2 DEF CheckedRow
<1> QED
  BY <1>1, NoMoves DEF StartCheck, TypeOK, rows, queue

LEMMA VisitTaskStep ==
  ASSUME TypeOK, NEW v \in visiting, NEW responsive \in BOOLEAN, NEW timedOut \in BOOLEAN,
         VisitTask(v, responsive, timedOut)
  PROVE  TypeOK' /\ Moves
<1> DEFINE kinds == (IF responsive THEN {} ELSE {"system"}) \cup (IF timedOut THEN {"timeout"} ELSE {})
<1>1. v.task \in Task /\ kinds \in SUBSET Kind /\ v.counts \in Counts
  BY KindAssumption DEF TypeOK, CheckedRow
<1>2. /\ visiting' \subseteq visiting
      /\ \/ ProcessError(v.task, kinds, v.counts)
         \/ UNCHANGED <<runStatus, taskStatus, failures, attStatus, queue>>
      /\ UNCHANGED <<active, members, fingerprint, worker, finishing, erring, executing, crashes>>
  BY DEF VisitTask
<1> HIDE DEF kinds
<1>3. CASE ProcessError(v.task, kinds, v.counts)
  BY <1>1, <1>2, <1>3, ProcessErrorFacts DEF TypeOK, Moves
<1>4. CASE UNCHANGED <<runStatus, taskStatus, failures, attStatus, queue>>
  BY <1>2, <1>4, NoMoves DEF TypeOK, queue
<1> QED
  BY <1>2, <1>3, <1>4

LEMMA CheckForMissedCleanupStep ==
  ASSUME TypeOK, CheckForMissedCleanup
  PROVE  TypeOK' /\ Moves
<1>1. jobs' \subseteq Job
  BY CleanupJobsFacts DEF CheckForMissedCleanup, TypeOK
<1> QED
  BY <1>1, NoMoves DEF CheckForMissedCleanup, TypeOK, rows, handlers

LEMMA KillRunStep ==
  ASSUME TypeOK, NEW r \in Run, KillRunByUser(r)
  PROVE  TypeOK' /\ Moves
<1> DEFINE T == UNION {TasksOf(x) : x \in KilledBy(runStatus, r)}
<1>1. T \in SUBSET Task
  BY DEF TasksOf
<1>2. runStatus' = KillRun(runStatus, r) /\ KillTasks(taskStatus, T, {}, jobs)
  BY DEF KillRunByUser
<1> HIDE DEF T
<1>3. /\ taskStatus' \in [Task -> SUBSET TaskFlag]
      /\ attStatus' \in [Attempt -> SUBSET AttemptFlag]
      /\ jobs' \subseteq Job
      /\ \A t \in Task : \/ taskStatus'[t] = taskStatus[t]
                         \/ taskStatus'[t] = Ended(taskStatus[t], "killed")
      /\ AttemptsMove
  BY <1>1, <1>2, KillTasksFacts DEF TypeOK
<1>4. TasksMove
  BY <1>3 DEF TasksMove, Ended, Terminal
<1>5. runStatus' \in RunStatus /\ RunsMove
  BY <1>2, KillRunOutcomes DEF TypeOK, RunsMove
<1> QED
  BY <1>3, <1>4, <1>5 DEF KillRunByUser, TypeOK, handlers, Moves

LEMMA HandlersDieStep ==
  ASSUME TypeOK, HandlersDie
  PROVE  TypeOK' /\ Moves
<1>1. /\ finishing' \subseteq finishing
      /\ erring' \subseteq erring
      /\ visiting' \subseteq visiting
      /\ executing' \subseteq executing
      /\ UNCHANGED <<rows, queue, worker>>
  BY DEF HandlersDie
<1>2. crashes' \in 0..MaxCrashes
  BY SettingsAssumption DEF HandlersDie, TypeOK
<1> QED
  BY <1>1, <1>2, NoMoves DEF HandlersDie, TypeOK, rows, queue

\* Every step keeps the types and makes only such moves.
LEMMA StepMoves ==
  ASSUME TypeOK, [Next]_vars
  PROVE  TypeOK' /\ Moves
<1>1. CASE UNCHANGED vars
  BY <1>1, NoMoves DEF vars, rows, queue, handlers, TypeOK
<1>2. CASE Next
  <2>1. CASE \E r \in Run : PostprocessRun(r) \/ KillRunByUser(r)
    BY <2>1, PostprocessRunStep, KillRunStep
  <2>2. CASE \E t \in Task : DropExecution(t) \/ DecideExecution(t)
    BY <2>2, ExecutionStep
  <2>3. CASE \E e \in executing : \/ ReuseAttempt(e) \/ CreateFails(e)
                                  \/ \E a \in Attempt : CreateAttempt(e, a)
    BY <2>3, ReuseAttemptStep, CreateFailsStep, CreateAttemptStep
  <2>4. CASE \E a \in Attempt : \/ WorkerFinishes(a) \/ WorkerExits(a) \/ PlaybookFails(a)
                                \/ \E k \in Kind : WorkerReportsError(a, k)
                                \/ FinishTaskAttempt(a)
                                \/ \E done \in BOOLEAN : CleanupTaskAttempt(a, done)
    <3>1. "system" \in Kind /\ TRUE \in BOOLEAN
      BY KindAssumption
    <3> QED
      BY <2>4, <3>1, WorkerStep, FinishTaskAttemptStep
  <2>5. CASE (\E f \in finishing : FinishTask(f)) \/ \E e \in erring : HandleError(e)
    BY <2>5, FinishTaskStep, HandleErrorStep
  <2>6. CASE StartCheck \/ CheckForMissedCleanup \/ HandlersDie
    BY <2>6, StartCheckStep, CheckForMissedCleanupStep, HandlersDieStep
  <2>7. CASE \E v \in visiting, responsive, timedOut \in BOOLEAN : VisitTask(v, responsive, timedOut)
    BY <2>7, VisitTaskStep
  <2> QED
    BY <1>2, <2>1, <2>2, <2>3, <2>4, <2>5, <2>6, <2>7 DEF Next
<1> QED
  BY <1>1, <1>2

\* The rows, the queue, the loaded rows and the handlers are what their columns
\* allow, in every state of every instance: a Boolean column, a null or an existing
\* attempt, a count that is never negative.
THEOREM TypeCorrect == Spec => []TypeOK
<1>1. Init => TypeOK
  BY InitType
<1>2. TypeOK /\ [Next]_vars => TypeOK'
  BY StepMoves
<1> QED
  BY <1>1, <1>2, PTL DEF Spec

-----------------------------------------------------------------------------
(* Each part of the inductive invariant.                                    *)

LEMMA TasksStayThere ==
  ASSUME Moves, NEW t \in Task, Exists(taskStatus[t])
  PROVE  Exists(taskStatus'[t])
BY DEF Moves, TasksMove, Exists, Terminal

\* The steps that give a task an attempt, and those that only forget a handler.
LEMMA AttemptChanges ==
  ASSUME [Next]_vars
  PROVE  \/ \E e \in executing : ReuseAttempt(e) \/ \E a \in Attempt : CreateAttempt(e, a)
         \/ \E t \in Task : DecideExecution(t)
         \/ /\ UNCHANGED <<active, members, fingerprint>>
            /\ executing' \subseteq executing
BY DEF Next, vars, rows, handlers, PostprocessRun, KillRunByUser, DropExecution, FinishTask,
   CreateFails, WorkerFinishes, WorkerExits, PlaybookFails, WorkerReportsError, FinishTaskAttempt,
   CleanupTaskAttempt, HandleError, StartCheck, VisitTask, CheckForMissedCleanup, HandlersDie

\* What execute_task holds once it has decided.
LEMMA DecisionFacts ==
  ASSUME NEW t \in Task, DecideExecution(t), NEW e \in executing', e \notin executing
  PROVE  /\ e.task = t /\ executions[t] > 0
         /\ e.attempt # NoAttempt => e.attempt = fingerprint[Contents[t]]
         /\ e.finished => e.attempt # NoAttempt /\ "finished" \in attStatus[e.attempt]
<1> USE DEF FingerprintAttempt, FinishedAlready
<1> DEFINE fp == fingerprint[Contents[t]]
           reuse == TaskRun[t] \notin ForceRerun /\ fp # NoAttempt /\ MightSucceed(fp)
<1>1. /\ e = [task |-> t, message |-> executions[t],
              attempt |-> IF reuse THEN fp ELSE NoAttempt,
              finished |-> reuse /\ "finished" \in attStatus[fp],
              terminal |-> Terminal(taskStatus[t]),
              count |-> failures[t]["system"],
              seen |-> fp]
      /\ executions[t] > 0
  BY DEF DecideExecution
<1>2. /\ e.task = t
      /\ e.attempt = IF reuse THEN fp ELSE NoAttempt
      /\ e.finished = (reuse /\ "finished" \in attStatus[fp])
  BY <1>1
<1>3. reuse => fp # NoAttempt
  OBVIOUS
<1> HIDE DEF reuse
<1> QED
  BY <1>1, <1>2, <1>3

\* The steps that load tasks to be acted on later.
LEMMA LoadChanges ==
  ASSUME [Next]_vars
  PROVE  /\ \/ finishing' \subseteq finishing
            \/ \E a \in Attempt : FinishTaskAttempt(a)
         /\ \/ erring' \subseteq erring
            \/ \E a \in Attempt, k \in Kind : LoadErring(a, k)
         /\ \/ visiting' \subseteq visiting
            \/ StartCheck
<1>1. CASE UNCHANGED vars
  BY <1>1 DEF vars, handlers
<1>2. CASE Next
  <2>1. \/ finishing' \subseteq finishing
        \/ \E a \in Attempt : FinishTaskAttempt(a)
    BY <1>2 DEF Next, handlers, PostprocessRun, KillRunByUser, DropExecution, DecideExecution,
       FinishTask, ReuseAttempt, CreateFails, CreateAttempt, WorkerFinishes, WorkerExits, PlaybookFails,
       WorkerReportsError, CleanupTaskAttempt, HandleError, StartCheck, VisitTask,
       CheckForMissedCleanup, HandlersDie
  <2>2. \/ erring' \subseteq erring
        \/ \E a \in Attempt, k \in Kind : LoadErring(a, k)
    BY <1>2, KindAssumption
    DEF Next, handlers, PostprocessRun, KillRunByUser, DropExecution, DecideExecution,
       FinishTask, ReuseAttempt, CreateFails, CreateAttempt, WorkerFinishes, WorkerExits, PlaybookFails,
       WorkerReportsError, CleanupTaskAttempt, HandleError, StartCheck, VisitTask,
       CheckForMissedCleanup, HandlersDie, FinishTaskAttempt
  <2>3. \/ visiting' \subseteq visiting
        \/ StartCheck
    BY <1>2 DEF Next, handlers, PostprocessRun, KillRunByUser, DropExecution, DecideExecution,
       FinishTask, ReuseAttempt, CreateFails, CreateAttempt, WorkerFinishes, WorkerExits, PlaybookFails,
       WorkerReportsError, CleanupTaskAttempt, HandleError, VisitTask,
       CheckForMissedCleanup, HandlersDie, FinishTaskAttempt
  <2> QED
    BY <2>1, <2>2, <2>3
<1> QED
  BY <1>1, <1>2

\* Only a created task, or one that an error is handled for, gets a message.
LEMMA QueuedMessages ==
  ASSUME TypeOK, NEW N, NEW u \in Task, executions' = Queued(N), executions'[u] > 0
  PROVE  executions[u] > 0 \/ u \in N
BY DEF Queued, TypeOK

LEMMA PushFailsMessages ==
  ASSUME TypeOK, NEW ts, NEW New, NEW Made, NEW oldJobs, NEW u \in Task,
         PushFails(ts, New, Made, oldJobs), executions'[u] > 0
  PROVE  executions[u] > 0 \/ Exists(taskStatus'[u])
<1>1. PICK b : /\ executions' = Queued(Made)
               /\ FailTree(Begun(Made), Created(ts, Made), TaskRun[b], {}, oldJobs)
  BY DEF PushFails
<1>2. CASE u \in Made
  <2>1. Created(ts, Made)[u] = {"running"}
    BY <1>2 DEF Created
  <2> QED
    BY <1>1, <2>1 DEF FailTree, KillTasks, Ended, Exists
<1> QED
  BY <1>1, <1>2, QueuedMessages

LEMMA FinishMessages ==
  ASSUME TypeOK, NEW t \in Task, NEW ts, NEW M, NEW u \in Task,
         FinishWays(t, ts, M), executions'[u] > 0
  PROVE  executions[u] > 0 \/ Exists(taskStatus'[u])
<1>1. CASE FinishAgain(t, ts)
  BY <1>1 DEF FinishAgain
<1>2. CASE FinishFails(t, ts)
  BY <1>2, PushFailsMessages DEF FinishFails
<1>3. CASE Finish(t, ts, M)
  BY <1>3, QueuedMessages DEF Finish, Created, Exists
<1> QED
  BY <1>1, <1>2, <1>3 DEF FinishWays

LEMMA ProcessErrorMessages ==
  ASSUME TypeOK, NEW t \in Task, NEW K, NEW counts, NEW u \in Task, u # t,
         ProcessError(t, K, counts)
  PROVE  executions'[u] = executions[u]
BY DEF ProcessError, TypeOK

LEMMA HandledTasksExistStep ==
  ASSUME TypeOK, HandledTasksExist, [Next]_vars
  PROVE  HandledTasksExist'
<1>1. \A t \in Task : Exists(taskStatus[t]) => Exists(taskStatus'[t])
  BY StepMoves, TasksStayThere
<1>2. /\ \A e \in erring : e.task \in Task
      /\ \A v \in visiting : v.task \in Task
      /\ \A e \in executing : e.task \in Task
      /\ \A f \in finishing : f.task \in Task
  BY DEF TypeOK, FinishRow, ErrorRow, CheckedRow, Execution
<1>3. ASSUME NEW t \in Task, executions'[t] > 0
      PROVE  Exists(taskStatus'[t])
  <2>1. CASE executions[t] > 0
    BY <1>1, <2>1 DEF HandledTasksExist
  <2>2. CASE ~(executions[t] > 0)
    <3>1. ASSUME NEW r \in Run, PostprocessRun(r) PROVE Exists(taskStatus'[t])
      BY <1>3, <2>2, <3>1, PushFailsMessages, QueuedMessages DEF PostprocessRun, Created, Exists
    <3>2. ASSUME NEW f \in finishing, FinishTask(f) PROVE Exists(taskStatus'[t])
      <4>1. FinishWays(f.task, taskStatus, members[f.task])
        BY <3>2 DEF FinishTask, FinishWays
      <4> QED
        BY <1>2, <1>3, <2>2, <4>1, FinishMessages
    <3>3. ASSUME NEW e \in executing, ReuseAttempt(e) PROVE Exists(taskStatus'[t])
      <4>1. \/ FinishWays(e.task, Activated(e.task), members[e.task] \cup {e.attempt})
            \/ executions' = executions
        BY <3>3 DEF ReuseAttempt, FinishWays
      <4> QED
        BY <1>2, <1>3, <2>2, <4>1, FinishMessages
    <3>4. ASSUME NEW e \in erring, HandleError(e) PROVE Exists(taskStatus'[t])
      <4>1. CASE e.task = t
        BY <1>1, <4>1 DEF HandledTasksExist
      <4>2. CASE e.task # t
        BY <1>2, <1>3, <2>2, <3>4, <4>2, ProcessErrorMessages DEF HandleError
      <4> QED
        BY <4>1, <4>2
    <3>5. ASSUME NEW v \in visiting, NEW responsive \in BOOLEAN, NEW timedOut \in BOOLEAN,
                 VisitTask(v, responsive, timedOut)
          PROVE  Exists(taskStatus'[t])
      <4>1. CASE v.task = t
        BY <1>1, <4>1 DEF HandledTasksExist
      <4>2. CASE v.task # t
        BY <1>2, <1>3, <2>2, <3>5, <4>2, ProcessErrorMessages DEF VisitTask, queue
      <4> QED
        BY <4>1, <4>2
    <3>8. ASSUME NEW e \in executing, CreateFails(e) PROVE Exists(taskStatus'[t])
      <4>1. CASE e.task = t
        BY <1>1, <4>1 DEF HandledTasksExist
      <4>2. CASE e.task # t
        BY <1>2, <1>3, <2>2, <3>8, <4>2, ProcessErrorMessages DEF CreateFails, queue
      <4> QED
        BY <4>1, <4>2
    <3>6. ASSUME NEW u \in Task, DropExecution(u) \/ DecideExecution(u)
          PROVE  Exists(taskStatus'[t])
      BY <1>3, <2>2, <3>6 DEF DropExecution, DecideExecution, TypeOK
    <3>7. CASE UNCHANGED executions
      BY <1>3, <2>2, <3>7
    <3> QED
      BY <3>1, <3>2, <3>3, <3>4, <3>5, <3>6, <3>7, <3>8
      DEF Next, vars, queue, KillRunByUser, CreateAttempt, WorkerFinishes, WorkerExits,
          PlaybookFails, WorkerReportsError, FinishTaskAttempt, CleanupTaskAttempt,
          StartCheck, CheckForMissedCleanup, HandlersDie
  <2> QED
    BY <2>1, <2>2
<1>4. ASSUME NEW t \in Task, active'[t] # NoAttempt
      PROVE  Exists(taskStatus'[t])
  <2>1. \/ active' = active
        \/ \E e \in executing, a \in Attempt : active' = [active EXCEPT ![e.task] = a]
    BY AttemptChanges DEF ReuseAttempt, CreateAttempt, DecideExecution, rows,
       TypeOK, Execution, AttemptOrNone
  <2> QED
    BY <1>1, <1>2, <1>4, <2>1 DEF HandledTasksExist, TypeOK
<1>5. ASSUME NEW f \in finishing'
      PROVE  Exists(taskStatus'[f.task])
  <2>1. f \in finishing \/ \E a \in Attempt : f.task \in ActiveOn(a)
    <3>1. ASSUME NEW a \in Attempt, FinishTaskAttempt(a), f \notin finishing
          PROVE  f.task \in ActiveOn(a)
      <4>1. f \in [task : {t \in ActiveOn(a) : ~Terminal(taskStatus[t])}, attempt : {a}]
        BY <1>5, <3>1 DEF FinishTaskAttempt
      <4> QED
        BY <4>1
    <3> QED
      BY <1>5, <3>1, LoadChanges
  <2> QED
    BY <1>1, <1>2, <2>1, AttemptAssumption DEF HandledTasksExist, ActiveOn, TypeOK
<1>6. ASSUME NEW e \in erring'
      PROVE  Exists(taskStatus'[e.task])
  <2>1. e \in erring \/ \E a \in Attempt : e.task \in ActiveOn(a)
    BY <1>6, LoadChanges DEF LoadErring
  <2> QED
    BY <1>1, <1>2, <2>1, AttemptAssumption DEF HandledTasksExist, ActiveOn
<1>7. ASSUME NEW v \in visiting'
      PROVE  Exists(taskStatus'[v.task])
  <2>1. v \in visiting \/ (v.task \in Task /\ "running" \in taskStatus[v.task])
    BY <1>7, LoadChanges DEF StartCheck, Watched
  <2> QED
    BY <1>1, <1>2, <2>1 DEF HandledTasksExist, Exists
<1>8. ASSUME NEW e \in executing'
      PROVE  Exists(taskStatus'[e.task])
  <2>1. e \in executing \/ (e.task \in Task /\ executions[e.task] > 0)
    BY <1>8, AttemptChanges, DecisionFacts DEF ReuseAttempt, CreateAttempt
  <2> QED
    BY <1>1, <1>2, <2>1 DEF HandledTasksExist
<1> QED
  BY <1>3, <1>4, <1>5, <1>6, <1>7, <1>8, StepMoves DEF HandledTasksExist, TypeOK

\* The outcome of a push that fails, as the runs see it.
UncreatedTaskFails ==
  \E b \in Unrenderable : \E N :
     /\ runStatus' = FailRun(Begun(N), TaskRun[b])
     /\ Upstream[b] \subseteq FinishedTasks(taskStatus')

\* A task finishes with all it needs, for a handler that had loaded it.
TaskFinishes ==
  \E t \in Task, M \in SUBSET Attempt : \E ts \in {taskStatus, Activated(t)} :
     Finish(t, ts, M) /\ Exists(taskStatus[t])

\* No task finishes.
NoTaskFinishes == FinishedTasks(taskStatus') = FinishedTasks(taskStatus)

LEMMA ActivatedFinishesNothing ==
  ASSUME TypeOK, NEW t \in Task
  PROVE  FinishedTasks(Activated(t)) = FinishedTasks(taskStatus)
BY DEF FinishedTasks, Activated, Started, TypeOK

LEMMA FinishWaysOutcomes ==
  ASSUME TypeOK, NEW t \in Task, Exists(taskStatus[t]), NEW ts \in {taskStatus, Activated(t)},
         NEW M \in SUBSET Attempt, FinishWays(t, ts, M)
  PROVE  (UNCHANGED runStatus /\ NoTaskFinishes) \/ UncreatedTaskFails \/ TaskFinishes
<1>1. CASE FinishAgain(t, ts)
  <2>1. FinishedTasks(ts) = FinishedTasks(taskStatus)
    BY ActivatedFinishesNothing
  <2>2. FinishedTasks(Saved(t, ts)) = FinishedTasks(ts)
    BY <1>1 DEF FinishAgain, FinishedTasks, Saved, Ended
  <2> QED
    BY <1>1, <2>1, <2>2 DEF FinishAgain, NoTaskFinishes
<1>2. CASE FinishFails(t, ts)
  <2> DEFINE saved == Saved(t, ts)
             new   == NewTasks(DownstreamRuns(TaskRun[t]), FinishedTasks(saved))
  <2>1. PICK R : PushFails(saved, new, {u \in new : TaskRun[u] \in R}, jobs)
    BY <1>2 DEF FinishFails
  <2> DEFINE made == {u \in new : TaskRun[u] \in R}
  <2>2. new \in SUBSET Task /\ \A u \in new : Upstream[u] \subseteq FinishedTasks(saved) /\ ~Exists(taskStatus[u])
    BY DEF NewTasks
  <2>3. saved \in [Task -> SUBSET TaskFlag] /\ jobs \in SUBSET Job
    BY SavedFacts DEF TypeOK
  <2>4. \A u \in Task : "finished" \in saved[u] => u \notin new
    BY <2>2, SavedFacts DEF Exists
  <2> HIDE DEF saved, new
  <2>5. /\ \E b \in new \cap Unrenderable : runStatus' = FailRun(Begun(made), TaskRun[b])
        /\ \A u \in Task : Onward(IF u \in new THEN {} ELSE saved[u], taskStatus'[u])
                             \/ Onward(saved[u], taskStatus'[u])
    BY <2>1, <2>2, <2>3, PushFailsFacts
  <2>6. FinishedTasks(saved) \subseteq FinishedTasks(taskStatus')
    BY <2>4, <2>5 DEF FinishedTasks, Onward
  <2> QED
    BY <2>2, <2>5, <2>6 DEF UncreatedTaskFails
<1>3. CASE Finish(t, ts, M)
  BY <1>3 DEF TaskFinishes
<1> QED
  BY <1>1, <1>2, <1>3 DEF FinishWays

\* The ways a step can change a retry counter or the outcome of a run.
LEMMA OutcomeChanges ==
  ASSUME TypeOK, HandledTasksExist, [Next]_vars
  PROVE  \/ \E t \in Task, K \in SUBSET Kind, counts \in Counts : ProcessError(t, K, counts)
         \/ /\ failures' = failures
            /\ \/ TaskFinishes
               \/ UncreatedTaskFails
               \/ \E r \in Run : KillRunByUser(r)
               \/ /\ NoTaskFinishes
                  /\ UNCHANGED runStatus \/ \E N : runStatus' = Begun(N)
<1>1. ASSUME NEW e \in erring, HandleError(e)
      PROVE  \E t \in Task, K \in SUBSET Kind, counts \in Counts : ProcessError(t, K, counts)
  <2> DEFINE counts == [k \in Kind |-> e.count]
  <2>1. e.task \in Task /\ {e.kind} \in SUBSET Kind /\ counts \in Counts
    BY DEF TypeOK, ErrorRow, Counts
  <2>2. ProcessError(e.task, {e.kind}, counts)
    BY <1>1 DEF HandleError
  <2> HIDE DEF counts
  <2> QED
    BY <2>1, <2>2
<1>2. ASSUME NEW v \in visiting, NEW responsive \in BOOLEAN, NEW timedOut \in BOOLEAN,
             VisitTask(v, responsive, timedOut)
      PROVE  \/ \E t \in Task, K \in SUBSET Kind, counts \in Counts : ProcessError(t, K, counts)
             \/ UNCHANGED <<failures, runStatus, taskStatus>>
  <2> DEFINE kinds == (IF responsive THEN {} ELSE {"system"}) \cup (IF timedOut THEN {"timeout"} ELSE {})
  <2>1. v.task \in Task /\ kinds \in SUBSET Kind /\ v.counts \in Counts
    BY KindAssumption DEF TypeOK, CheckedRow
  <2>2. \/ ProcessError(v.task, kinds, v.counts)
        \/ UNCHANGED <<failures, runStatus, taskStatus>>
    BY <1>2 DEF VisitTask
  <2> HIDE DEF kinds
  <2> QED
    BY <2>1, <2>2
<1>3. ASSUME NEW e \in executing, CreateFails(e)
      PROVE  \/ \E t \in Task, K \in SUBSET Kind, counts \in Counts : ProcessError(t, K, counts)
             \/ UNCHANGED <<failures, runStatus, taskStatus>>
  <2> DEFINE counts == [k \in Kind |-> e.count]
  <2>1. e.task \in Task /\ {"system"} \in SUBSET Kind /\ counts \in Counts
    BY KindAssumption DEF TypeOK, Execution, Counts
  <2>2. \/ ProcessError(e.task, {"system"}, counts)
        \/ UNCHANGED <<failures, runStatus, taskStatus>>
    BY <1>3 DEF CreateFails
  <2> HIDE DEF counts
  <2> QED
    BY <2>1, <2>2
<1>4. ASSUME NEW f \in finishing, FinishTask(f)
      PROVE  /\ failures' = failures
             /\ (UNCHANGED runStatus /\ NoTaskFinishes) \/ UncreatedTaskFails \/ TaskFinishes
  <2>1. FinishWays(f.task, taskStatus, members[f.task]) /\ failures' = failures
    BY <1>4 DEF FinishTask, FinishWays
  <2>2. f.task \in Task /\ members[f.task] \in SUBSET Attempt /\ Exists(taskStatus[f.task])
    BY DEF TypeOK, FinishRow, HandledTasksExist
  <2> QED
    BY <2>1, <2>2, FinishWaysOutcomes
<1>5. ASSUME NEW e \in executing, ReuseAttempt(e)
      PROVE  /\ failures' = failures
             /\ (UNCHANGED runStatus /\ NoTaskFinishes) \/ UncreatedTaskFails \/ TaskFinishes
  <2>1. /\ failures' = failures
        /\ \/ (runStatus' = runStatus /\ taskStatus' = Activated(e.task))
           \/ FinishWays(e.task, Activated(e.task), members[e.task] \cup {e.attempt})
        /\ e.attempt # NoAttempt
    BY <1>5 DEF ReuseAttempt, FinishWays
  <2>2. e.task \in Task /\ members[e.task] \cup {e.attempt} \in SUBSET Attempt
    BY <2>1 DEF TypeOK, Execution, AttemptOrNone
  <2>3. Exists(taskStatus[e.task])
    BY DEF HandledTasksExist
  <2> QED
    BY <2>1, <2>2, <2>3, FinishWaysOutcomes, ActivatedFinishesNothing DEF NoTaskFinishes
<1>6. ASSUME NEW r \in Run, PostprocessRun(r)
      PROVE  /\ failures' = failures
             /\ UncreatedTaskFails \/ (NoTaskFinishes /\ \E N : runStatus' = Begun(N))
  <2> DEFINE new   == IF Terminal(runStatus[r]) THEN {}
                      ELSE NewTasks({x \in Run : r \in UpFrom(Run, x)}, FinishedTasks(taskStatus))
             taken == jobs \ {[fn |-> "postprocess_run", arg |-> r]}
  <2>1. /\ failures' = failures
        /\ \/ PushFails(taskStatus, new, {}, taken)
           \/ (runStatus' = Begun(new) /\ taskStatus' = Created(taskStatus, new))
    BY <1>6 DEF PostprocessRun
  <2>2. new \in SUBSET Task /\ \A u \in new : Upstream[u] \subseteq FinishedTasks(taskStatus) /\ ~Exists(taskStatus[u])
    BY DEF NewTasks
  <2>3. taken \in SUBSET Job
    BY DEF TypeOK
  <2> HIDE DEF new, taken
  <2>4. CASE PushFails(taskStatus, new, {}, taken)
    <3>1. /\ \E b \in new \cap Unrenderable : runStatus' = FailRun(Begun({}), TaskRun[b])
          /\ \A u \in Task : Onward(IF u \in new THEN {} ELSE taskStatus[u], taskStatus'[u])
                               \/ Onward(taskStatus[u], taskStatus'[u])
      BY <2>2, <2>3, <2>4, PushFailsFacts DEF TypeOK
    <3>2. FinishedTasks(taskStatus) \subseteq FinishedTasks(taskStatus')
      BY <2>2, <3>1 DEF FinishedTasks, Onward, Exists
    <3>3. PICK b \in new \cap Unrenderable : runStatus' = FailRun(Begun({}), TaskRun[b])
      BY <3>1
    <3>4. Upstream[b] \subseteq FinishedTasks(taskStatus')
      BY <2>2, <3>2
    <3>5. UncreatedTaskFails
      BY <3>3, <3>4 DEF UncreatedTaskFails
    <3> QED
      BY <2>1, <3>5
  <2>5. FinishedTasks(Created(taskStatus, new)) = FinishedTasks(taskStatus)
    BY <2>2 DEF FinishedTasks, Created, Exists
  <2> QED
    BY <2>1, <2>4, <2>5 DEF NoTaskFinishes
<1>7. ASSUME NEW r \in Run, KillRunByUser(r)
      PROVE  failures' = failures
  BY <1>7 DEF KillRunByUser
<1>8. ASSUME UNCHANGED <<failures, runStatus, taskStatus>>
      PROVE  NoTaskFinishes
  BY <1>8 DEF NoTaskFinishes
<1>9. ASSUME NEW e \in executing, NEW a \in Attempt, CreateAttempt(e, a)
      PROVE  UNCHANGED <<failures, runStatus>> /\ NoTaskFinishes
  BY <1>9, ActivatedFinishesNothing DEF CreateAttempt, TypeOK, Execution, NoTaskFinishes
<1>10. CASE UNCHANGED vars
  BY <1>8, <1>10 DEF vars, rows
<1>11. CASE Next
  <2>1. \/ \E r \in Run : PostprocessRun(r) \/ KillRunByUser(r)
        \/ \E e \in executing : ReuseAttempt(e) \/ CreateFails(e)
        \/ \E e \in executing, a \in Attempt : CreateAttempt(e, a)
        \/ \E f \in finishing : FinishTask(f)
        \/ \E e \in erring : HandleError(e)
        \/ \E v \in visiting, responsive, timedOut \in BOOLEAN : VisitTask(v, responsive, timedOut)
        \/ UNCHANGED <<failures, runStatus, taskStatus>>
    BY <1>11
    DEF Next, rows, DropExecution, DecideExecution, WorkerFinishes, WorkerExits, PlaybookFails,
        WorkerReportsError, FinishTaskAttempt, CleanupTaskAttempt, StartCheck,
        CheckForMissedCleanup, HandlersDie
  <2> QED
    BY <2>1, <1>1, <1>2, <1>3, <1>4, <1>5, <1>6, <1>7, <1>8, <1>9
<1> QED
  BY <1>10, <1>11

LEMMA WatchedStep ==
  ASSUME UnendedTasksAreWatched, Moves
  PROVE  UnendedTasksAreWatched'
BY DEF UnendedTasksAreWatched, Moves, TasksMove

LEMMA OneOutcomeStep ==
  ASSUME RunHasOneOutcome, Moves
  PROVE  RunHasOneOutcome'
BY DEF RunHasOneOutcome, Moves, RunsMove, Outcomes

LEMMA ExhaustedStep ==
  ASSUME TypeOK, HandledTasksExist, ExhaustedTasksHaveFailed, [Next]_vars
  PROVE  ExhaustedTasksHaveFailed'
<1>1. \A t \in Task : "failed" \in taskStatus[t] => "failed" \in taskStatus'[t]
  BY StepMoves DEF Moves, TasksMove
<1>2. CASE failures' = failures
  BY <1>1, <1>2 DEF ExhaustedTasksHaveFailed
<1>3. ASSUME NEW t \in Task, NEW K \in SUBSET Kind, NEW counts \in Counts,
             ProcessError(t, K, counts)
      PROVE  ExhaustedTasksHaveFailed'
  <2>1. /\ \A k \in Kind : failures'[t][k] > MaxRetries[k] =>
             failures[t][k] > MaxRetries[k] \/ "failed" \in taskStatus'[t]
        /\ \A u \in Task : u # t => failures'[u] = failures[u]
    BY <1>3, ProcessErrorFacts
  <2> QED
    BY <1>1, <2>1 DEF ExhaustedTasksHaveFailed
<1> QED
  BY <1>2, <1>3, OutcomeChanges

LEMMA FailedRunsStep ==
  ASSUME TypeOK, HandledTasksExist, FailedRunsHaveACause, [Next]_vars
  PROVE  FailedRunsHaveACause'
<1>1. \A t \in Task : /\ "failed" \in taskStatus[t] => "failed" \in taskStatus'[t]
                      /\ "finished" \in taskStatus[t] => "finished" \in taskStatus'[t]
  BY StepMoves DEF Moves, TasksMove
<1>2. CASE \A r \in Run : "failed" \in runStatus'[r] => "failed" \in runStatus[r]
  BY <1>1, <1>2 DEF FailedRunsHaveACause, BrokenTasks, FinishedTasks
<1>3. ASSUME NEW t \in Task, NEW K \in SUBSET Kind, NEW counts \in Counts,
             ProcessError(t, K, counts)
      PROVE  FailedRunsHaveACause'
  <2>1. \A x \in Run : "failed" \in runStatus'[x] /\ "failed" \notin runStatus[x] =>
              x \in UpFrom(Run, TaskRun[t]) /\ "failed" \in taskStatus'[t]
    BY <1>3, ProcessErrorFacts
  <2> QED
    BY <1>1, <2>1 DEF FailedRunsHaveACause, BrokenTasks, FinishedTasks
<1>4. ASSUME NEW b \in Unrenderable, NEW N, runStatus' = FailRun(Begun(N), TaskRun[b]),
             Upstream[b] \subseteq FinishedTasks(taskStatus')
      PROVE  FailedRunsHaveACause'
  <2>1. b \in Task /\ TaskRun[b] \in Run
    BY TaskAssumption
  <2>2. /\ Begun(N) \in RunStatus
        /\ \A x \in Run : "failed" \in Begun(N)[x] => "failed" \in runStatus[x]
    BY BegunFacts
  <2>3. \A x \in Run : "failed" \in runStatus'[x] /\ "failed" \notin runStatus[x] =>
              x \in UpFrom(Run, TaskRun[b])
    BY <1>4, <2>1, <2>2, FailRunUpwards
  <2> QED
    BY <1>1, <1>4, <2>1, <2>3 DEF FailedRunsHaveACause, BrokenTasks, FinishedTasks
<1>5. ASSUME NEW t \in Task, NEW M \in SUBSET Attempt, NEW ts, Finish(t, ts, M)
      PROVE  \A r \in Run : "failed" \in runStatus'[r] => "failed" \in runStatus[r]
  <2>1. \E N : \/ runStatus' = Begun(N)
               \/ runStatus' = FinishRun(Begun(N), TaskRun[t])
    BY <1>5 DEF Finish
  <2>2. ASSUME NEW N, NEW r \in Run
        PROVE  "failed" \in Begun(N)[r] => "failed" \in runStatus[r]
    BY DEF Begun, StartRuns, Started
  <2>3. ASSUME NEW rs, NEW r \in Run
        PROVE  "failed" \in FinishRun(rs, TaskRun[t])[r] => "failed" \in rs[r]
    BY DEF FinishRun, Ended
  <2> QED
    BY <2>1, <2>2, <2>3
<1>6. ASSUME NEW r \in Run, KillRunByUser(r)
      PROVE  \A x \in Run : "failed" \in runStatus'[x] => "failed" \in runStatus[x]
  BY <1>6 DEF KillRunByUser, KillRun, Ended
<1>7. ASSUME NEW N, runStatus' = Begun(N)
      PROVE  \A x \in Run : "failed" \in runStatus'[x] => "failed" \in runStatus[x]
  BY <1>7 DEF Begun, StartRuns, Started
<1> QED
  BY <1>2, <1>3, <1>4, <1>5, <1>6, <1>7, OutcomeChanges DEF TaskFinishes, UncreatedTaskFails

\* Task.finish finishes a run only when its tasks, or its steps, are finished.
LEMMA FinishCompletes ==
  ASSUME TypeOK, NEW t \in Task, NEW ts \in {taskStatus, Activated(t)},
         NEW M \in SUBSET Attempt, Finish(t, ts, M), Exists(taskStatus[t]),
         NEW x \in Run, "finished" \in runStatus'[x], "finished" \notin runStatus[x]
  PROVE  /\ AreTasksFinished(taskStatus', x)
         /\ \A s \in Steps(x) : "finished" \in runStatus'[s]
<1> DEFINE saved == Saved(t, ts)
           new   == NewTasks(DownstreamRuns(TaskRun[t]), FinishedTasks(saved))
           begun == Begun(new)
           r     == TaskRun[t]
<1>1. /\ taskStatus' = Created(saved, new)
      /\ runStatus' = IF AreTasksFinished(saved, r) THEN FinishRun(begun, r) ELSE begun
  BY DEF Finish
<1>2. begun \in RunStatus /\ "finished" \notin begun[x]
  BY BegunFacts
<1>3. AreTasksFinished(saved, r) /\ runStatus' = FinishRun(begun, r)
  BY <1>1, <1>2
<1>4. r \in Run /\ Steps(r) = {}
  BY TaskAssumption
<1>5. x \in FinishedBy(begun, r)
  BY <1>2, <1>3 DEF FinishRun
<1>6. \A u \in new : ~Exists(taskStatus[u])
  BY DEF NewTasks
<1>7. ASSUME NEW u \in Task, "finished" \in saved[u]
      PROVE  "finished" \in taskStatus'[u]
  <2>1. saved[u] = taskStatus[u] \/ u = t
    BY SavedFacts
  <2>2. u \notin new
    BY <1>6, <1>7, <2>1 DEF Exists
  <2> HIDE DEF saved, new
  <2> QED
    BY <1>1, <1>7, <2>2 DEF Created
<1>8. CASE x = r
  BY <1>3, <1>4, <1>7, <1>8 DEF AreTasksFinished, TasksOf
<1>9. CASE x # r
  <2>1. \A s \in Steps(x) : "finished" \in runStatus'[s]
    <3> HIDE DEF begun, r
    <3> QED
      BY <1>2, <1>3, <1>4, <1>5, <1>9, FinishRunComplete
  <2>2. Steps(x) # {}
    <3> HIDE DEF begun, r
    <3>1. {y \in Live(begun) : y = r \/ OnlyOneStepLeft(begun, y)} \in SUBSET Run
      BY DEF Live
    <3> QED
      BY <1>5, <1>9, <3>1, UpFromThroughAStep DEF FinishedBy
  <2>3. TasksOf(x) = {}
    BY <2>2, TaskAssumption DEF TasksOf
  <2> QED
    BY <2>1, <2>3 DEF AreTasksFinished
<1> QED
  BY <1>8, <1>9

LEMMA FinishedRunsStep ==
  ASSUME TypeOK, HandledTasksExist, FinishedRunsAreComplete, [Next]_vars
  PROVE  FinishedRunsAreComplete'
<1>1. /\ \A t \in Task : "finished" \in taskStatus[t] => "finished" \in taskStatus'[t]
      /\ \A r \in Run : "finished" \in runStatus[r] => "finished" \in runStatus'[r]
  BY StepMoves DEF Moves, TasksMove, RunsMove, Outcomes, Terminal
<1> SUFFICES ASSUME NEW x \in Run, "finished" \in runStatus'[x]
             PROVE  /\ AreTasksFinished(taskStatus', x)
                    /\ \A s \in Steps(x) : "finished" \in runStatus'[s]
  BY DEF FinishedRunsAreComplete
<1>2. CASE "finished" \in runStatus[x]
  BY <1>1, <1>2 DEF FinishedRunsAreComplete, AreTasksFinished, TasksOf, Steps
<1>3. CASE "finished" \notin runStatus[x]
  <2>1. ASSUME NEW t \in Task, NEW K \in SUBSET Kind, NEW counts \in Counts,
               ProcessError(t, K, counts)
        PROVE  FALSE
    BY <1>3, <2>1, ProcessErrorFacts
  <2>2. ASSUME NEW r \in Run, KillRunByUser(r)
        PROVE  FALSE
    BY <1>3, <2>2 DEF KillRunByUser, KillRun, Ended
  <2>3. ASSUME NEW N, runStatus' = Begun(N)
        PROVE  FALSE
    BY <1>3, <2>3 DEF Begun, StartRuns, Started
  <2>4. ASSUME UncreatedTaskFails
        PROVE  FALSE
    BY <1>3, <2>4 DEF UncreatedTaskFails, FailRun, Begun, StartRuns, Started, Ended
  <2>5. TaskFinishes
    BY <1>3, <2>1, <2>2, <2>3, <2>4, OutcomeChanges
  <2> QED
    BY <1>3, <2>5, FinishCompletes DEF TaskFinishes
<1> QED
  BY <1>2, <1>3

-----------------------------------------------------------------------------
LEMMA FinishersStep ==
  ASSUME TypeOK, FinishersHoldAFinishedAttempt, [Next]_vars
  PROVE  FinishersHoldAFinishedAttempt'
<1>1. /\ \A a \in Attempt : "finished" \in attStatus[a] => "finished" \in attStatus'[a]
      /\ \A t \in Task : members[t] \subseteq members'[t]
      /\ \A t \in Task : members[t] \subseteq Attempt /\ active[t] \in AttemptOrNone
      /\ \A c \in DOMAIN fingerprint : fingerprint[c] \in AttemptOrNone
      /\ \A e \in executing : e.task \in Task /\ e.attempt \in AttemptOrNone
      /\ \A f \in finishing : f.task \in Task /\ f.attempt \in Attempt
      /\ TypeOK'
  BY StepMoves DEF Moves, AttemptsMove, TypeOK, Execution, FinishRow
<1>2. ASSUME NEW t \in Task, active'[t] # NoAttempt
      PROVE  active'[t] \in members'[t]
  <2>1. \/ UNCHANGED <<active, members>>
        \/ \E u \in Task, a \in Attempt : /\ active' = [active EXCEPT ![u] = a]
                                          /\ members' = [members EXCEPT ![u] = @ \cup {a}]
    BY <1>1, AttemptChanges DEF ReuseAttempt, CreateAttempt, DecideExecution, rows, AttemptOrNone
  <2> QED
    BY <1>1, <1>2, <2>1 DEF FinishersHoldAFinishedAttempt, TypeOK
<1>3. ASSUME NEW f \in finishing'
      PROVE  f.attempt \in members'[f.task] /\ "finished" \in attStatus'[f.attempt]
  <2>1. CASE f \in finishing
    BY <1>1, <2>1 DEF FinishersHoldAFinishedAttempt
  <2>2. ASSUME NEW a \in Attempt, FinishTaskAttempt(a), f \notin finishing
        PROVE  f.attempt \in members'[f.task] /\ "finished" \in attStatus'[f.attempt]
    <3>1. /\ f.attempt = a /\ f.task \in Task /\ active[f.task] = a
          /\ attStatus' = [attStatus EXCEPT ![a] = Ended(@, "finished")]
      BY <1>3, <2>2 DEF FinishTaskAttempt, ActiveOn
    <3> QED
      BY <1>1, <3>1, AttemptAssumption DEF FinishersHoldAFinishedAttempt, Ended, TypeOK
  <2> QED
    BY <1>3, <2>1, <2>2, LoadChanges
<1>4. ASSUME NEW e \in executing', e.finished
      PROVE  e.attempt # NoAttempt /\ "finished" \in attStatus'[e.attempt]
  <2>1. e \in executing \/ \E t \in Task : DecideExecution(t) /\ e \notin executing
    BY <1>4, AttemptChanges DEF ReuseAttempt, CreateAttempt
  <2>2. e.attempt # NoAttempt /\ "finished" \in attStatus[e.attempt]
    BY <1>4, <2>1, DecisionFacts DEF FinishersHoldAFinishedAttempt
  <2>3. e.attempt \in AttemptOrNone
    BY <1>1 DEF TypeOK, Execution
  <2> QED
    BY <1>1, <2>2, <2>3 DEF AttemptOrNone
<1> QED
  BY <1>2, <1>3, <1>4 DEF FinishersHoldAFinishedAttempt

\* Neither kill nor an error finishes a task, nor does a push that fails.
LEMMA KillFinishesNothing ==
  ASSUME NEW ts, NEW T, NEW also, NEW oldJobs, KillTasks(ts, T, also, oldJobs),
         NEW u \in Task, "finished" \notin ts[u]
  PROVE  "finished" \notin taskStatus'[u]
BY DEF KillTasks, Ended

LEMMA ErrorFinishesNothing ==
  ASSUME TypeOK, NEW t \in Task, NEW K, NEW counts, ProcessError(t, K, counts),
         NEW u \in Task, "finished" \notin taskStatus[u]
  PROVE  "finished" \notin taskStatus'[u]
<1> DEFINE failed == [taskStatus EXCEPT ![t] = Ended(@, "failed")]
<1>1. "finished" \notin failed[u]
  BY DEF TypeOK, Ended
<1>2. \/ KillTasks(taskStatus, {}, {t}, jobs)
      \/ \E T : KillTasks(failed, T, {t}, jobs)
  BY DEF ProcessError, FailTree
<1> HIDE DEF failed
<1> QED
  BY <1>1, <1>2, KillFinishesNothing

LEMMA PushFinishesNothing ==
  ASSUME TypeOK, NEW r \in Run, PostprocessRun(r), NEW u \in Task, "finished" \notin taskStatus[u]
  PROVE  "finished" \notin taskStatus'[u]
<1>1. CASE \E N : taskStatus' = Created(taskStatus, N)
  BY <1>1 DEF Created
<1>2. ASSUME NEW N, NEW M, NEW oldJobs, PushFails(taskStatus, N, M, oldJobs)
      PROVE  "finished" \notin taskStatus'[u]
  <2>1. \E T : KillTasks(Created(taskStatus, M), T, {}, oldJobs)
    BY <1>2 DEF PushFails, FailTree
  <2> QED
    BY <2>1, KillFinishesNothing DEF Created
<1> QED
  BY <1>1, <1>2 DEF PostprocessRun

LEMMA FinishedTasksStep ==
  ASSUME TypeOK, FinishersHoldAFinishedAttempt, FinishedTasksHaveAFinishedAttempt, [Next]_vars
  PROVE  FinishedTasksHaveAFinishedAttempt'
<1>1. /\ \A a \in Attempt : "finished" \in attStatus[a] => "finished" \in attStatus'[a]
      /\ \A t \in Task : members[t] \subseteq members'[t]
      /\ \A t \in Task : members[t] \subseteq Attempt
  BY StepMoves DEF Moves, AttemptsMove, TypeOK
<1> SUFFICES ASSUME NEW t \in Task, "finished" \in taskStatus'[t]
             PROVE  \E a \in members'[t] : "finished" \in attStatus'[a]
  BY DEF FinishedTasksHaveAFinishedAttempt
<1>2. CASE "finished" \in taskStatus[t]
  BY <1>1, <1>2 DEF FinishedTasksHaveAFinishedAttempt
<1>3. CASE "finished" \notin taskStatus[t]
  <2>1. ASSUME NEW r \in Run, PostprocessRun(r) \/ KillRunByUser(r)
        PROVE  FALSE
    BY <1>3, <2>1, KillFinishesNothing, PushFinishesNothing DEF KillRunByUser
  <2>2. ASSUME \/ \E e \in erring : HandleError(e)
               \/ \E e \in executing : CreateFails(e)
        PROVE  FALSE
    BY <1>3, <2>2, ErrorFinishesNothing DEF HandleError, CreateFails, TypeOK, ErrorRow, Execution
  <2>3. ASSUME NEW v \in visiting, NEW responsive \in BOOLEAN, NEW timedOut \in BOOLEAN,
               VisitTask(v, responsive, timedOut)
        PROVE  FALSE
    BY <1>3, <2>3, ErrorFinishesNothing DEF VisitTask, TypeOK, CheckedRow
  <2>4. ASSUME NEW e \in executing, NEW a \in Attempt, CreateAttempt(e, a)
        PROVE  FALSE
    BY <1>3, <2>4 DEF CreateAttempt, Activated, Started, TypeOK
  <2>5. ASSUME NEW f \in finishing, FinishTask(f)
        PROVE  /\ f.task = t /\ f.attempt \in members'[t]
               /\ "finished" \in attStatus'[f.attempt]
    <3>1. f.task \in Task /\ f.attempt \in Attempt
      BY DEF TypeOK, FinishRow
    <3>2. FinishWays(f.task, taskStatus, members[f.task])
      BY <2>5 DEF FinishTask, FinishWays
    <3>3. f.task = t
      BY <1>1, <1>3, <3>1, <3>2, FinishFacts
    <3> QED
      BY <1>1, <3>1, <3>3 DEF FinishersHoldAFinishedAttempt
  <2>6. ASSUME NEW e \in executing, ReuseAttempt(e)
        PROVE  /\ e.attempt \in members'[t]
               /\ "finished" \in attStatus'[e.attempt]
    <3>1. e.task \in Task /\ e.attempt \in Attempt
      BY <2>6 DEF ReuseAttempt, TypeOK, Execution, AttemptOrNone
    <3>2. e.finished /\ FinishWays(e.task, Activated(e.task), members[e.task] \cup {e.attempt})
      BY <1>3, <2>6, <3>1 DEF ReuseAttempt, FinishWays, Activated, Started, TypeOK
    <3>3. members[e.task] \cup {e.attempt} \in SUBSET Attempt
      BY <1>1, <3>1
    <3>4. e.task = t
      BY <1>3, <3>1, <3>2, <3>3, FinishFacts
    <3>5. e.attempt \in members'[t]
      BY <2>6, <3>4 DEF ReuseAttempt, TypeOK
    <3> QED
      BY <1>1, <3>1, <3>2, <3>5 DEF FinishersHoldAFinishedAttempt
  <2>7. CASE UNCHANGED taskStatus
    BY <1>3, <2>7
  <2> QED
    BY <2>1, <2>2, <2>3, <2>4, <2>5, <2>6, <2>7
    DEF Next, vars, rows, DropExecution, DecideExecution, WorkerFinishes, WorkerExits,
        PlaybookFails, WorkerReportsError, FinishTaskAttempt, CleanupTaskAttempt,
        StartCheck, CheckForMissedCleanup, HandlersDie
<1> QED
  BY <1>2, <1>3

\* Nobody puts an attempt to a use it did not have, but the handler that creates it.
LEMMA OneUseStep ==
  ASSUME TypeOK, AttemptsHaveOneUse, [Next]_vars
  PROVE  AttemptsHaveOneUse'
<1> USE DEF AttemptOrNone
<1>1. /\ \A a \in Attempt : Exists(attStatus[a]) => Exists(attStatus'[a])
      /\ \A e \in executing : e.task \in Task /\ e.attempt \in AttemptOrNone
      /\ \A t \in Task : members[t] \subseteq Attempt
      /\ DOMAIN fingerprint = {Contents[t] : t \in Task}
      /\ DOMAIN fingerprint' = {Contents[t] : t \in Task}
  BY StepMoves DEF Moves, AttemptsMove, TypeOK, Execution
<1>2. CASE \A a \in Attempt, c \in {Contents[t] : t \in Task} : UsedFor(a, c)' => UsedFor(a, c)
  BY <1>1, <1>2 DEF AttemptsHaveOneUse
<1>3. CASE UNCHANGED <<active, members, fingerprint>> /\ executing' \subseteq executing
  BY <1>2, <1>3 DEF UsedFor
<1>4. ASSUME NEW t \in Task, DecideExecution(t)
      PROVE  AttemptsHaveOneUse'
  <2>1. UNCHANGED <<members, fingerprint>>
    BY <1>4 DEF DecideExecution, rows
  <2>2. ASSUME NEW a \in Attempt, NEW e \in executing', e \notin executing, e.attempt = a
        PROVE  UsedFor(a, Contents[e.task])
    <3>1. e.task = t /\ fingerprint[Contents[t]] = a
      BY <1>4, <2>2, DecisionFacts, AttemptAssumption
    <3> QED
      BY <1>1, <3>1 DEF UsedFor
  <2> QED
    BY <1>2, <2>1, <2>2 DEF UsedFor
<1>5. ASSUME NEW e \in executing, ReuseAttempt(e)
      PROVE  AttemptsHaveOneUse'
  <2>1. /\ fingerprint' = fingerprint
        /\ executing' \subseteq executing
        /\ members' = [members EXCEPT ![e.task] = @ \cup {e.attempt}]
    BY <1>5 DEF ReuseAttempt
  <2>2. ASSUME NEW t \in Task, NEW a \in members'[t], a \notin members[t]
        PROVE  t = e.task /\ a = e.attempt
    BY <2>1, <2>2 DEF TypeOK
  <2> QED
    BY <1>2, <2>1, <2>2 DEF UsedFor
<1>6. ASSUME NEW e \in executing, NEW a \in Attempt, CreateAttempt(e, a)
      PROVE  AttemptsHaveOneUse'
  <2>1. /\ ~Exists(attStatus[a]) /\ attStatus' = [attStatus EXCEPT ![a] = {"running"}]
        /\ fingerprint' \in {fingerprint, [fingerprint EXCEPT ![Contents[e.task]] = a]}
        /\ executing' \subseteq executing
        /\ members' = [members EXCEPT ![e.task] = @ \cup {a}]
    BY <1>6 DEF CreateAttempt
  <2>2. \A c \in {Contents[t] : t \in Task} : ~UsedFor(a, c)
    BY <2>1 DEF AttemptsHaveOneUse
  <2>3. \A c \in {Contents[t] : t \in Task} : UsedFor(a, c)' => c = Contents[e.task]
    BY <1>1, <2>1, <2>2 DEF UsedFor, TypeOK
  <2>4. \A b \in Attempt \ {a}, c \in {Contents[t] : t \in Task} : UsedFor(b, c)' => UsedFor(b, c)
    BY <1>1, <2>1 DEF UsedFor, TypeOK
  <2>5. Exists(attStatus'[a])
    BY <2>1 DEF Exists, TypeOK
  <2> QED
    BY <1>1, <2>3, <2>4, <2>5 DEF AttemptsHaveOneUse
<1> QED
  BY <1>3, <1>4, <1>5, <1>6, AttemptChanges

LEMMA OneUseShared == TypeOK /\ AttemptsHaveOneUse => SharedAttemptsHaveSameContents
<1> SUFFICES ASSUME TypeOK, AttemptsHaveOneUse,
                    NEW t \in Task, NEW u \in Task, NEW a \in members[t] \cap members[u]
             PROVE  Contents[t] = Contents[u]
  BY DEF SharedAttemptsHaveSameContents
<1>1. UsedFor(a, Contents[t]) /\ UsedFor(a, Contents[u])
  BY DEF UsedFor
<1>2. a \in Attempt
  BY DEF TypeOK
<1> QED
  BY <1>1, <1>2 DEF AttemptsHaveOneUse

-----------------------------------------------------------------------------
LEMMA InitIInv == Init => IInv
<1> SUFFICES ASSUME Init PROVE IInv
  OBVIOUS
<1>1. TypeOK
  BY InitType
<1>2. /\ HandledTasksExist
      /\ FinishersHoldAFinishedAttempt
      /\ AttemptsHaveOneUse
  BY AttemptAssumption
  DEF Init, HandledTasksExist, FinishersHoldAFinishedAttempt, AttemptsHaveOneUse, UsedFor
<1>3. /\ FinishedRunsAreComplete
      /\ RunHasOneOutcome
      /\ FailedRunsHaveACause
      /\ FinishedTasksHaveAFinishedAttempt
      /\ UnendedTasksAreWatched
  BY DEF Init, FinishedRunsAreComplete, RunHasOneOutcome, FailedRunsHaveACause,
     FinishedTasksHaveAFinishedAttempt, UnendedTasksAreWatched, Exists
<1>4. ExhaustedTasksHaveFailed
  BY KindAssumption DEF Init, ExhaustedTasksHaveFailed
<1> QED
  BY <1>1, <1>2, <1>3, <1>4, OneUseShared DEF IInv

LEMMA NextIInv == IInv /\ [Next]_vars => IInv'
<1> SUFFICES ASSUME IInv, [Next]_vars PROVE IInv'
  OBVIOUS
<1>1. TypeOK' /\ Moves
  BY StepMoves DEF IInv
<1>2. HandledTasksExist' /\ FinishersHoldAFinishedAttempt' /\ AttemptsHaveOneUse'
  BY HandledTasksExistStep, FinishersStep, OneUseStep DEF IInv
<1>3. FinishedRunsAreComplete' /\ FailedRunsHaveACause'
  BY FinishedRunsStep, FailedRunsStep DEF IInv
<1>4. RunHasOneOutcome' /\ UnendedTasksAreWatched'
  BY <1>1, OneOutcomeStep, WatchedStep DEF IInv
<1>5. ExhaustedTasksHaveFailed' /\ FinishedTasksHaveAFinishedAttempt'
  BY ExhaustedStep, FinishedTasksStep DEF IInv
<1>6. SharedAttemptsHaveSameContents'
  BY <1>1, <1>2, OneUseShared, PTL
<1> QED
  BY <1>1, <1>2, <1>3, <1>4, <1>5, <1>6 DEF IInv

\* The inductive invariant holds throughout: what the handlers have loaded is always
\* enough to justify what they will write, although the rows have moved on.
THEOREM Invariance == Spec => []IInv
BY InitIInv, NextIInv, PTL DEF Spec

\* Run.finish: whatever the order in which tasks end, are created, fail and are
\* killed, a finished run has all its tasks and all its steps finished.
THEOREM FinishedRunsCorrect == Spec => []FinishedRunsAreComplete
<1>1. IInv => FinishedRunsAreComplete
  BY DEF IInv
<1> QED
  BY <1>1, Invariance, PTL

\* Run.finish, Run.fail, Run.kill: no interleaving of complete cascades gives a run
\* two outcomes.
THEOREM OneOutcomeCorrect == Spec => []RunHasOneOutcome
<1>1. IInv => RunHasOneOutcome
  BY DEF IInv
<1> QED
  BY <1>1, Invariance, PTL

\* Run.fail: a failed run always has its cause beneath it, a failed task or one that
\* could not be made.
THEOREM FailedRunsCorrect == Spec => []FailedRunsHaveACause
<1>1. IInv => FailedRunsHaveACause
  BY DEF IInv
<1> QED
  BY <1>1, Invariance, PTL

\* Task._process_error: a counter beyond its maximum means a failed task, even when
\* the rows the errors were handled on were stale.
THEOREM ExhaustedCorrect == Spec => []ExhaustedTasksHaveFailed
<1>1. IInv => ExhaustedTasksHaveFailed
  BY DEF IInv
<1> QED
  BY <1>1, Invariance, PTL

\* TaskAttempt.finish, execute_task: a finished task always has a finished attempt.
THEOREM FinishedTasksCorrect == Spec => []FinishedTasksHaveAFinishedAttempt
<1>1. IInv => FinishedTasksHaveAFinishedAttempt
  BY DEF IInv
<1> QED
  BY <1>1, Invariance, PTL

\* TaskFingerprint: an attempt is shared only by tasks with the same contents.
THEOREM SharedAttemptsCorrect == Spec => []SharedAttemptsHaveSameContents
<1>1. IInv => SharedAttemptsHaveSameContents
  BY DEF IInv
<1> QED
  BY <1>1, Invariance, PTL

\* check_for_stalled_tasks: its filter misses no task that has not ended.
THEOREM WatchedCorrect == Spec => []UnendedTasksAreWatched
<1>1. IInv => UnendedTasksAreWatched
  BY DEF IInv
<1> QED
  BY <1>1, Invariance, PTL
-----------------------------------------------------------------------------
(* The runs end as RunOutcomes says.                                        *)

LEMMA UndecidedIsLive == Endings!Undecided = Live(runStatus)
BY DEF Endings!Undecided, Live, Terminal

LEMMA SameOutcomesSameLive ==
  ASSUME NEW rs, \A x \in Run : rs[x] \cap TerminalFlag = runStatus[x] \cap TerminalFlag
  PROVE  Live(rs) = Live(runStatus)
BY DEF Live, Terminal

\* Tasks stay finished and broken.
LEMMA TasksGoOnInStep ==
  ASSUME Moves
  PROVE  Endings!TasksGoOn
<1>1. \A t \in Task : taskStatus[t] \cap TerminalFlag \subseteq taskStatus'[t]
  BY DEF Moves, TasksMove
<1>2. FinishedTasks(taskStatus) \subseteq FinishedTasks(taskStatus')
  BY <1>1 DEF FinishedTasks
<1>3. BrokenTasks \subseteq BrokenTasks'
  BY <1>1, <1>2 DEF BrokenTasks
<1> QED
  BY <1>2, <1>3 DEF Endings!TasksGoOn

\* What Run.fail does to the outcomes.
LEMMA FailOutcomes ==
  ASSUME NEW rs \in RunStatus, NEW r \in Run, NEW x \in Run
  PROVE  FailRun(rs, r)[x] \cap TerminalFlag =
           IF x \in FailedBy(rs, r) THEN {"failed"}
           ELSE IF x \in KilledByFailure(rs, r) THEN {"killed"} ELSE rs[x] \cap TerminalFlag
<1>1. FailedBy(rs, r) \subseteq Live(rs) /\ KilledByFailure(rs, r) \subseteq Live(rs)
  BY UpFromInside, ConnectedInside DEF FailedBy, KilledByFailure
<1>2. x \in Live(rs) => rs[x] \cap TerminalFlag = {}
  BY DEF Live, Terminal
<1> HIDE DEF Live
<1> QED
  BY <1>1, <1>2 DEF FailRun, Ended

LEMMA FailIsRunFails ==
  ASSUME NEW b \in Task, b \in BrokenTasks', Endings!TasksGoOn,
         NEW rs \in RunStatus,
         \A x \in Run : rs[x] \cap TerminalFlag = runStatus[x] \cap TerminalFlag,
         runStatus' = FailRun(rs, TaskRun[b])
  PROVE  \/ Endings!RunFails
         \/ /\ \A x \in Run : runStatus'[x] \cap TerminalFlag = runStatus[x] \cap TerminalFlag
            /\ TaskRun[b] \notin Endings!Undecided
<1> DEFINE r == TaskRun[b]
           F == FailedBy(rs, r)
           K == KilledByFailure(rs, r)
           U == Endings!Undecided
<1>1. r \in Run
  BY TaskAssumption
<1>2. U = Live(rs) /\ U \subseteq Run
  BY UndecidedIsLive, SameOutcomesSameLive DEF Live
<1>3. \A x \in Run : runStatus'[x] \cap TerminalFlag =
        IF x \in F THEN {"failed"} ELSE IF x \in K THEN {"killed"} ELSE runStatus[x] \cap TerminalFlag
  BY <1>1, FailOutcomes
<1>4. F = UpFrom(U, r)
  BY <1>2 DEF FailedBy
<1>5. F \in SUBSET U /\ K \in SUBSET (U \ F)
  <2>1. K \subseteq Live(rs) \ F
    BY ConnectedInside DEF KilledByFailure
  <2> QED
    BY <1>2, <1>4, <2>1, UpFromInside
<1>6. CASE r \in U
  <2>1. r \in F /\ \A x \in F : Parent[x] \in U => Parent[x] \in F
    BY <1>4, <1>6, UpFromClosed
  <2>2. Endings!IsWayUp(F, r)
    BY <1>2, <1>4, UpFromThroughAStep DEF Endings!IsWayUp, Steps
  <2>3. \A x \in U \ F : x \in K <=> \/ Parent[x] \in K
                                     \/ Parent[x] \in F /\ IsTopmost(Parent[x])
    BY <1>1, <1>2, FailureKills
  <2>4. \A x \in F : IsTopmost(x) <=> Parent[x] \notin Run
    BY <1>2, <1>5, ParentIsRun
  <2>5. [x \in Run |-> runStatus'[x] \cap TerminalFlag] =
          [x \in Run |-> IF x \in F THEN {"failed"} ELSE IF x \in K THEN {"killed"}
                         ELSE [y \in Run |-> runStatus[y] \cap TerminalFlag][x]]
    BY <1>3
  <2> HIDE DEF F, K, U
  <2>6. \A x \in U \ F : x \in K <=> \/ Parent[x] \in K
                                     \/ Parent[x] \in F /\ Parent[Parent[x]] \notin Run
    BY <2>3, <2>4
  <2> QED
    BY <1>5, <2>1, <2>2, <2>5, <2>6 DEF Endings!RunFails, U
<1>7. CASE r \notin U
  <2>1. F = {}
    BY <1>4, <1>7, UpFromNowhere
  <2>2. K = {}
    BY <2>1 DEF KilledByFailure, FailedTop
  <2> HIDE DEF F, K
  <2> QED
    BY <1>3, <1>7, <2>1, <2>2
<1> QED
  BY <1>6, <1>7

LEMMA KillIsRunIsKilled ==
  ASSUME TypeOK, NEW r \in Run, KillRunByUser(r)
  PROVE  Endings!RunIsKilled
<1> DEFINE U == Endings!Undecided
           K == KilledBy(runStatus, r)
<1>1. U = Live(runStatus) /\ U \subseteq Run /\ r \in U
  BY UndecidedIsLive DEF Live, KillRunByUser
<1>2. K = Connected(U, r)
  BY <1>1 DEF KilledBy
<1>3. K \in SUBSET U /\ K # {} /\ \A x \in K, y \in U : Beside(x, y) => y \in K
  BY <1>1, <1>2, ConnectedInside, ConnectedClosed
<1>4. Endings!IsOnePiece(K)
  <2> SUFFICES ASSUME NEW A \in (SUBSET K) \ {{}, K}
               PROVE  \E x \in A, y \in K \ A : Endings!Joined(x, y)
    BY DEF Endings!IsOnePiece
  <2> HIDE DEF U, K
  <2>1. A \in SUBSET Connected(U, r) /\ A # {} /\ A # Connected(U, r)
    BY <1>2
  <2>2. \E x \in A, y \in Connected(U, r) \ A : Beside(x, y)
    BY <1>1, <2>1, ConnectedIsOnePiece
  <2>3. \A x, y : Beside(x, y) => Endings!Joined(x, y)
    BY DEF Endings!Joined, Beside
  <2> QED
    BY <1>2, <2>2, <2>3
<1>5. \A x \in Run : runStatus'[x] \cap TerminalFlag = IF x \in K THEN {"killed"} ELSE runStatus[x] \cap TerminalFlag
  <2>1. \A x \in K : runStatus[x] \cap TerminalFlag = {}
    BY <1>1, <1>3 DEF Live, Terminal
  <2>2. runStatus' = KillRun(runStatus, r)
    BY DEF KillRunByUser
  <2> QED
    BY <2>1, <2>2 DEF KillRun, Ended
<1>6. FinishedTasks(taskStatus') = FinishedTasks(taskStatus) /\ BrokenTasks' = BrokenTasks
  <2>1. \A t \in Task : /\ "finished" \in taskStatus'[t] <=> "finished" \in taskStatus[t]
                        /\ "failed" \in taskStatus'[t] <=> "failed" \in taskStatus[t]
    BY DEF KillRunByUser, KillTasks, Ended
  <2>2. FinishedTasks(taskStatus') = FinishedTasks(taskStatus)
    BY <2>1 DEF FinishedTasks
  <2> QED
    BY <2>1, <2>2 DEF BrokenTasks
<1> HIDE DEF U, K
<1>7. [x \in Run |-> runStatus'[x] \cap TerminalFlag] =
        [x \in Run |-> IF x \in K THEN {"killed"} ELSE [y \in Run |-> runStatus[y] \cap TerminalFlag][x]]
  BY <1>5
<1> QED
  BY <1>3, <1>4, <1>6, <1>7 DEF Endings!RunIsKilled, Endings!Joined, Beside, U

\* A step in which no run ends and no task finishes.
LEMMA QuietStep ==
  ASSUME Moves, \A x \in Run : runStatus'[x] \cap TerminalFlag = runStatus[x] \cap TerminalFlag,
         FinishedTasks(taskStatus') = FinishedTasks(taskStatus)
  PROVE  Endings!NoRunEnds
BY TasksGoOnInStep DEF Endings!NoRunEnds

\* Task.finish with the runs it finishes.
LEMMA FinishedByFinish ==
  ASSUME TypeOK, NEW t \in Task, NEW ts \in {taskStatus, Activated(t)}, NEW M \in SUBSET Attempt,
         Finish(t, ts, M), Exists(taskStatus[t])
  PROVE  /\ "finished" \notin taskStatus[t]
         /\ FinishedTasks(taskStatus') = FinishedTasks(taskStatus) \cup {t}
<1> DEFINE saved == Saved(t, ts)
           new   == NewTasks(DownstreamRuns(TaskRun[t]), FinishedTasks(saved))
<1>1. "finished" \notin ts[t] /\ taskStatus' = Created(saved, new)
  BY DEF Finish
<1>2. "finished" \notin taskStatus[t]
  BY <1>1 DEF Activated, Started, TypeOK
<1>3. /\ \A u \in Task : u # t => saved[u] = taskStatus[u]
      /\ "finished" \in saved[t]
  BY SavedFacts
<1>4. \A u \in new : u \in Task /\ ~Exists(taskStatus[u]) /\ u # t
  BY DEF NewTasks
<1> HIDE DEF saved, new
<1>5. ASSUME NEW u \in Task
      PROVE  "finished" \in taskStatus'[u] <=> u = t \/ "finished" \in taskStatus[u]
  <2>1. CASE u \in new
    BY <1>1, <1>4, <2>1 DEF Created, Exists
  <2>2. CASE u \notin new
    BY <1>1, <1>3, <2>2 DEF Created
  <2> QED
    BY <2>1, <2>2
<1> QED
  BY <1>2, <1>5 DEF FinishedTasks

LEMMA FinishIsTaskFinishes ==
  ASSUME TypeOK, Moves, RunHasOneOutcome',
         NEW t \in Task, NEW ts \in {taskStatus, Activated(t)}, NEW M \in SUBSET Attempt,
         Finish(t, ts, M), Exists(taskStatus[t])
  PROVE  Endings!TaskFinishes
<1> DEFINE saved == Saved(t, ts)
           new   == NewTasks(DownstreamRuns(TaskRun[t]), FinishedTasks(saved))
           begun == Begun(new)
           r     == TaskRun[t]
           done  == AreTasksFinished(saved, r)
           R     == IF done THEN FinishedBy(begun, r) ELSE {}
           U     == Endings!Undecided
<1>1. /\ r \in Run
      /\ begun \in RunStatus
      /\ \A x \in Run : begun[x] \cap TerminalFlag = runStatus[x] \cap TerminalFlag
  BY BegunFacts, TaskAssumption
<1>2. U = Live(begun) /\ U \subseteq Run
  BY <1>1, UndecidedIsLive, SameOutcomesSameLive DEF Live
<1>3. runStatus' = IF done THEN FinishRun(begun, r) ELSE begun
  BY DEF Finish
<1>4. "finished" \notin taskStatus[t] /\ FinishedTasks(taskStatus') = FinishedTasks(taskStatus) \cup {t}
  BY FinishedByFinish
<1>5. done <=> TasksOf(r) \subseteq FinishedTasks(taskStatus')
  <2>1. \A u \in Task : u # t => saved[u] = taskStatus[u]
    BY SavedFacts
  <2>2. "finished" \in saved[t]
    BY SavedFacts
  <2>3. \A u \in Task : "finished" \in saved[u] <=> u \in FinishedTasks(taskStatus')
    <3> HIDE DEF saved
    <3> QED
      BY <1>4, <2>1, <2>2 DEF FinishedTasks
  <2> QED
    BY <2>3 DEF AreTasksFinished, TasksOf
<1> HIDE DEF saved, new, begun, r, done
<1>6. R \in SUBSET U
  BY <1>2, UpFromInside DEF FinishedBy
<1>7. \A x \in Run : runStatus'[x] \cap TerminalFlag = IF x \in R THEN {"finished"} ELSE runStatus[x] \cap TerminalFlag
  <2>1. \A x \in R : begun[x] \cap TerminalFlag = {}
    BY <1>2, <1>6 DEF Live, Terminal
  <2>2. CASE ~done
    BY <1>1, <1>3, <2>2
  <2>3. CASE done
    BY <1>1, <1>3, <2>1, <2>3 DEF FinishRun, Ended
  <2> QED
    BY <2>2, <2>3
<1>8. Endings!IsWayUp(R, r)
  <2>1. CASE ~done
    BY <2>1 DEF Endings!IsWayUp
  <2>2. CASE done
    <3> DEFINE S == {x \in Live(begun) : x = r \/ OnlyOneStepLeft(begun, x)}
    <3>1. S \in SUBSET Run /\ R = UpFrom(S, r)
      BY <2>2 DEF Live, FinishedBy
    <3> HIDE DEF S, R
    <3>2. \A x \in R : x = r \/ \E y \in R : y \in Steps(x)
      BY <3>1, UpFromThroughAStep
    <3> QED
      BY <3>2 DEF Endings!IsWayUp, Steps
  <2> QED
    BY <2>1, <2>2
<1>9. ASSUME NEW x \in R
      PROVE  /\ TasksOf(x) \subseteq FinishedTasks(taskStatus')
             /\ \A s \in Steps(x) : runStatus'[s] \cap TerminalFlag = {"finished"}
  <2>1. x \in Run /\ "finished" \notin runStatus[x] /\ "finished" \in runStatus'[x]
    <3>1. x \in Run /\ x \in U
      BY <1>2, <1>6
    <3>2. "finished" \notin runStatus[x]
      BY <3>1, UndecidedIsLive DEF Live, Terminal
    <3> QED
      BY <1>7, <3>1, <3>2
  <2>2. /\ AreTasksFinished(taskStatus', x)
        /\ \A s \in Steps(x) : "finished" \in runStatus'[s]
    BY <2>1, FinishCompletes
  <2>3. \A s \in Steps(x) : s \in Run
    BY DEF Steps
  <2>4. \A s \in Steps(x) : runStatus'[s] \cap TerminalFlag = {"finished"}
    BY <2>2, <2>3 DEF RunHasOneOutcome
  <2> QED
    BY <2>2, <2>4 DEF AreTasksFinished, TasksOf, FinishedTasks
<1>10. ASSUME NEW x \in U \ R
       PROVE  /\ x = r => ~(TasksOf(x) \subseteq FinishedTasks(taskStatus'))
              /\ Steps(x) \cap R # {} => \E s \in Steps(x) : runStatus'[s] \cap TerminalFlag # {"finished"}
  <2>1. CASE ~done
    BY <1>5, <2>1
  <2>2. CASE done
    <3>1. x \in Live(begun) /\ x \notin FinishedBy(begun, r)
      BY <1>2, <2>2
    <3>2. /\ x # r
          /\ \A s \in Steps(x) : s \in FinishedBy(begun, r) =>
               \E z \in Steps(x) : "finished" \notin FinishRun(begun, r)[z]
      BY <1>1, <3>1, FinishReaches
    <3>3. \A s \in Steps(x) : s \in R => \E z \in Steps(x) : "finished" \notin runStatus'[z]
      BY <1>3, <2>2, <3>2
    <3>4. \A z : "finished" \notin runStatus'[z] => runStatus'[z] \cap TerminalFlag # {"finished"}
      OBVIOUS
    <3> HIDE DEF R
    <3> QED
      BY <3>2, <3>3, <3>4
  <2> QED
    BY <2>1, <2>2
<1>11. Endings!TasksGoOn
  BY TasksGoOnInStep
<1> HIDE DEF R, U
<1>12. [x \in Run |-> runStatus'[x] \cap TerminalFlag] =
         [x \in Run |-> IF x \in R THEN {"finished"} ELSE [y \in Run |-> runStatus[y] \cap TerminalFlag][x]]
  BY <1>7
<1>13. t \in Task \ FinishedTasks(taskStatus)
  BY <1>4 DEF FinishedTasks
<1>14. \A x \in R : /\ Endings!Tasks(x) \subseteq FinishedTasks(taskStatus')
                    /\ \A s \in Endings!Steps(x) :
                         [y \in Run |-> runStatus'[y] \cap TerminalFlag][s] = {"finished"}
  BY <1>9 DEF Endings!Tasks, Endings!Steps, TasksOf, Steps
<1>15. \A x \in U \ R :
         /\ x = TaskRun[t] => ~(Endings!Tasks(x) \subseteq FinishedTasks(taskStatus'))
         /\ Endings!Steps(x) \cap R # {} =>
              \E s \in Endings!Steps(x) : [y \in Run |-> runStatus'[y] \cap TerminalFlag][s] # {"finished"}
  BY <1>10 DEF Endings!Tasks, Endings!Steps, TasksOf, Steps, r
<1> QED
  BY <1>4, <1>6, <1>8, <1>11, <1>12, <1>13, <1>14, <1>15 DEF Endings!TaskFinishes, U, r

\* A push that meets a task it cannot make fails that task's run, if it has not ended.
LEMMA UncreatedTaskEndings ==
  ASSUME TypeOK, Moves, UncreatedTaskFails
  PROVE  Endings!RunFails \/ Endings!NoRunEnds
<1>1. PICK b \in Unrenderable : \E N : /\ runStatus' = FailRun(Begun(N), TaskRun[b])
                                       /\ Upstream[b] \subseteq FinishedTasks(taskStatus')
  BY DEF UncreatedTaskFails
<1>2. PICK N : runStatus' = FailRun(Begun(N), TaskRun[b])
  BY <1>1
<1>3. b \in Task /\ b \in BrokenTasks'
  BY <1>1, TaskAssumption DEF BrokenTasks
<1>4. /\ Begun(N) \in RunStatus
      /\ \A x \in Run : Begun(N)[x] \cap TerminalFlag = runStatus[x] \cap TerminalFlag
  BY BegunFacts
<1>5. Endings!TasksGoOn
  BY TasksGoOnInStep
<1>6. \/ Endings!RunFails
      \/ /\ \A x \in Run : runStatus'[x] \cap TerminalFlag = runStatus[x] \cap TerminalFlag
         /\ TaskRun[b] \notin Endings!Undecided
  BY <1>2, <1>3, <1>4, <1>5, FailIsRunFails
<1> QED
  BY <1>3, <1>5, <1>6 DEF Endings!NoRunEnds

\* An error fails the task and its run, or does neither.
LEMMA ErrorEndings ==
  ASSUME TypeOK, Moves, NEW t \in Task, NEW K \in SUBSET Kind, NEW counts \in Counts,
         ProcessError(t, K, counts)
  PROVE  Endings!RunFails \/ Endings!NoRunEnds
<1>1. FinishedTasks(taskStatus') = FinishedTasks(taskStatus)
  <2>1. \A u \in Task : "finished" \in taskStatus'[u] => "finished" \in taskStatus[u]
    BY ErrorFinishesNothing
  <2>2. \A u \in Task : "finished" \in taskStatus[u] => "finished" \in taskStatus'[u]
    BY DEF Moves, TasksMove
  <2> QED
    BY <2>1, <2>2 DEF FinishedTasks
<1> DEFINE failed == [taskStatus EXCEPT ![t] = Ended(@, "failed")]
<1>2. CASE runStatus' = runStatus
  BY <1>1, <1>2, QuietStep
<1>3. CASE FailTree(runStatus, failed, TaskRun[t], {t}, jobs)
  <2>1. runStatus' = FailRun(runStatus, TaskRun[t])
    BY <1>3 DEF FailTree
  <2>2. "failed" \in failed[t]
    BY DEF TypeOK, Ended
  <2> HIDE DEF failed
  <2>3. "failed" \in taskStatus'[t]
    BY <1>3, <2>2 DEF FailTree, KillTasks, Ended
  <2>4. t \in BrokenTasks'
    BY <2>3 DEF BrokenTasks
  <2>5. Endings!TasksGoOn /\ runStatus \in RunStatus
    BY TasksGoOnInStep DEF TypeOK
  <2>6. \/ Endings!RunFails
        \/ \A x \in Run : runStatus'[x] \cap TerminalFlag = runStatus[x] \cap TerminalFlag
    BY <2>1, <2>4, <2>5, FailIsRunFails
  <2> QED
    BY <1>1, <2>6, QuietStep
<1> QED
  BY <1>2, <1>3 DEF ProcessError

LEMMA InitEndings == Init => Endings!Init
<1> SUFFICES ASSUME Init PROVE Endings!Init
  OBVIOUS
<1>1. \A x \in Run : runStatus[x] \cap TerminalFlag = {}
  BY DEF Init
<1>2. FinishedTasks(taskStatus) = {}
  BY DEF Init, FinishedTasks
<1>3. BrokenTasks \in SUBSET Task
  BY DEF BrokenTasks
<1> QED
  BY <1>1, <1>2, <1>3 DEF Endings!Init

\* Each step of the server is one of RunOutcomes.
LEMMA StepEndings ==
  ASSUME TypeOK, HandledTasksExist, RunHasOneOutcome', [Next]_vars
  PROVE  Endings!Next
<1>1. Moves
  BY StepMoves
<1>2. ASSUME NEW t \in Task, NEW K \in SUBSET Kind, NEW counts \in Counts, ProcessError(t, K, counts)
      PROVE  Endings!Next
  BY <1>1, <1>2, ErrorEndings DEF Endings!Next
<1>3. CASE TaskFinishes
  <2>1. PICK t \in Task, M \in SUBSET Attempt :
          \E ts \in {taskStatus, Activated(t)} : Finish(t, ts, M) /\ Exists(taskStatus[t])
    BY <1>3 DEF TaskFinishes
  <2>2. Endings!TaskFinishes
    BY <1>1, <2>1, FinishIsTaskFinishes
  <2> QED
    BY <2>2 DEF Endings!Next
<1>4. CASE UncreatedTaskFails
  BY <1>1, <1>4, UncreatedTaskEndings DEF Endings!Next
<1>5. ASSUME NEW r \in Run, KillRunByUser(r)
      PROVE  Endings!Next
  BY <1>5, KillIsRunIsKilled DEF Endings!Next
<1>6. CASE NoTaskFinishes /\ (UNCHANGED runStatus \/ \E N : runStatus' = Begun(N))
  <2>1. \A x \in Run : runStatus'[x] \cap TerminalFlag = runStatus[x] \cap TerminalFlag
    BY <1>6, BegunFacts
  <2>2. Endings!NoRunEnds
    BY <1>1, <1>6, <2>1, QuietStep DEF NoTaskFinishes
  <2> QED
    BY <2>2 DEF Endings!Next
<1> QED
  BY <1>2, <1>3, <1>4, <1>5, <1>6, OutcomeChanges

\* The refinement: with handlers that interleave, act on stale rows, repeat work, fail
\* half way and die, the runs end as RunOutcomes says and in no other way.
THEOREM EndingsCorrect == Spec => EndingsSpec
<1>1. IInv /\ IInv' /\ [Next]_vars => [Endings!Next]_(Endings!vars)
  BY StepEndings DEF IInv
<1> QED
  BY <1>1, InitEndings, Invariance, PTL DEF Spec, EndingsSpec, Endings!Spec

\* No step of RunOutcomes leaves an end half way.
LEMMA SpreadStep ==
  ASSUME RunHasOneOutcome', EndsSpread, [Endings!Next]_(Endings!vars)
  PROVE  EndsSpread'
<1> DEFINE o(x) == runStatus[x] \cap TerminalFlag
           n(x) == runStatus'[x] \cap TerminalFlag
           U == Endings!Undecided
<1>1. \A x : x \in U <=> x \in Run /\ o(x) = {}
  BY DEF Endings!Undecided
<1>2. \A x : x \in Endings!Undecided' <=> x \in Run /\ n(x) = {}
  BY DEF Endings!Undecided
<1>3. \A r \in Run :
        /\ Steps(r) # {} /\ (\A s \in Steps(r) : "finished" \in o(s)) => o(r) # {}
        /\ o(r) \cap {"failed", "killed"} # {} => Parent[r] \notin U
        /\ "killed" \in o(r) \/ ("failed" \in o(r) /\ Parent[r] \notin Run)
             => \A s \in Steps(r) : o(s) # {}
  BY <1>1 DEF EndsSpread, Endings!EndsSpread, Endings!Steps, Steps
<1>4. SUFFICES ASSUME NEW r \in Run
               PROVE  /\ Steps(r) # {} /\ (\A s \in Steps(r) : "finished" \in n(s)) => n(r) # {}
                      /\ n(r) \cap {"failed", "killed"} # {} => ~(Parent[r] \in Run /\ n(Parent[r]) = {})
                      /\ "killed" \in n(r) \/ ("failed" \in n(r) /\ Parent[r] \notin Run)
                           => \A s \in Steps(r) : n(s) # {}
  BY <1>2 DEF EndsSpread, Endings!EndsSpread, Endings!Steps, Steps
<1>5. CASE \A x \in Run : n(x) = o(x)
  BY <1>1, <1>3, <1>5 DEF Steps
<1>6. CASE Endings!TaskFinishes
  <2>1. PICK R \in SUBSET U :
          /\ \A x \in Run : n(x) = IF x \in R THEN {"finished"} ELSE o(x)
          /\ \A x \in U \ R : Steps(x) \cap R # {} => \E s \in Steps(x) : n(s) # {"finished"}
    BY <1>6 DEF Endings!TaskFinishes, Endings!Steps, Steps
  <2>2. \A x \in Run : "finished" \in n(x) => n(x) = {"finished"}
    BY DEF RunHasOneOutcome
  <2> HIDE DEF o, n, U
  <2> QED
    BY <1>1, <1>3, <2>1, <2>2 DEF Steps
<1>7. CASE Endings!RunFails
  <2>1. PICK F \in SUBSET U, K \in SUBSET U :
          /\ K \cap F = {}
          /\ \A x \in Run : n(x) = IF x \in F THEN {"failed"} ELSE IF x \in K THEN {"killed"} ELSE o(x)
          /\ \A x \in F : Parent[x] \in U => Parent[x] \in F
          /\ \A x \in U \ F : x \in K <=> \/ Parent[x] \in K
                                          \/ Parent[x] \in F /\ Parent[Parent[x]] \notin Run
    <3>1. PICK F \in SUBSET U : \E K \in SUBSET (U \ F) :
            /\ [x \in Run |-> n(x)] = [x \in Run |-> IF x \in F THEN {"failed"}
                                         ELSE IF x \in K THEN {"killed"} ELSE [y \in Run |-> o(y)][x]]
            /\ \A x \in F : Parent[x] \in U => Parent[x] \in F
            /\ \A x \in U \ F : x \in K <=> \/ Parent[x] \in K
                                            \/ Parent[x] \in F /\ Parent[Parent[x]] \notin Run
      BY <1>7 DEF Endings!RunFails
    <3> HIDE DEF o, n, U
    <3>2. PICK K \in SUBSET (U \ F) :
            /\ [x \in Run |-> n(x)] = [x \in Run |-> IF x \in F THEN {"failed"}
                                         ELSE IF x \in K THEN {"killed"} ELSE [y \in Run |-> o(y)][x]]
            /\ \A x \in F : Parent[x] \in U => Parent[x] \in F
            /\ \A x \in U \ F : x \in K <=> \/ Parent[x] \in K
                                            \/ Parent[x] \in F /\ Parent[Parent[x]] \notin Run
      BY <3>1
    <3>3. \A x \in Run : [y \in Run |-> n(y)][x] = [y \in Run |-> IF y \in F THEN {"failed"}
                                         ELSE IF y \in K THEN {"killed"} ELSE [z \in Run |-> o(z)][y]][x]
      BY <3>2
    <3>4. \A x \in Run : n(x) = IF x \in F THEN {"failed"} ELSE IF x \in K THEN {"killed"} ELSE o(x)
      BY <3>3
    <3> QED
      BY <3>2, <3>4
  <2> HIDE DEF o, n, U
  <2>2. \A x \in Run : n(x) = {} <=> x \in (U \ F) \ K
    BY <1>1, <2>1
  <2>3. \A s \in Steps(r) : s \in Run /\ Parent[s] = r
    BY DEF Steps
  <2>4. ASSUME Steps(r) # {}, \A s \in Steps(r) : "finished" \in n(s)
        PROVE  n(r) # {}
    <3>1. \A s \in Steps(r) : "finished" \in o(s) /\ s \notin F /\ s \notin K
      BY <2>1, <2>3, <2>4
    <3>2. r \notin U
      BY <1>1, <1>3, <2>4, <3>1
    <3> QED
      BY <2>2, <3>2
  <2>5. ASSUME n(r) \cap {"failed", "killed"} # {}, Parent[r] \in Run
        PROVE  n(Parent[r]) # {}
    <3>1. CASE r \in F
      BY <2>1, <2>2, <2>5, <3>1
    <3>2. CASE r \in K
      BY <2>1, <2>2, <2>5, <3>2
    <3>3. CASE r \notin F \cup K
      BY <1>3, <2>1, <2>2, <2>5, <3>3
    <3> QED
      BY <3>1, <3>2, <3>3
  <2>6. ASSUME "killed" \in n(r) \/ ("failed" \in n(r) /\ Parent[r] \notin Run),
               NEW s \in Steps(r)
        PROVE  n(s) # {}
    <3>1. CASE r \in K
      BY <2>1, <2>2, <2>3, <3>1
    <3>2. CASE r \in F
      BY <2>1, <2>2, <2>3, <2>6, <3>2
    <3>3. CASE r \notin F \cup K
      BY <1>1, <1>3, <2>1, <2>2, <2>3, <2>6, <3>3
    <3> QED
      BY <3>1, <3>2, <3>3
  <2> QED
    BY <2>4, <2>5, <2>6
<1>8. CASE Endings!RunIsKilled
  <2>1. PICK K \in SUBSET U :
          /\ \A x \in Run : n(x) = IF x \in K THEN {"killed"} ELSE o(x)
          /\ \A x \in K, y \in U : Parent[x] = y \/ Parent[y] = x => y \in K
    BY <1>8 DEF Endings!RunIsKilled, Endings!Joined
  <2> HIDE DEF o, n, U
  <2>2. \A x \in Run : n(x) = {} <=> x \in U \ K
    BY <1>1, <2>1
  <2>3. \A s \in Steps(r) : s \in Run /\ Parent[s] = r
    BY DEF Steps
  <2>4. ASSUME Steps(r) # {}, \A s \in Steps(r) : "finished" \in n(s)
        PROVE  n(r) # {}
    <3>1. \A s \in Steps(r) : "finished" \in o(s)
      BY <2>1, <2>3, <2>4
    <3>2. r \notin U
      BY <1>1, <1>3, <2>4, <3>1
    <3> QED
      BY <2>2, <3>2
  <2>5. CASE r \in K
    BY <2>1, <2>2, <2>3, <2>4, <2>5
  <2>6. CASE r \notin K
    <3>1. n(r) = o(r)
      BY <2>1, <2>6
    <3> QED
      BY <1>1, <1>3, <2>2, <2>3, <2>4, <3>1
  <2> QED
    BY <2>5, <2>6
<1>9. CASE Endings!NoRunEnds \/ UNCHANGED Endings!vars
  BY <1>5, <1>9 DEF Endings!NoRunEnds, Endings!vars
<1> QED
  BY <1>6, <1>7, <1>8, <1>9 DEF Endings!Next

\* Run.finish, Run.fail, Run.kill: what an end should have reached, above and below, has
\* ended, however the cascades of other handlers interleave.
THEOREM EndsSpreadCorrect == Spec => []EndsSpread
<1>1. Init => EndsSpread
  <2> SUFFICES ASSUME Init PROVE EndsSpread
    OBVIOUS
  <2>1. \A x \in Run : runStatus[x] \cap TerminalFlag = {}
    BY DEF Init
  <2> QED
    BY <2>1 DEF EndsSpread, Endings!EndsSpread, Endings!Steps
<1>2. IInv /\ IInv' /\ [Next]_vars /\ EndsSpread => EndsSpread'
  <2> SUFFICES ASSUME IInv, IInv', [Next]_vars, EndsSpread PROVE EndsSpread'
    OBVIOUS
  <2>1. RunHasOneOutcome' /\ [Endings!Next]_(Endings!vars)
    BY StepEndings DEF IInv
  <2> QED
    BY <2>1, SpreadStep
<1> QED
  BY <1>1, <1>2, Invariance, PTL DEF Spec
=============================================================================
