-------------------------- MODULE RunTreeRecursion --------------------------
(***************************************************************************)
(* The cascades of models/runs.py as the code makes them: each method      *)
(* calls itself, a call returns early on a terminal row, and a loop over   *)
(* self.steps.all() hands the rows it has changed to its next iteration.   *)
(* A state here is the status of every run; a step is one complete call on *)
(* one of them.                                                            *)
(***************************************************************************)
EXTENDS RunTree

CONSTANT First  \* First[S]: the one of the steps S that self.steps.all() lists first

ASSUME OrderAssumption ==
  /\ First \in [(SUBSET Run) \ {{}} -> Run]
  /\ \A S \in (SUBSET Run) \ {{}} : First[S] \in S

ASSUME FiniteAssumption == IsFiniteSet(Run)

VARIABLE status  \* Run.status_is_* of every run

-----------------------------------------------------------------------------
(* The calls.  What is changed by kill and fail is [runs |-> status of     *)
(* every run, tasks |-> the runs whose tasks have been sent kill].         *)

Changed == [runs : RunStatus, tasks : SUBSET Run]

FinishCall[at \in RunStatus \X Run] ==
  LET rs == at[1]
      r  == at[2]
      after == [rs EXCEPT ![r] = Ended(@, "finished")]
  IN  IF Terminal(rs[r]) THEN rs
      ELSE IF ~IsTopmost(r) /\ \A s \in Steps(Parent[r]) : "finished" \in after[s]
      THEN FinishCall[<<after, Parent[r]>>]
      ELSE after

\* kill, of one run after the other.  A run that is not terminal kills its steps, then
\* its tasks, then its parent.
KillCalls[at \in Changed \X SUBSET Run] ==
  LET st == at[1]
      S  == at[2]
      r  == First[S]
      below == [KillCalls[<<[st EXCEPT !.runs[r] = Ended(@, "killed")], Steps(r)>>]
                  EXCEPT !.tasks = @ \cup {r}]
      after == IF Terminal(st.runs[r]) THEN st
               ELSE IF IsTopmost(r) THEN below
               ELSE KillCalls[<<below, {Parent[r]}>>]
  IN  IF S = {} THEN st ELSE KillCalls[<<after, S \ {r}>>]

KillCall(st, r) == KillCalls[<<st, {r}>>]

KillChildren(st, r) == [KillCalls[<<st, Steps(r)>>] EXCEPT !.tasks = @ \cup {r}]

FailCall[at \in Changed \X Run] ==
  LET st == at[1]
      r  == at[2]
      after == [st EXCEPT !.runs[r] = Ended(@, "failed")]
  IN  IF Terminal(st.runs[r]) THEN st
      ELSE IF IsTopmost(r) THEN KillChildren(after, r)
      ELSE FailCall[<<after, Parent[r]>>]

SetRunningCall[at \in RunStatus \X Run] ==
  LET rs == at[1]
      r  == at[2]
      after == [rs EXCEPT ![r] = Started(@)]
  IN  IF "running" \in rs[r] /\ "waiting" \notin rs[r] THEN rs
      ELSE IF IsTopmost(r) THEN after
      ELSE SetRunningCall[<<after, Parent[r]>>]

Unchanged(rs) == [runs |-> rs, tasks |-> {}]

-----------------------------------------------------------------------------
CallFinish(r)     == status' = FinishCall[<<status, r>>]
CallFail(r)       == status' = FailCall[<<Unchanged(status), r>>].runs
CallKill(r)       == status' = KillCall(Unchanged(status), r).runs
CallSetRunning(r) == status' = SetRunningCall[<<status, r>>]

InitCalls == status = [r \in Run |-> {"waiting"}]

NextCall == \E r \in Run : \/ CallFinish(r)
                           \/ CallFail(r)
                           \/ CallKill(r)
                           \/ CallSetRunning(r)

CallsSpec == InitCalls /\ [][NextCall]_status

-----------------------------------------------------------------------------
\* Run.finish: in every state the calls can lead to, the closed form of the
\* upward cascade writes what the recursion of Run.finish writes, on any run.
FinishMatches == \A r \in Run : FinishRun(status, r) = FinishCall[<<status, r>>]

\* Run.fail: the closed form writes the same rows as the recursion (upwards,
\* then down from the topmost run) and sends kill to the tasks of the same runs.
FailMatches ==
  \A r \in Run :
    LET st == FailCall[<<Unchanged(status), r>>]
    IN  /\ FailRun(status, r) = st.runs
        /\ TasksKilledByFailure(status, r) = st.tasks

\* Run.kill: the closed form (everything connected to the run through rows that
\* are not terminal) is what the mutual recursion of steps and parents reaches,
\* whatever the order of the steps, and the tasks sent kill are theirs.
KillMatches ==
  \A r \in Run :
    LET st == KillCall(Unchanged(status), r)
    IN  /\ KillRun(status, r) = st.runs
        /\ KilledBy(status, r) = st.tasks

\* Run.set_running_status: calling it for one run after another, in either
\* order, is the closed form for the set of them.
SetRunningMatches ==
  \A r, s \in Run :
    StartRuns(status, {r, s}) = SetRunningCall[<<SetRunningCall[<<status, r>>], s>>]
=============================================================================
