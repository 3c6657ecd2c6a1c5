---------------------------- MODULE RunOutcomes -----------------------------
(***************************************************************************)
(* What the user of a workflow may count on about how its runs end.        *)
(*                                                                         *)
(* A run ends once.  It finishes when the last of its tasks, or of its     *)
(* steps, has finished, and then at once.  A task that is broken fails     *)
(* its run and everything above that has not ended; if that is as far as   *)
(* the top, what hangs from the top by runs that have not ended is killed. *)
(* Nothing else is killed unless a user asks, and then it is the whole of  *)
(* what hangs together by runs that have not ended.                        *)
(***************************************************************************)
CONSTANTS
  Run, Parent,   \* the forest of runs
  Task, TaskRun  \* the tasks of its leaves

VARIABLES
  outcome,   \* how each run has ended: not at all, or the set of one word
  finished,  \* the tasks that have finished
  broken     \* those that have failed, or that cannot be made of the inputs they have

vars == <<outcome, finished, broken>>

-----------------------------------------------------------------------------
Steps(r)  == {s \in Run : Parent[s] = r}
Tasks(r)  == {t \in Task : TaskRun[t] = r}
Undecided == {r \in Run : outcome[r] = {}}

Joined(x, y) == Parent[x] = y \/ Parent[y] = x

\* R leads upwards from r.
IsWayUp(R, r) == \A x \in R : x = r \/ \E y \in R : Parent[y] = x

\* However K is cut in two, the parts are joined.
IsOnePiece(K) == \A A \in (SUBSET K) \ {{}, K} : \E x \in A, y \in K \ A : Joined(x, y)

-----------------------------------------------------------------------------
Init ==
  /\ outcome = [r \in Run |-> {}]
  /\ finished = {}
  /\ broken \in SUBSET Task

\* No task is ever less finished or less broken.
TasksGoOn == finished \subseteq finished' /\ broken \subseteq broken'

\* A task finishes, and with it the runs R: its own and those above, as far as
\* nothing else is missing, and no less far.
TaskFinishes ==
  \E t \in Task \ finished, R \in SUBSET Undecided :
    /\ TasksGoOn
    /\ finished' = finished \cup {t}
    /\ outcome' = [r \in Run |-> IF r \in R THEN {"finished"} ELSE outcome[r]]
    /\ IsWayUp(R, TaskRun[t])
    /\ \A r \in R : /\ Tasks(r) \subseteq finished'
                    /\ \A s \in Steps(r) : outcome'[s] = {"finished"}
    /\ \A r \in Undecided \ R :
         /\ r = TaskRun[t] => ~(Tasks(r) \subseteq finished')
         /\ Steps(r) \cap R # {} => \E s \in Steps(r) : outcome'[s] # {"finished"}

\* A broken task fails the runs F.  K is killed: steps of a topmost run in F, and what
\* hangs from them.
RunFails ==
  \E t \in broken', F \in SUBSET Undecided : \E K \in SUBSET (Undecided \ F) :
    /\ TasksGoOn
    /\ outcome' = [r \in Run |-> IF r \in F THEN {"failed"}
                                 ELSE IF r \in K THEN {"killed"} ELSE outcome[r]]
    /\ TaskRun[t] \in F /\ IsWayUp(F, TaskRun[t])
    /\ \A r \in F : Parent[r] \in Undecided => Parent[r] \in F
    /\ \A r \in Undecided \ F :
         r \in K <=> \/ Parent[r] \in K
                     \/ Parent[r] \in F /\ Parent[Parent[r]] \notin Run

\* A user has a run killed, which takes along all that hangs together with it.
RunIsKilled ==
  \E K \in SUBSET Undecided :
    /\ K # {} /\ IsOnePiece(K)
    /\ \A x \in K, y \in Undecided : Joined(x, y) => y \in K
    /\ outcome' = [r \in Run |-> IF r \in K THEN {"killed"} ELSE outcome[r]]
    /\ UNCHANGED <<finished, broken>>

\* Tasks get on and no run ends.  If a task finishes, its push met a task that is broken
\* and whose run had ended before, and raised, so that its own run was not looked at.
NoRunEnds ==
  /\ TasksGoOn
  /\ finished' # finished => \E t \in broken' : TaskRun[t] \notin Undecided
  /\ UNCHANGED outcome

Next == TaskFinishes \/ RunFails \/ RunIsKilled \/ NoRunEnds

Spec == Init /\ [][Next]_vars

-----------------------------------------------------------------------------
\* An end does not stop half way.  A workflow all of whose steps have finished has
\* ended; so has the one a failed or killed run is a step of, and so have the steps of
\* a run that was killed and of a failed run at the top.
EndsSpread ==
  \A r \in Run :
    /\ Steps(r) # {} /\ (\A s \in Steps(r) : "finished" \in outcome[s]) => r \notin Undecided
    /\ outcome[r] \cap {"failed", "killed"} # {} => Parent[r] \notin Undecided
    /\ "killed" \in outcome[r] \/ ("failed" \in outcome[r] /\ Parent[r] \notin Run)
         => Steps(r) \cap Undecided = {}
=============================================================================
