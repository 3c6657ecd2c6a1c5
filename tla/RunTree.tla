------------------------------ MODULE RunTree ------------------------------
(***************************************************************************)
(* The tree of runs of models/runs.py and the four cascades that change   *)
(* the status of its rows: Run.finish, Run.fail, Run.kill and             *)
(* Run.set_running_status.  In the code each is a method that calls       *)
(* itself on the parent or on the steps and returns early on a row that   *)
(* already has a terminal status; here each is the closed form of what    *)
(* one complete call writes, a function from the status of every run to   *)
(* its status after the call.  RunTreeRecursion holds the calls as the    *)
(* code makes them and is checked against these closed forms.             *)
(*                                                                        *)
(* A status is the set of the status_is_* columns that are TRUE.  Nothing *)
(* in the code makes the columns exclusive: set_running_status, for one,  *)
(* turns "running" on in a row that is already killed.                    *)
(***************************************************************************)
EXTENDS Naturals, FiniteSets

CONSTANTS
  Run,      \* the runs, of every template level
  NoRun,    \* the parent of a topmost run
  Parent    \* Run.parent

\* The runs form a forest: every non-empty set of runs has one whose parent is
\* outside the set.
ASSUME ParentAssumption ==
  /\ NoRun \notin Run
  /\ Parent \in [Run -> Run \cup {NoRun}]
  /\ \A C \in SUBSET Run : C # {} => \E r \in C : Parent[r] \notin C

TerminalFlag == {"finished", "failed", "killed"}
RunFlag == TerminalFlag \cup {"running", "waiting"}
RunStatus == [Run -> SUBSET RunFlag]

\* has_terminal_status, the same three columns on runs, tasks and attempts.
Terminal(status) == status \cap TerminalFlag # {}

\* What finish, fail and kill assign: one terminal column on, the two
\* transient columns off.  The other terminal columns keep their value.
Ended(status, flag) == (status \ {"running", "waiting"}) \cup {flag}

\* What set_running_status assigns.
Started(status) == (status \ {"waiting"}) \cup {"running"}

Steps(r) == {x \in Run : Parent[x] = r}
IsTopmost(r) == Parent[r] = NoRun
Live(rs) == {r \in Run : ~Terminal(rs[r])}

-----------------------------------------------------------------------------
(* Reachability without recursion: the least set that holds the start and  *)
(* is closed under the step.                                               *)

\* The runs met going from r to its parents, as long as they stay in S.
UpFrom(S, r) ==
  LET closed == {C \in SUBSET S : r \in C /\ \A y \in C : Parent[y] \in S => Parent[y] \in C}
  IN  {x \in S : r \in S /\ \A C \in closed : x \in C}

\* The runs connected to r through parents and steps that stay in S.
Connected(S, r) ==
  LET closed == {C \in SUBSET S :
                   r \in C /\ \A y \in C, z \in S : (Parent[y] = z \/ Parent[z] = y) => z \in C}
  IN  {x \in S : r \in S /\ \A C \in closed : x \in C}

-----------------------------------------------------------------------------
(* Run.finish: the run, then every ancestor all of whose steps are now     *)
(* finished, up to the first that is terminal or still waits for a step.   *)

\* (Mutant of the next definition: the test of the steps is gone.)
HasSteps(rs, x) == Steps(x) # {}

\* (Mutant of the next definition: the steps are tested before the run is saved.)
NoStepLeft(rs, x) == Steps(x) # {} /\ \A z \in Steps(x) : "finished" \in rs[z]

OnlyOneStepLeft(rs, x) ==
  \E y \in Steps(x) : \A z \in Steps(x) \ {y} : "finished" \in rs[z]

FinishedBy(rs, r) ==
  UpFrom({x \in Live(rs) : x = r \/ OnlyOneStepLeft(rs, x)}, r)

FinishRun(rs, r) ==
  LET finished == FinishedBy(rs, r)
  IN  [x \in Run |-> IF x \in finished THEN Ended(rs[x], "finished") ELSE rs[x]]

(* Run.fail: the run and its ancestors, up to the first terminal one.  If  *)
(* the topmost run is among them it then kills its steps; Run.kill returns *)
(* on the failed ones, so what hangs below a failed step is not reached.   *)

\* (Mutant of the next definition: the early return is gone.)
FailedWithoutReturn(rs, r) == UpFrom(Run, r)

FailedBy(rs, r) == UpFrom(Live(rs), r)

\* (Mutant of the next definition: a topmost run that had ended kills again.)
TopmostAbove(rs, r) == {x \in UpFrom(Run, r) : IsTopmost(x)}

\* The topmost run that this failure marks failed; none if the way up is cut.
FailedTop(rs, r) == {x \in FailedBy(rs, r) : IsTopmost(x)}

KilledByFailure(rs, r) ==
  LET remaining == Live(rs) \ FailedBy(rs, r)
  IN  UNION {Connected(remaining, s) : s \in UNION {Steps(x) : x \in FailedTop(rs, r)}}

\* The runs whose tasks are told to stop: those killed and, when it is itself
\* a leaf, the topmost run that failed.
TasksKilledByFailure(rs, r) == KilledByFailure(rs, r) \cup FailedTop(rs, r)

\* (Mutant of the next definition: the steps are failed, not killed.)
FailRunDownwards(rs, r) ==
  [x \in Run |-> IF x \in FailedBy(rs, r) \cup KilledByFailure(rs, r)
                 THEN Ended(rs[x], "failed") ELSE rs[x]]

FailRun(rs, r) ==
  LET failed == FailedBy(rs, r)
      killed == KilledByFailure(rs, r)
  IN  [x \in Run |-> IF x \in failed THEN Ended(rs[x], "failed")
                     ELSE IF x \in killed THEN Ended(rs[x], "killed")
                     ELSE rs[x]]

(* Run.kill: steps, tasks and parent, each of them if not terminal.        *)

\* (Mutant of the next definition: kill goes down only.)
KilledBelow(rs, r) == {x \in Live(rs) : r \in UpFrom(Live(rs), x)}

KilledBy(rs, r) == Connected(Live(rs), r)

KillRun(rs, r) ==
  LET killed == KilledBy(rs, r)
  IN  [x \in Run |-> IF x \in killed THEN Ended(rs[x], "killed") ELSE rs[x]]

(* Run.set_running_status: upwards, up to the first row that is running    *)
(* and not waiting.  It does not look at the terminal columns.             *)

\* (Mutant of the next definition: a row that is not waiting is left alone.)
StartedIfWaiting(rs, r) == UpFrom({x \in Run : "waiting" \in rs[x]}, r)

StartedBy(rs, r) == UpFrom({x \in Run : ~("running" \in rs[x] /\ "waiting" \notin rs[x])}, r)

\* One call for each run of a set.
StartRuns(rs, R) ==
  [x \in Run |-> IF \E r \in R : x \in StartedBy(rs, r) THEN Started(rs[x]) ELSE rs[x]]
=============================================================================
