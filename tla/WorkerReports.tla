--------------------------- MODULE WorkerReports ----------------------------
(***************************************************************************)
(* What the server may count on from the worker of a task attempt: the     *)
(* part of Lifecycle that concerns one worker (WorkerReportsError,         *)
(* WorkerFinishes and WorkerExits, with the same values of worker[a]), and *)
(* the outputs, which Lifecycle takes for granted.                         *)
(*                                                                         *)
(* Outputs are saved one after the other while nothing has been reported.  *)
(* The attempt is reported finished only when the server has all of them,  *)
(* and nothing but repetitions follows that.  An analysis that failed may  *)
(* be followed by other errors, not by outputs.  The worker may exit at    *)
(* any time.                                                               *)
(***************************************************************************)
EXTENDS Naturals

CONSTANT Output

VARIABLES
  worker,   \* "running", the last report, or "exited"
  complete  \* the outputs whose data the server has in full

vars == <<worker, complete>>

Init ==
  /\ worker = "running"
  /\ complete = {}

SaveOutput ==
  /\ worker = "running"
  /\ \E o \in Output : complete' = complete \cup {o}
  /\ UNCHANGED worker

WorkerFinishes ==
  /\ worker = "running"
  /\ complete = Output
  /\ worker' = "finished"
  /\ UNCHANGED complete

WorkerReportsError ==
  /\ \/ worker = "running" /\ worker' \in {"analysis", "system"}
     \/ worker = "analysis" /\ worker' = "system"
  /\ UNCHANGED complete

WorkerExits ==
  /\ worker' = "exited"
  /\ UNCHANGED complete

Next == SaveOutput \/ WorkerFinishes \/ WorkerReportsError \/ WorkerExits

Spec == Init /\ [][Next]_vars
=============================================================================
