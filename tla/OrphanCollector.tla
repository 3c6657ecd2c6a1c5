--------------------------- MODULE OrphanCollector ---------------------------
(***************************************************************************)
(* The life of the TaskAttempt rows themselves: execute_task makes one in  *)
(* several saves or takes the one of the fingerprint, deleting a run takes *)
(* its tasks away, and the periodic cleanup_orphaned_task_attempts deletes *)
(* the attempts that no task has.  Lifecycle takes the making of an        *)
(* attempt for one step; here each save is a step of its own, and the      *)
(* statuses of tasks and attempts are left out: whether a task is executed *)
(* again, and whether an attempt can be reused, is a free choice.          *)
(*                                                                         *)
(* All tasks here have the same contents, hence one fingerprint.           *)
(***************************************************************************)
EXTENDS Naturals, FiniteSets

CONSTANTS
  Task,        \* tasks, each of a run of its own
  Attempt,     \* the rows TaskAttempt can have, each used once
  NoAttempt,   \* a null task_attempt or active_task_attempt
  MaxDeaths    \* bound: how many handlers may die half way

ASSUME AttemptAssumption == NoAttempt \notin Attempt
ASSUME DeathsAssumption == MaxDeaths \in Nat

VARIABLES
  tasks,        \* the Task rows
  row,          \* the TaskAttempt rows: "initializing" is status_is_initializing
  active,       \* Task.task_attempt
  members,      \* TaskMembership, as pairs
  fingerprint,  \* TaskFingerprint.active_task_attempt
  pc,           \* where the execute_task handler of each task is
  held,         \* the attempt it has in hand
  reusing,      \* whether it took that attempt from the fingerprint
  listed,       \* the orphans the collector has listed and not yet deleted
  deaths        \* handlers that have died

handler == <<pc, held, reusing>>
vars == <<tasks, row, active, members, fingerprint, handler, listed, deaths>>

AttemptOrNone == Attempt \cup {NoAttempt}
Stored == {a \in Attempt : row[a] \in {"initializing", "initialized"}}

\* The filter of cleanup_orphaned_task_attempts.
Orphans == {a \in Attempt : row[a] = "initialized" /\ \A t \in Task : <<t, a>> \notin members}

TypeOK ==
  /\ tasks \subseteq Task
  /\ row \in [Attempt -> {"none", "initializing", "initialized", "deleted"}]
  /\ active \in [Task -> AttemptOrNone]
  /\ members \subseteq Task \X Attempt
  /\ fingerprint \in AttemptOrNone
  /\ pc \in [Task -> {"idle", "create", "initialize", "activate", "join", "claim"}]
  /\ held \in [Task -> AttemptOrNone]
  /\ reusing \in [Task -> BOOLEAN]
  /\ listed \subseteq Attempt
  /\ deaths \in 0..MaxDeaths
  /\ \A t \in Task : held[t] = NoAttempt <=> pc[t] \in {"idle", "create"}

Init ==
  /\ tasks = Task
  /\ row = [a \in Attempt |-> "none"]
  /\ active = [t \in Task |-> NoAttempt]
  /\ members = {}
  /\ fingerprint = NoAttempt
  /\ pc = [t \in Task |-> "idle"]
  /\ held = [t \in Task |-> NoAttempt]
  /\ reusing = [t \in Task |-> FALSE]
  /\ listed = {}
  /\ deaths = 0

\* (Mutant of the next definition: the attempt stays in hand.)
ReturnHolding(t) ==
  /\ pc' = [pc EXCEPT ![t] = "idle"]
  /\ UNCHANGED <<held, reusing>>

\* The handler ends: it has done its work, or an exception ends it.  In
\* create_and_activate_task_attempt the exception is a system error of the task,
\* which is to say that the task may be executed again.
Return(t) ==
  /\ pc' = [pc EXCEPT ![t] = "idle"]
  /\ held' = [held EXCEPT ![t] = NoAttempt]
  /\ reusing' = [reusing EXCEPT ![t] = FALSE]

-----------------------------------------------------------------------------
(* execute_task.                                                            *)

\* The task and its fingerprint are loaded; an attempt that might succeed is reused.
Decide(t) ==
  /\ pc[t] = "idle" /\ t \in tasks
  /\ \/ /\ fingerprint # NoAttempt
        /\ pc' = [pc EXCEPT ![t] = "activate"]
        /\ held' = [held EXCEPT ![t] = fingerprint]
        /\ reusing' = [reusing EXCEPT ![t] = TRUE]
     \/ /\ pc' = [pc EXCEPT ![t] = "create"]
        /\ UNCHANGED <<held, reusing>>
  /\ UNCHANGED <<tasks, row, active, members, fingerprint, listed, deaths>>

\* TaskAttempt.create_from_task: the first save.
Create(t, a) ==
  /\ pc[t] = "create" /\ row[a] = "none"
  /\ row' = [row EXCEPT ![a] = "initializing"]
  /\ held' = [held EXCEPT ![t] = a]
  /\ pc' = [pc EXCEPT ![t] = "initialize"]
  /\ UNCHANGED <<tasks, active, members, fingerprint, reusing, listed, deaths>>

\* TaskAttempt.initialize, which nothing can take the row from.
Initialize(t) ==
  /\ pc[t] = "initialize"
  /\ row' = [row EXCEPT ![held[t]] = "initialized"]
  /\ pc' = [pc EXCEPT ![t] = "activate"]
  /\ UNCHANGED <<tasks, active, members, fingerprint, held, reusing, listed, deaths>>

\* The save of Task.activate_task_attempt.  full_clean refuses an attempt that is
\* not in the database; a task that is not there cannot be saved.
Activate(t) ==
  /\ pc[t] = "activate"
  /\ \/ /\ t \in tasks /\ held[t] \in Stored
        /\ active' = [active EXCEPT ![t] = held[t]]
        /\ pc' = [pc EXCEPT ![t] = "join"]
        /\ UNCHANGED <<held, reusing>>
     \/ /\ t \notin tasks \/ held[t] \notin Stored
        /\ Return(t)
        /\ UNCHANGED active
  /\ UNCHANGED <<tasks, row, members, fingerprint, listed, deaths>>

\* Task.add_to_all_task_attempts, which a task deleted meanwhile makes fail.
Join(t) ==
  /\ pc[t] = "join"
  /\ \/ /\ t \in tasks
        /\ members' = members \cup {<<t, held[t]>>}
     \/ /\ t \notin tasks
        /\ UNCHANGED members
  /\ \/ /\ t \in tasks /\ ~reusing[t]
        /\ pc' = [pc EXCEPT ![t] = "claim"]
        /\ UNCHANGED <<held, reusing>>
     \/ /\ t \notin tasks \/ reusing[t]
        /\ Return(t)
  /\ UNCHANGED <<tasks, row, active, fingerprint, listed, deaths>>

\* TaskFingerprint.update_task_attempt_maybe; or the row of the fingerprint was
\* deleted with its attempt, or holds a better attempt.
Claim(t) ==
  /\ pc[t] = "claim"
  /\ \/ /\ held[t] \in Stored
        /\ fingerprint' = held[t]
     \/ UNCHANGED fingerprint
  /\ Return(t)
  /\ UNCHANGED <<tasks, row, active, members, listed, deaths>>

HandlerDies(t) ==
  /\ deaths < MaxDeaths
  /\ pc[t] # "idle"
  /\ deaths' = deaths + 1
  /\ Return(t)
  /\ UNCHANGED <<tasks, row, active, members, fingerprint, listed>>

-----------------------------------------------------------------------------
\* Run.delete: the tasks and their memberships go by cascade.
DeleteRun(t) ==
  /\ t \in tasks
  /\ tasks' = tasks \ {t}
  /\ active' = [active EXCEPT ![t] = NoAttempt]
  /\ members' = {m \in members : m[1] # t}
  /\ UNCHANGED <<row, fingerprint, handler, listed, deaths>>

\* (Mutant of the next definition: what the fingerprint has is not an orphan.)
ListUnclaimed ==
  /\ listed = {} /\ Orphans \ {fingerprint} # {}
  /\ listed' = Orphans \ {fingerprint}
  /\ UNCHANGED <<tasks, row, active, members, fingerprint, handler, deaths>>

\* cleanup_orphaned_task_attempts runs its query.  Bound: a pass starts when the
\* last one has ended.
ListOrphans ==
  /\ listed = {} /\ Orphans # {}
  /\ listed' = Orphans
  /\ UNCHANGED <<tasks, row, active, members, fingerprint, handler, deaths>>

\* (Mutant of the next definition: the foreign key of Task does not protect.)
DeleteUnprotected(a) ==
  /\ a \in listed
  /\ listed' = listed \ {a}
  /\ row' = [row EXCEPT ![a] = "deleted"]
  /\ members' = {m \in members : m[2] # a}
  /\ fingerprint' = IF fingerprint = a THEN NoAttempt ELSE fingerprint
  /\ UNCHANGED <<tasks, active, handler, deaths>>

\* It deletes one of them, memberships and fingerprint with it, without looking
\* again.  ProtectedError, for an attempt that is active on a task, ends the pass.
DeleteAttempt(a) ==
  /\ a \in listed
  /\ \/ /\ \E t \in Task : active[t] = a
        /\ listed' = {}
        /\ UNCHANGED <<row, members, fingerprint>>
     \/ /\ \A t \in Task : active[t] # a
        /\ listed' = listed \ {a}
        /\ row' = [row EXCEPT ![a] = "deleted"]
        /\ members' = {m \in members : m[2] # a}
        /\ fingerprint' = IF fingerprint = a THEN NoAttempt ELSE fingerprint
  /\ UNCHANGED <<tasks, active, handler, deaths>>

Execute(t) ==
  \/ \E a \in Attempt : Create(t, a)
  \/ Initialize(t) \/ Activate(t) \/ Join(t) \/ Claim(t)

Next ==
  \/ \E t \in Task : Decide(t) \/ Execute(t) \/ HandlerDies(t) \/ DeleteRun(t)
  \/ ListOrphans
  \/ \E a \in Attempt : DeleteAttempt(a)

Spec == Init /\ [][Next]_vars

\* The handlers go on, and the collector runs again and again (every 13 minutes).
FairSpec ==
  /\ Spec
  /\ \A t \in Task : WF_vars(Execute(t))
  /\ WF_vars(ListOrphans)
  /\ \A a \in Attempt : WF_vars(DeleteAttempt(a))

-----------------------------------------------------------------------------
\* No row of the server refers to an attempt that is gone, although handlers hold
\* attempts across their saves and the collector works from a list that is out of
\* date: Task.task_attempt (PROTECT), TaskMembership and TaskFingerprint (CASCADE).
NothingDangles ==
  /\ \A t \in Task : active[t] \in Stored \cup {NoAttempt}
  /\ \A m \in members : m[1] \in tasks /\ m[2] \in Stored
  /\ fingerprint \in Stored \cup {NoAttempt}

\* Why: a handler between its two saves has its attempt active on its task, and that
\* protects the attempt.
JoinersAreProtected ==
  \A t \in Task : pc[t] = "join" /\ t \in tasks => active[t] = held[t]

\* An orphan that stops every pass: it is still the active attempt of a task.
Blocked == \E a \in Orphans, t \in Task : active[t] = a

\* Unless one of those stays for ever, every orphan goes or is taken by a task
\* again: cleanup_orphaned_task_attempts leaves nothing behind.
OrphansAreCollected ==
  <>[]~Blocked => \A a \in Attempt : a \in Orphans ~> a \notin Orphans

-----------------------------------------------------------------------------
(* What a comment says and the code does not keep.                          *)

\* TaskAttempt.initialize: "Must add task before setting status to initialized.
\* Otherwise the garbage collector may delete it as an orphan."  No attempt is
\* deleted in the hands of the handler that is making it.
AttemptsInTheMakingAreKept ==
  [][\A t \in Task : pc[t] \in {"initialize", "activate", "join"} /\ ~reusing[t] =>
       row'[held[t]] # "deleted"]_vars
=============================================================================
