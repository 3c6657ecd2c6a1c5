--------------------------- MODULE OptimisticSave ---------------------------
(***************************************************************************)
(* One row of one table, and processes that each load it, test it, change  *)
(* some columns and save it: BaseModel.save and                            *)
(* BaseModel.setattrs_and_save_with_retries of models/base.py, under the   *)
(* methods of Run, Task and TaskAttempt that return early on a terminal    *)
(* row.                                                                    *)
(*                                                                         *)
(* save runs two statements.  The first adds one to _change if _change is  *)
(* still what the object was loaded with; the second writes every column   *)
(* of the object, _change included.  No transaction holds them together,   *)
(* so each is a step of its own.  After a conflict the object is loaded    *)
(* afresh and the same assignments are made again; the test that led to    *)
(* them is not repeated.                                                   *)
(***************************************************************************)
EXTENDS Naturals, FiniteSets

CONSTANTS
  Process,      \* the handlers that change the row, each of them once
  Column,       \* the Boolean columns of the row
  Assigns,      \* the columns each handler turns on
  Guarded,      \* the handlers that return if any column is already on
  MaxRetries    \* max_retries of setattrs_and_save_with_retries

ASSUME ProcessAssumption ==
  /\ IsFiniteSet(Process)
  /\ Assigns \in [Process -> SUBSET Column]
  /\ Guarded \subseteq Process

ASSUME RetriesAssumption == MaxRetries \in Nat

VARIABLES
  row,       \* the row in the database
  obj,       \* the object each process holds
  pc,        \* where each process is
  conflicts  \* how many ConcurrentModificationErrors each process has met

vars == <<row, obj, pc, conflicts>>

Row == [change : Nat, on : SUBSET Column]

TypeOK ==
  /\ row \in Row
  /\ obj \in [Process -> Row]
  /\ pc \in [Process -> {"load", "claim", "reload", "write", "done", "returned", "raised"}]
  /\ conflicts \in [Process -> 0..(MaxRetries + 1)]

Init ==
  /\ row = [change |-> 0, on |-> {}]
  /\ obj = [p \in Process |-> row]
  /\ pc = [p \in Process |-> "load"]
  /\ conflicts = [p \in Process |-> 0]

\* setattr of each assignment on the object at hand.
Assigned(p, o) == [o EXCEPT !.on = @ \cup Assigns[p]]

\* objects.get, the early return of the method, the assignments.
Load(p) ==
  /\ pc[p] = "load"
  /\ \/ /\ p \in Guarded /\ row.on # {}
        /\ pc' = [pc EXCEPT ![p] = "returned"]
        /\ obj' = obj
     \/ /\ p \notin Guarded \/ row.on = {}
        /\ pc' = [pc EXCEPT ![p] = "claim"]
        /\ obj' = [obj EXCEPT ![p] = Assigned(p, row)]
  /\ UNCHANGED <<row, conflicts>>

\* UPDATE ... SET _change = _change + 1 WHERE _change is the loaded one.
Claim(p) ==
  /\ pc[p] = "claim"
  /\ row.change = obj[p].change
  /\ row' = [row EXCEPT !.change = @ + 1]
  /\ obj' = [obj EXCEPT ![p].change = @ + 1]
  /\ pc' = [pc EXCEPT ![p] = "write"]
  /\ UNCHANGED conflicts

\* (Two mutants of the next definition: one retry too many; no reload and no end.)
ConflictOnceMore(p) ==
  /\ pc[p] = "claim"
  /\ row.change # obj[p].change
  /\ conflicts' = [conflicts EXCEPT ![p] = @ + 1]
  /\ pc' = [pc EXCEPT ![p] = IF conflicts[p] > MaxRetries THEN "raised" ELSE "reload"]
  /\ UNCHANGED <<row, obj>>

ConflictWithoutReload(p) ==
  /\ pc[p] = "claim"
  /\ row.change # obj[p].change
  /\ UNCHANGED vars

\* No row matched: reload and assign again, or give up.
Conflict(p) ==
  /\ pc[p] = "claim"
  /\ row.change # obj[p].change
  /\ conflicts' = [conflicts EXCEPT ![p] = @ + 1]
  /\ \/ /\ conflicts[p] >= MaxRetries
        /\ pc' = [pc EXCEPT ![p] = "raised"]
        /\ obj' = obj
     \/ /\ conflicts[p] < MaxRetries
        /\ pc' = [pc EXCEPT ![p] = "reload"]
        /\ obj' = obj
  /\ UNCHANGED row

\* (Mutant of the next definition: the object keeps its old _change.)
ReloadAllButChange(p) ==
  /\ pc[p] = "reload"
  /\ pc' = [pc EXCEPT ![p] = "claim"]
  /\ obj' = [obj EXCEPT ![p].on = row.on \cup Assigns[p]]
  /\ UNCHANGED <<row, conflicts>>

Reload(p) ==
  /\ pc[p] = "reload"
  /\ pc' = [pc EXCEPT ![p] = "claim"]
  /\ obj' = [obj EXCEPT ![p] = Assigned(p, row)]
  /\ UNCHANGED <<row, conflicts>>

\* models.Model.save: UPDATE of all columns by primary key.
Write(p) ==
  /\ pc[p] = "write"
  /\ row' = obj[p]
  /\ pc' = [pc EXCEPT ![p] = "done"]
  /\ UNCHANGED <<obj, conflicts>>

Step(p) == Load(p) \/ Claim(p) \/ Conflict(p) \/ Reload(p) \/ Write(p)
AllStopped == \A p \in Process : pc[p] \in {"done", "returned", "raised"}

Next == (\E p \in Process : Step(p)) \/ (AllStopped /\ UNCHANGED vars)

Spec == Init /\ [][Next]_vars
FairSpec == Spec /\ \A p \in Process : WF_vars(Step(p))

-----------------------------------------------------------------------------
Claimed(p) == pc[p] \in {"write", "done"}
Claimers(p)  == {q \in Process \ {p} : Claimed(q)}
Finishers(p) == {q \in Process \ {p} : pc[q] = "done"}

\* A conflict of one call is always somebody else's doing: each other process that gets
\* through can cost a process at most two conflicts, one with its first
\* statement and one with its second (which may move _change backwards).  So
\* the SaveRetriesExceededError of max_retries = 5 needs three other savers.
ConflictsComeFromOthers ==
  \A p \in Process : conflicts[p] <= 2 * Cardinality(Claimers(p))

\* The inductive invariant: the retries run out once, and every conflict of a process, the
\* one it is about to meet included, is paid for by a statement of another process.
RetriesRunOut == \A p \in Process : conflicts[p] > MaxRetries => pc[p] = "raised"

ConflictsArePaid ==
  \A p \in Process :
    conflicts[p] + (IF pc[p] = "claim" /\ row.change # obj[p].change THEN 1 ELSE 0)
      <= Cardinality(Claimers(p)) + Cardinality(Finishers(p))

IInv == TypeOK /\ RetriesRunOut /\ ConflictsArePaid

\* setattrs_and_save_with_retries never retries for ever: it returns or raises.
SaveReturns == \A p \in Process : <>(pc[p] \in {"done", "returned", "raised"})

-----------------------------------------------------------------------------
(* What the code says of itself and does not keep.                          *)

\* Release 0.3.6: "Runs are no longer changed to "killed" if they already
\* completed".
CompletedIsNotKilled == ~({"finished", "killed"} \subseteq row.on)
=============================================================================
