----------------------- MODULE OrphanCollectorProofs -----------------------
(***************************************************************************)
(* Proofs about OrphanCollector for any tasks, attempts and crashes.       *)
(***************************************************************************)
EXTENDS OrphanCollector, TLAPS

Inv == TypeOK /\ NothingDangles /\ JoinersAreProtected

LEMMA InitInv == Init => Inv
BY AttemptAssumption, DeathsAssumption
DEF Init, Inv, TypeOK, NothingDangles, JoinersAreProtected, AttemptOrNone, Stored

\* execute_task up to the activation.
LEMMA MakingStep ==
  ASSUME Inv, NEW t \in Task, Decide(t) \/ (\E a \in Attempt : Create(t, a)) \/ Initialize(t)
  PROVE  Inv'
<1> USE AttemptAssumption DEF Inv, TypeOK, AttemptOrNone
<1>1. TypeOK'
  <2>1. CASE Decide(t)
    <3>1. CASE /\ pc' = [pc EXCEPT ![t] = "activate"]
               /\ held' = [held EXCEPT ![t] = fingerprint]
               /\ reusing' = [reusing EXCEPT ![t] = TRUE]
               /\ fingerprint # NoAttempt
      BY <2>1, <3>1 DEF Decide
    <3>2. CASE pc' = [pc EXCEPT ![t] = "create"] /\ UNCHANGED <<held, reusing>>
      BY <2>1, <3>2 DEF Decide
    <3> QED
      BY <2>1, <3>1, <3>2 DEF Decide
  <2>2. ASSUME NEW a \in Attempt, Create(t, a) PROVE TypeOK'
    BY <2>2 DEF Create
  <2>3. CASE Initialize(t)
    BY <2>3 DEF Initialize
  <2> QED
    BY <2>1, <2>2, <2>3
<1>2. \A b \in Stored : b \in Stored'
  BY DEF Decide, Create, Initialize, Stored
<1>3. NothingDangles'
  BY <1>2 DEF Decide, Create, Initialize, NothingDangles
<1>4. JoinersAreProtected'
  BY DEF Decide, Create, Initialize, JoinersAreProtected
<1> QED
  BY <1>1, <1>3, <1>4

\* Its saves on the task and on the fingerprint, and its end.
LEMMA SavingStep ==
  ASSUME Inv, NEW t \in Task, Activate(t) \/ Join(t) \/ Claim(t) \/ HandlerDies(t)
  PROVE  Inv'
<1> USE AttemptAssumption DEF Inv, TypeOK, AttemptOrNone
<1>1. Stored' = Stored
  BY DEF Activate, Join, Claim, HandlerDies, Stored
<1>2. CASE Activate(t)
  <2>1. TypeOK'
    BY <1>2 DEF Activate, Return
  <2>2. NothingDangles'
    BY <1>1, <1>2 DEF Activate, NothingDangles
  <2>3. JoinersAreProtected'
    BY <1>2 DEF Activate, Return, JoinersAreProtected
  <2> QED
    BY <2>1, <2>2, <2>3
<1>3. CASE Join(t)
  <2>1. held[t] \in Attempt
    BY <1>3 DEF Join
  <2>2. t \in tasks => held[t] \in Stored
    BY <1>3, <2>1 DEF Join, JoinersAreProtected, NothingDangles
  <2>3. members' \in {members, members \cup {<<t, held[t]>>}}
    BY <1>3 DEF Join
  <2>4. TypeOK'
    <3>1. members' \subseteq Task \X Attempt
      BY <2>1, <2>3
    <3>2. CASE pc' = [pc EXCEPT ![t] = "claim"] /\ UNCHANGED <<held, reusing>>
      BY <1>3, <3>1, <3>2 DEF Join
    <3>3. CASE Return(t)
      BY <1>3, <3>1, <3>3 DEF Join, Return
    <3> QED
      BY <1>3, <3>2, <3>3 DEF Join
  <2>5. NothingDangles'
    BY <1>1, <1>3, <2>2 DEF Join, NothingDangles
  <2>6. JoinersAreProtected'
    BY <1>3 DEF Join, Return, JoinersAreProtected
  <2> QED
    BY <2>4, <2>5, <2>6
<1>4. CASE Claim(t) \/ HandlerDies(t)
  <2>1. TypeOK'
    <3>1. fingerprint' \in AttemptOrNone
      BY <1>4 DEF Claim, HandlerDies
    <3>2. deaths' \in 0..MaxDeaths
      BY <1>4, DeathsAssumption DEF Claim, HandlerDies
    <3>3. /\ UNCHANGED <<tasks, row, active, members, listed>>
          /\ Return(t)
      BY <1>4 DEF Claim, HandlerDies
    <3> QED
      BY <3>1, <3>2, <3>3 DEF Return
  <2>2. NothingDangles'
    BY <1>1, <1>4 DEF Claim, HandlerDies, NothingDangles
  <2>3. JoinersAreProtected'
    BY <1>4 DEF Claim, HandlerDies, Return, JoinersAreProtected
  <2> QED
    BY <2>1, <2>2, <2>3
<1> QED
  BY <1>2, <1>3, <1>4

\* Deletions: of a run, and of an attempt by the collector.
LEMMA DeletingStep ==
  ASSUME Inv,
         \/ \E t \in Task : DeleteRun(t)
         \/ ListOrphans
         \/ \E a \in Attempt : DeleteAttempt(a)
  PROVE  Inv'
<1> USE AttemptAssumption DEF Inv, TypeOK, AttemptOrNone
<1>1. TypeOK'
  BY DEF DeleteRun, ListOrphans, Orphans, DeleteAttempt, handler
<1>2. CASE ListOrphans \/ \E t \in Task : DeleteRun(t)
  <2>1. Stored' = Stored
    BY <1>2 DEF DeleteRun, ListOrphans, Stored
  <2>2. NothingDangles'
    BY <1>2, <2>1 DEF DeleteRun, ListOrphans, NothingDangles
  <2>3. JoinersAreProtected'
    BY <1>2 DEF DeleteRun, ListOrphans, JoinersAreProtected, handler
  <2> QED
    BY <1>1, <2>2, <2>3
<1>3. ASSUME NEW a \in Attempt, DeleteAttempt(a)
      PROVE  Inv'
  <2>1. \/ UNCHANGED <<row, members, fingerprint>>
        \/ /\ \A u \in Task : active[u] # a
           /\ row' = [row EXCEPT ![a] = "deleted"]
           /\ members' = {m \in members : m[2] # a}
           /\ fingerprint' = IF fingerprint = a THEN NoAttempt ELSE fingerprint
    BY <1>3 DEF DeleteAttempt
  <2>2. \A b \in Stored : b = a \/ b \in Stored'
    BY <2>1 DEF Stored
  <2>3. UNCHANGED <<row, members, fingerprint>> => Stored' = Stored
    BY DEF Stored
  <2>4. NothingDangles'
    BY <1>3, <2>1, <2>2, <2>3 DEF DeleteAttempt, NothingDangles
  <2>5. JoinersAreProtected'
    BY <1>3 DEF DeleteAttempt, JoinersAreProtected, handler
  <2> QED
    BY <1>1, <2>4, <2>5
<1> QED
  BY <1>2, <1>3

LEMMA NextInv == Inv /\ [Next]_vars => Inv'
<1> SUFFICES ASSUME Inv, [Next]_vars PROVE Inv'
  OBVIOUS
<1>1. CASE UNCHANGED vars
  BY <1>1 DEF vars, handler, Inv, TypeOK, NothingDangles, JoinersAreProtected, Stored
<1>2. ASSUME NEW t \in Task, Decide(t) \/ Execute(t) \/ HandlerDies(t) \/ DeleteRun(t)
      PROVE  Inv'
  BY <1>2, MakingStep, SavingStep, DeletingStep DEF Execute
<1>3. CASE ListOrphans \/ \E a \in Attempt : DeleteAttempt(a)
  BY <1>3, DeletingStep
<1> QED
  BY <1>1, <1>2, <1>3 DEF Next

\* cleanup_orphaned_task_attempts, Run.delete and execute_task together never leave
\* a task, a membership or a fingerprint with an attempt that is gone.
THEOREM NothingDanglesAlways == Spec => []NothingDangles
<1>1. Inv => NothingDangles
  BY DEF Inv
<1> QED
  BY <1>1, InitInv, NextInv, PTL DEF Spec

\* The rows of attempts, tasks, memberships and fingerprints, and what each handler and the
\* collector hold, stay within their types.
THEOREM CollectorTypeCorrect == Spec => []TypeOK
<1>1. Inv => TypeOK
  BY DEF Inv
<1> QED
  BY <1>1, InitInv, NextInv, PTL DEF Spec
=============================================================================
