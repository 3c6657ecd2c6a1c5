------------------------ MODULE OptimisticSaveProofs ------------------------
(***************************************************************************)
(* Proofs about OptimisticSave, for any finite number of processes, any    *)
(* columns and assignments and any number of retries.                      *)
(***************************************************************************)
EXTENDS OptimisticSave, FiniteSetTheorems, TLAPS

\* The conflicts of p, the one it is about to meet included, and what the others have done.
Due(p) == conflicts[p] + (IF pc[p] = "claim" /\ row.change # obj[p].change THEN 1 ELSE 0)
Done(p) == Cardinality(Claimers(p)) + Cardinality(Finishers(p))

\* How many others have claimed and written is a number, and who has written has claimed.
LEMMA DoneFacts ==
  ASSUME NEW p \in Process
  PROVE  /\ Cardinality(Claimers(p)) \in Nat /\ Cardinality(Finishers(p)) \in Nat
         /\ Cardinality(Finishers(p)) <= Cardinality(Claimers(p))
         /\ IsFiniteSet(Claimers(p)) /\ IsFiniteSet(Finishers(p))
<1>1. Claimers(p) \subseteq Process /\ Finishers(p) \subseteq Claimers(p)
  BY DEF Claimers, Finishers, Claimed
<1>2. IsFiniteSet(Claimers(p)) /\ IsFiniteSet(Finishers(p))
  BY <1>1, ProcessAssumption, FS_Subset
<1>3. Cardinality(Finishers(p)) <= Cardinality(Claimers(p))
  BY <1>1, <1>2, FS_Subset
<1>4. Cardinality(Claimers(p)) \in Nat /\ Cardinality(Finishers(p)) \in Nat
  BY <1>2, FS_CardinalityType
<1> QED
  BY <1>2, <1>3, <1>4

\* A handler's object and its row are rows.
LEMMA TypeStep == TypeOK /\ RetriesRunOut /\ [Next]_vars => TypeOK' /\ RetriesRunOut'
<1> SUFFICES ASSUME TypeOK, RetriesRunOut, [Next]_vars PROVE TypeOK' /\ RetriesRunOut'
  OBVIOUS
<1> USE ProcessAssumption, RetriesAssumption DEF TypeOK, Row, RetriesRunOut
<1>1. ASSUME NEW p \in Process PROVE Assigned(p, row) \in Row
  BY DEF Assigned
<1>2. ASSUME NEW p \in Process, Load(p) PROVE TypeOK' /\ RetriesRunOut'
  BY <1>1, <1>2 DEF Load
<1>3. ASSUME NEW p \in Process, Claim(p) PROVE TypeOK' /\ RetriesRunOut'
  <2>1. row' \in Row /\ obj' \in [Process -> Row]
    BY <1>3 DEF Claim
  <2>2. pc' \in [Process -> {"load", "claim", "reload", "write", "done", "returned", "raised"}]
    BY <1>3 DEF Claim
  <2> QED
    BY <1>3, <2>1, <2>2 DEF Claim
<1>4. ASSUME NEW p \in Process, Conflict(p) PROVE TypeOK' /\ RetriesRunOut'
  <2>1. conflicts[p] \in 0..(MaxRetries + 1) /\ conflicts[p] <= MaxRetries
    BY <1>4 DEF Conflict
  <2> QED
    BY <1>4, <2>1 DEF Conflict
<1>5. ASSUME NEW p \in Process, Reload(p) PROVE TypeOK' /\ RetriesRunOut'
  BY <1>1, <1>5 DEF Reload
<1>6. ASSUME NEW p \in Process, Write(p) PROVE TypeOK' /\ RetriesRunOut'
  BY <1>6 DEF Write
<1>7. CASE UNCHANGED vars
  BY <1>7 DEF vars
<1> QED
  BY <1>2, <1>3, <1>4, <1>5, <1>6, <1>7 DEF Next, Step

\* Due and Done of a process change only by a step of one of the two.  A step of another one
\* that touches the row is one more statement done.
LEMMA OthersPay ==
  ASSUME TypeOK, NEW p \in Process, NEW q \in Process \ {p}, Claim(q) \/ Write(q),
         Due(p) <= Done(p)
  PROVE  Due(p)' <= Done(p)'
<1>1. /\ conflicts'[p] = conflicts[p] /\ pc'[p] = pc[p] /\ obj'[p] = obj[p]
      /\ conflicts[p] \in Nat
  BY DEF TypeOK, Claim, Write
<1>2. Due(p) \in Nat /\ Due(p)' \in Nat /\ Due(p)' <= Due(p) + 1
  BY <1>1 DEF Due
<1>3. CASE Claim(q)
  <2>1. Claimers(p)' = Claimers(p) \cup {q} /\ q \notin Claimers(p)
    BY <1>3 DEF Claimers, Claimed, Claim, TypeOK
  <2>2. Finishers(p)' = Finishers(p)
    BY <1>3 DEF Finishers, Claim, TypeOK
  <2>3. Cardinality(Claimers(p)') = Cardinality(Claimers(p)) + 1
    BY <2>1, DoneFacts, FS_AddElement
  <2> QED
    BY <1>2, <2>2, <2>3, DoneFacts DEF Done
<1>4. CASE Write(q)
  <2>1. Claimers(p)' = Claimers(p)
    BY <1>4 DEF Claimers, Claimed, Write, TypeOK
  <2>2. Finishers(p)' = Finishers(p) \cup {q} /\ q \notin Finishers(p)
    BY <1>4 DEF Finishers, Write, TypeOK
  <2>3. Cardinality(Finishers(p)') = Cardinality(Finishers(p)) + 1
    BY <2>2, DoneFacts, FS_AddElement
  <2> QED
    BY <1>2, <2>1, <2>3, DoneFacts DEF Done
<1> QED
  BY <1>3, <1>4

\* Every conflict stays paid for.
LEMMA PaidStep == TypeOK /\ ConflictsArePaid /\ [Next]_vars => ConflictsArePaid'
<1> SUFFICES ASSUME TypeOK, ConflictsArePaid, [Next]_vars, NEW p \in Process
             PROVE  Due(p)' <= Done(p)'
  BY DEF ConflictsArePaid, Due, Done
<1>1. Due(p) <= Done(p)
  BY DEF ConflictsArePaid, Due, Done
<1>2. CASE UNCHANGED vars
  <2>1. Claimers(p)' = Claimers(p) /\ Finishers(p)' = Finishers(p) /\ Due(p)' = Due(p)
    BY <1>2 DEF vars, Claimers, Finishers, Claimed, Due
  <2> QED
    BY <1>1, <2>1 DEF Done
<1>3. ASSUME NEW q \in Process, q # p, Claim(q) \/ Write(q) PROVE Due(p)' <= Done(p)'
  BY <1>1, <1>3, OthersPay
<1>4. ASSUME NEW q \in Process, q # p, Load(q) \/ Conflict(q) \/ Reload(q)
      PROVE  Due(p)' <= Done(p)'
  <2>1. /\ row' = row /\ conflicts'[p] = conflicts[p] /\ pc'[p] = pc[p] /\ obj'[p] = obj[p]
        /\ ~Claimed(q) /\ ~Claimed(q)' /\ \A r \in Process \ {q} : pc'[r] = pc[r]
    BY <1>4 DEF Load, Conflict, Reload, Claimed, TypeOK
  <2>2. Claimers(p)' = Claimers(p) /\ Finishers(p)' = Finishers(p)
    BY <2>1 DEF Claimers, Finishers, Claimed
  <2>3. Due(p)' = Due(p)
    BY <2>1 DEF Due
  <2> QED
    BY <1>1, <2>2, <2>3 DEF Done
<1>5. ASSUME Step(p) PROVE Due(p)' <= Done(p)'
  <2>1. \A q \in Process \ {p} : pc'[q] = pc[q]
    BY <1>5 DEF Step, Load, Claim, Conflict, Reload, Write, TypeOK
  <2>2. Claimers(p)' = Claimers(p) /\ Finishers(p)' = Finishers(p)
    BY <2>1 DEF Claimers, Finishers, Claimed
  <2>3. conflicts[p] \in Nat /\ Due(p)' <= Due(p) /\ Due(p) \in Nat /\ Due(p)' \in Nat
    <3>1. CASE Load(p)
      BY <3>1 DEF Load, Due, TypeOK, Row, Assigned
    <3>2. CASE Claim(p)
      BY <3>2 DEF Claim, Due, TypeOK
    <3>3. CASE Conflict(p)
      BY <3>3 DEF Conflict, Due, TypeOK
    <3>4. CASE Reload(p)
      BY <3>4 DEF Reload, Due, TypeOK, Row, Assigned
    <3>5. CASE Write(p)
      BY <3>5 DEF Write, Due, TypeOK
    <3> QED
      BY <1>5, <3>1, <3>2, <3>3, <3>4, <3>5 DEF Step
  <2> QED
    BY <1>1, <2>2, <2>3, DoneFacts DEF Done
<1> QED
  BY <1>2, <1>3, <1>4, <1>5 DEF Next, Step

\* At the beginning nobody has met a conflict.
LEMMA InitIInv == Init => IInv
<1> SUFFICES ASSUME Init PROVE IInv
  OBVIOUS
<1>1. TypeOK /\ RetriesRunOut
  BY RetriesAssumption DEF Init, TypeOK, RetriesRunOut, Row
<1>2. ConflictsArePaid
  <2> SUFFICES ASSUME NEW p \in Process
               PROVE  Due(p) <= Done(p)
    BY DEF ConflictsArePaid, Due, Done
  <2>1. Due(p) = 0
    BY DEF Init, Due
  <2> QED
    BY <2>1, DoneFacts DEF Done
<1> QED
  BY <1>1, <1>2 DEF IInv

LEMMA Inductive == IInv /\ [Next]_vars => IInv'
  BY TypeStep, PaidStep DEF IInv

\* Saves with retries keep the inductive invariant, for any number of savers.
THEOREM SaveInvariance == Spec => []IInv
  BY InitIInv, Inductive, PTL DEF Spec

\* The row, the objects, and the counted conflicts of setattrs_and_save_with_retries stay
\* within their types; no call meets more than max_retries + 1 of them.
THEOREM SaveTypeCorrect == Spec => []TypeOK
<1>1. IInv => TypeOK
  BY DEF IInv
<1> QED
  BY <1>1, SaveInvariance, PTL

\* BaseModel.save: each other process that gets through costs a call at most two conflicts,
\* for any number of savers.
THEOREM ConflictsCorrect == Spec => []ConflictsComeFromOthers
<1>1. IInv => ConflictsComeFromOthers
  <2> SUFFICES ASSUME TypeOK, NEW p \in Process, Due(p) <= Done(p)
               PROVE  conflicts[p] <= 2 * Cardinality(Claimers(p))
    BY DEF IInv, ConflictsArePaid, ConflictsComeFromOthers, Due, Done
  <2>1. conflicts[p] \in Nat /\ conflicts[p] <= Due(p)
    BY DEF TypeOK, Due
  <2> QED
    BY <2>1, DoneFacts DEF Done, Due
<1> QED
  BY <1>1, SaveInvariance, PTL
=============================================================================
