--------------------------- MODULE RunTreeProofs ---------------------------
(***************************************************************************)
(* What the closed forms of RunTree do to the statuses of the runs, and    *)
(* that the calls of RunTreeRecursion come to the closed forms, for every  *)
(* forest of runs.  The argument is the same for each method: the closed   *)
(* form solves the equation by which the recursion is defined, and since   *)
(* every call ends (up the tree, or with fewer runs that can still be      *)
(* killed) nothing else does.                                              *)
(***************************************************************************)
EXTENDS RunTreeRecursion, Induction

-----------------------------------------------------------------------------
(* Closures.                                                                *)

\* The way up stays inside the set it is confined to.
LEMMA UpFromInside ==
  ASSUME NEW S, NEW r
  PROVE  UpFrom(S, r) \subseteq S
BY DEF UpFrom

\* The way up starts at its start and goes on to the parent while that is in S.
LEMMA UpFromClosed ==
  ASSUME NEW S, NEW r \in S
  PROVE  /\ r \in UpFrom(S, r)
         /\ \A y \in UpFrom(S, r) : Parent[y] \in S => Parent[y] \in UpFrom(S, r)
BY DEF UpFrom

\* More room, more runs on the way up (FailedBy, confined to the live runs, against
\* the ancestors in the whole tree).
LEMMA UpFromMonotone ==
  ASSUME NEW T, NEW S \in SUBSET T, NEW r
  PROVE  UpFrom(S, r) \subseteq UpFrom(T, r)
<1> SUFFICES ASSUME NEW x \in UpFrom(S, r),
                    NEW C \in SUBSET T,
                    r \in C,
                    \A y \in C : Parent[y] \in T => Parent[y] \in C
             PROVE  x \in C
  BY DEF UpFrom
<1> DEFINE D == C \cap S
<1>1. D \in SUBSET S /\ r \in D
  BY DEF UpFrom
<1>2. \A y \in D : Parent[y] \in S => Parent[y] \in D
  OBVIOUS
<1>3. x \in D
  BY <1>1, <1>2 DEF UpFrom
<1> QED
  BY <1>3

\* A run other than the start is on the way up only because one of its steps is:
\* Run.finish and Run.fail reach a parent from a step.
LEMMA UpFromThroughAStep ==
  ASSUME NEW S \in SUBSET Run, NEW r, NEW x \in UpFrom(S, r), x # r
  PROVE  \E y \in UpFrom(S, r) : y \in Steps(x)
<1> SUFFICES ASSUME \A y \in UpFrom(S, r) : Parent[y] # x
             PROVE  FALSE
  BY UpFromInside DEF Steps
<1> DEFINE C == UpFrom(S, r) \ {x}
<1>1. r \in S
  BY DEF UpFrom
<1>2. C \in SUBSET S /\ r \in C
  BY <1>1, UpFromInside, UpFromClosed
<1>3. \A y \in C : Parent[y] \in S => Parent[y] \in C
  BY <1>1, UpFromClosed
<1> HIDE DEF C
<1>4. x \in C
  BY <1>2, <1>3 DEF UpFrom
<1> QED
  BY <1>4 DEF C

LEMMA ConnectedInside ==
  ASSUME NEW S, NEW r
  PROVE  Connected(S, r) \subseteq S
BY DEF Connected

-----------------------------------------------------------------------------
(* What one call writes.                                                    *)

\* Every cascade keeps the terminal columns that are on, turns at most one on, and
\* only in rows that had none.
Outcomes(old, new) ==
  \A r \in Run : \/ new[r] \cap TerminalFlag = old[r] \cap TerminalFlag
                 \/ /\ ~Terminal(old[r])
                    /\ \E f \in TerminalFlag : new[r] \cap TerminalFlag = {f}

LEMMA FinishRunOutcomes ==
  ASSUME NEW rs \in RunStatus, NEW r \in Run
  PROVE  FinishRun(rs, r) \in RunStatus /\ Outcomes(rs, FinishRun(rs, r))
<1>1. FinishedBy(rs, r) \subseteq Live(rs)
  BY UpFromInside DEF FinishedBy
<1>2. FinishRun(rs, r) \in RunStatus
  BY DEF FinishRun, RunStatus, Ended, RunFlag, TerminalFlag
<1>3. ASSUME NEW x \in Run
      PROVE  \/ FinishRun(rs, r)[x] \cap TerminalFlag = rs[x] \cap TerminalFlag
             \/ /\ ~Terminal(rs[x])
                /\ FinishRun(rs, r)[x] \cap TerminalFlag = {"finished"}
  BY <1>1 DEF FinishRun, Live, Terminal, Ended, TerminalFlag
<1> QED
  BY <1>2, <1>3 DEF Outcomes, TerminalFlag

LEMMA FailRunOutcomes ==
  ASSUME NEW rs \in RunStatus, NEW r \in Run
  PROVE  FailRun(rs, r) \in RunStatus /\ Outcomes(rs, FailRun(rs, r))
<1>1. FailedBy(rs, r) \subseteq Live(rs)
  BY UpFromInside DEF FailedBy
<1>2. KilledByFailure(rs, r) \subseteq Live(rs)
  BY ConnectedInside DEF KilledByFailure
<1>3. FailRun(rs, r) \in RunStatus
  BY DEF FailRun, RunStatus, Ended, RunFlag, TerminalFlag
<1>4. ASSUME NEW x \in Run
      PROVE  \/ FailRun(rs, r)[x] \cap TerminalFlag = rs[x] \cap TerminalFlag
             \/ /\ ~Terminal(rs[x])
                /\ \/ FailRun(rs, r)[x] \cap TerminalFlag = {"failed"}
                   \/ FailRun(rs, r)[x] \cap TerminalFlag = {"killed"}
  BY <1>1, <1>2 DEF FailRun, Live, Terminal, Ended, TerminalFlag
<1> QED
  BY <1>3, <1>4 DEF Outcomes, TerminalFlag

LEMMA KillRunOutcomes ==
  ASSUME NEW rs \in RunStatus, NEW r \in Run
  PROVE  KillRun(rs, r) \in RunStatus /\ Outcomes(rs, KillRun(rs, r))
<1>1. KilledBy(rs, r) \subseteq Live(rs)
  BY ConnectedInside DEF KilledBy
<1>2. KillRun(rs, r) \in RunStatus
  BY DEF KillRun, RunStatus, Ended, RunFlag, TerminalFlag
<1>3. ASSUME NEW x \in Run
      PROVE  \/ KillRun(rs, r)[x] \cap TerminalFlag = rs[x] \cap TerminalFlag
             \/ /\ ~Terminal(rs[x])
                /\ KillRun(rs, r)[x] \cap TerminalFlag = {"killed"}
  BY <1>1 DEF KillRun, Live, Terminal, Ended, TerminalFlag
<1> QED
  BY <1>2, <1>3 DEF Outcomes, TerminalFlag

\* set_running_status touches no terminal column.
LEMMA StartRunsOutcomes ==
  ASSUME NEW rs \in RunStatus, NEW R
  PROVE  /\ StartRuns(rs, R) \in RunStatus
         /\ \A x \in Run : StartRuns(rs, R)[x] \cap TerminalFlag = rs[x] \cap TerminalFlag
BY DEF StartRuns, RunStatus, Started, RunFlag, TerminalFlag

\* Run.finish leaves no run finished above a step that is not: every run it marks
\* other than the first has all its steps finished afterwards.
THEOREM FinishRunComplete ==
  ASSUME NEW rs \in RunStatus, NEW r \in Run,
         NEW x \in FinishedBy(rs, r), x # r,
         NEW s \in Steps(x)
  PROVE  "finished" \in FinishRun(rs, r)[s]
<1> DEFINE S == {y \in Live(rs) : y = r \/ OnlyOneStepLeft(rs, y)}
<1>1. x \in UpFrom(S, r) /\ S \in SUBSET Run
  BY DEF FinishedBy, Live
<1>2. x \in S
  BY <1>1, UpFromInside
<1>3. PICK z \in Steps(x) : \A y \in Steps(x) \ {z} : "finished" \in rs[y]
  BY <1>2 DEF OnlyOneStepLeft
<1>4. PICK y \in FinishedBy(rs, r) : y \in Steps(x)
  BY <1>1, UpFromThroughAStep DEF FinishedBy
<1>5. y \in Live(rs)
  BY <1>4, UpFromInside DEF FinishedBy
<1>6. "finished" \notin rs[y]
  BY <1>5 DEF Live, Terminal, TerminalFlag
<1>7. y = z
  BY <1>3, <1>4, <1>6
<1>8. s \in Run
  BY DEF Steps
<1>9. CASE s = z
  BY <1>4, <1>7, <1>8, <1>9 DEF FinishRun, Ended
<1>10. CASE s # z
  <2>1. "finished" \in rs[s]
    BY <1>3, <1>10
  <2> QED
    BY <2>1, <1>8 DEF FinishRun, Ended
<1> QED
  BY <1>9, <1>10

\* Run.fail marks failed only the run it is called on and runs above it.
THEOREM FailRunUpwards ==
  ASSUME NEW rs \in RunStatus, NEW r \in Run, NEW x \in Run,
         "failed" \in FailRun(rs, r)[x], "failed" \notin rs[x]
  PROVE  x \in UpFrom(Run, r)
<1>1. x \in FailedBy(rs, r)
  BY DEF FailRun, Ended
<1>2. Live(rs) \in SUBSET Run
  BY DEF Live
<1> QED
  BY <1>1, <1>2, UpFromMonotone DEF FailedBy

-----------------------------------------------------------------------------
(* Induction up the tree.                                                   *)

\* What holds of a run when it is topmost or when it holds of its parent holds of all.
LEMMA UpTheTree ==
  ASSUME NEW S, \A r \in Run : IsTopmost(r) \/ Parent[r] \in S => r \in S
  PROVE  Run \subseteq S
<1> DEFINE C == Run \ S
<1> SUFFICES ASSUME C # {} PROVE FALSE
  OBVIOUS
<1>1. PICK r \in C : Parent[r] \notin C
  BY ParentAssumption
<1>2. Parent[r] \in Run \cup {NoRun}
  BY ParentAssumption
<1> QED
  BY <1>1, <1>2 DEF IsTopmost

LEMMA ParentIsRun ==
  ASSUME NEW r \in Run
  PROVE  /\ ~IsTopmost(r) => Parent[r] \in Run /\ r \in Steps(Parent[r])
         /\ IsTopmost(r) => Parent[r] \notin Run
BY ParentAssumption DEF IsTopmost, Steps

LEMMA UpFromNowhere ==
  ASSUME NEW S, NEW r, r \notin S
  PROVE  UpFrom(S, r) = {}
BY DEF UpFrom

LEMMA UpFromLeast ==
  ASSUME NEW S, NEW r, NEW C \in SUBSET S,
         r \in C, \A y \in C : Parent[y] \in S => Parent[y] \in C
  PROVE  UpFrom(S, r) \subseteq C
BY DEF UpFrom

LEMMA UpFromStep ==
  ASSUME NEW S, NEW r \in S
  PROVE  UpFrom(S, r) = {r} \cup UpFrom(S, Parent[r])
<1> DEFINE U == UpFrom(S, r)
           V == UpFrom(S, Parent[r])
<1>1. U \subseteq S /\ V \subseteq S
  BY UpFromInside
<1>2. r \in U /\ \A y \in U : Parent[y] \in S => Parent[y] \in U
  BY UpFromClosed
<1>3. Parent[r] \in S => Parent[r] \in V /\ \A y \in V : Parent[y] \in S => Parent[y] \in V
  BY UpFromClosed
<1>4. Parent[r] \notin S => V = {}
  BY UpFromNowhere
<1>5. V \subseteq U
  <2>1. CASE Parent[r] \in S
    <3>1. Parent[r] \in U
      BY <1>2, <2>1
    <3> QED
      BY <1>1, <1>2, <3>1, UpFromLeast
  <2> QED
    BY <1>4, <2>1
<1>6. U \subseteq {r} \cup V
  <2> DEFINE C == {r} \cup V
  <2>1. C \in SUBSET S /\ r \in C
    BY <1>1
  <2>2. \A y \in C : Parent[y] \in S => Parent[y] \in C
    BY <1>3, <1>4
  <2> HIDE DEF C
  <2>3. U \subseteq C
    BY <2>1, <2>2, UpFromLeast
  <2> QED
    BY <2>3 DEF C
<1> QED
  BY <1>2, <1>5, <1>6

\* No run is above itself.
LEMMA NotAboveItself ==
  ASSUME NEW r \in Run
  PROVE  r \notin UpFrom(Run, Parent[r])
<1> DEFINE S == {x \in Run : x \notin UpFrom(Run, Parent[x])}
<1>1. ASSUME NEW x \in Run, IsTopmost(x) \/ Parent[x] \in S PROVE x \in S
  <2>1. CASE IsTopmost(x)
    BY <2>1, ParentIsRun, UpFromNowhere
  <2>2. CASE Parent[x] \in S
    <3> DEFINE p == Parent[x]
    <3>1. p \in Run /\ p \notin UpFrom(Run, Parent[p])
      BY <2>2
    <3>2. UpFrom(Run, p) = {p} \cup UpFrom(Run, Parent[p])
      BY <3>1, UpFromStep
    <3>3. x # p
      BY <3>1, UpFromClosed, UpFromStep
    <3>4. x \notin UpFrom(Run, Parent[p])
      <4> SUFFICES ASSUME x \in UpFrom(Run, Parent[p]) PROVE FALSE
        OBVIOUS
      <4>1. Parent[p] \in Run
        BY UpFromNowhere
      <4>2. p \in UpFrom(Run, Parent[p])
        BY <3>1, <4>1, UpFromClosed
      <4> QED
        BY <3>1, <4>2
    <3> QED
      BY <3>2, <3>3, <3>4
  <2> QED
    BY <1>1, <2>1, <2>2
<1> HIDE DEF S
<1>2. Run \subseteq S
  BY <1>1, UpTheTree
<1> QED
  BY <1>2 DEF S

\* The way up from the parent does not depend on the run itself.
LEMMA UpFromWithout ==
  ASSUME NEW S \in SUBSET Run, NEW r \in Run
  PROVE  UpFrom(S \ {r}, Parent[r]) = UpFrom(S, Parent[r]) /\ r \notin UpFrom(S, Parent[r])
<1> DEFINE p == Parent[r]
           D == UpFrom(S, p)
           E == UpFrom(S \ {r}, p)
<1>1. D \subseteq UpFrom(Run, p) /\ E \subseteq D /\ D \subseteq S /\ E \subseteq S \ {r}
  BY UpFromMonotone, UpFromInside
<1>2. r \notin D
  BY <1>1, NotAboveItself
<1>3. D \subseteq E
  <2>1. CASE p \in S
    <3>1. p \in D /\ \A y \in D : Parent[y] \in S => Parent[y] \in D
      BY <2>1, UpFromClosed
    <3>2. p \in S \ {r}
      BY <1>2, <2>1, <3>1
    <3>3. p \in E /\ \A y \in E : Parent[y] \in S \ {r} => Parent[y] \in E
      BY <3>2, UpFromClosed
    <3>4. \A y \in E : Parent[y] \in S => Parent[y] \in E
      BY <1>1, <1>2, <3>1, <3>3
    <3> QED
      BY <1>1, <3>3, <3>4, UpFromLeast
  <2> QED
    BY <2>1, UpFromNowhere
<1> QED
  BY <1>1, <1>2, <1>3

-----------------------------------------------------------------------------
(* Run.finish.                                                              *)

\* A row of the table after it has been written.
LEMMA RowWritten ==
  ASSUME NEW rs \in RunStatus, NEW r \in Run, NEW value \in SUBSET RunFlag
  PROVE  /\ [rs EXCEPT ![r] = value] \in RunStatus
         /\ [rs EXCEPT ![r] = value][r] = value
         /\ \A x \in Run : x # r => [rs EXCEPT ![r] = value][x] = rs[x]
BY DEF RunStatus

LEMMA EndedStatus ==
  ASSUME NEW rs \in RunStatus, NEW r \in Run, NEW flag \in TerminalFlag
  PROVE  /\ [rs EXCEPT ![r] = Ended(@, flag)] \in RunStatus
         /\ [rs EXCEPT ![r] = Ended(@, flag)][r] = Ended(rs[r], flag)
         /\ \A x \in Run : x # r => [rs EXCEPT ![r] = Ended(@, flag)][x] = rs[x]
         /\ Live([rs EXCEPT ![r] = Ended(@, flag)]) = Live(rs) \ {r}
<1>1. rs[r] \in SUBSET RunFlag /\ Ended(rs[r], flag) \in SUBSET RunFlag
  BY DEF RunStatus, Ended, RunFlag
<1> DEFINE after == [rs EXCEPT ![r] = Ended(@, flag)]
<1>2. after = [rs EXCEPT ![r] = Ended(rs[r], flag)]
  OBVIOUS
<1>3. /\ after \in RunStatus /\ after[r] = Ended(rs[r], flag)
      /\ \A x \in Run : x # r => after[x] = rs[x]
  BY <1>1, <1>2, RowWritten
<1> HIDE DEF after
<1>4. Terminal(after[r])
  BY <1>3 DEF Terminal, Ended
<1>5. Live(after) = Live(rs) \ {r}
  BY <1>3, <1>4 DEF Live
<1> QED
  BY <1>3, <1>5 DEF after

FinishStep(g, rs, r) ==
  LET after == [rs EXCEPT ![r] = Ended(@, "finished")]
  IN  IF Terminal(rs[r]) THEN rs
      ELSE IF ~IsTopmost(r) /\ \A s \in Steps(Parent[r]) : "finished" \in after[s]
      THEN g[<<after, Parent[r]>>]
      ELSE after

\* The closed form solves the equation of the recursion.
LEMMA FinishRunSolves ==
  ASSUME NEW rs \in RunStatus, NEW r \in Run,
         NEW g, \A x \in Run, st \in RunStatus : g[<<st, x>>] = FinishRun(st, x)
  PROVE  FinishRun(rs, r) = FinishStep(g, rs, r)
<1> DEFINE after == [rs EXCEPT ![r] = Ended(@, "finished")]
           p == Parent[r]
           S == {x \in Live(rs) : x = r \/ OnlyOneStepLeft(rs, x)}
           T == {x \in Live(after) : x = p \/ OnlyOneStepLeft(after, x)}
<1>1. /\ after \in RunStatus /\ after[r] = Ended(rs[r], "finished")
      /\ \A x \in Run : x # r => after[x] = rs[x]
      /\ Live(after) = Live(rs) \ {r}
  BY EndedStatus DEF TerminalFlag
<1>2. FinishedBy(rs, r) = UpFrom(S, r) /\ FinishedBy(after, p) = UpFrom(T, p)
  BY DEF FinishedBy
<1>3. FinishRun(rs, r) \in RunStatus
  BY FinishRunOutcomes
<1>4. \A x \in Run : FinishRun(rs, r)[x] = IF x \in UpFrom(S, r) THEN Ended(rs[x], "finished") ELSE rs[x]
  BY <1>2 DEF FinishRun
<1>5. S \in SUBSET Run /\ (r \in S <=> ~Terminal(rs[r]))
  BY DEF Live
<1>6. \A x \in Run : x \in T <=> x \in Live(after) /\ (x = p \/ OnlyOneStepLeft(after, x))
  BY DEF Live
<1>7. \A x \in Run : x # r => (x \in S <=> x \in Live(rs) /\ OnlyOneStepLeft(rs, x))
  OBVIOUS
<1>8. T \in SUBSET Run
  BY DEF Live
<1> HIDE DEF after, S, T
<1>9. CASE Terminal(rs[r])
  <2>1. UpFrom(S, r) = {}
    BY <1>5, <1>9, UpFromNowhere
  <2>2. FinishRun(rs, r) = rs
    BY <1>3, <1>4, <2>1 DEF RunStatus
  <2> QED
    BY <1>9, <2>2 DEF FinishStep
<1>10. CASE ~Terminal(rs[r])
  <2>1. UpFrom(S, r) = {r} \cup UpFrom(S, p) /\ r \notin UpFrom(S, p)
    BY <1>5, <1>10, UpFromStep, UpFromWithout
  <2>2. "finished" \notin rs[r] /\ "finished" \in after[r]
    BY <1>1, <1>10 DEF Terminal, TerminalFlag, Ended
  <2>3. CASE ~IsTopmost(r) /\ \A s \in Steps(p) : "finished" \in after[s]
    <3>1. p \in Run /\ r \in Steps(p) /\ Steps(p) \subseteq Run
      BY <2>3, ParentIsRun DEF Steps
    <3>2. OnlyOneStepLeft(rs, p)
      <4>1. \A z \in Steps(p) \ {r} : "finished" \in rs[z]
        BY <1>1, <2>3, <3>1
      <4> QED
        BY <3>1, <4>1 DEF OnlyOneStepLeft
    <3>3. ASSUME NEW x \in Run, x # p PROVE OnlyOneStepLeft(rs, x) <=> OnlyOneStepLeft(after, x)
      <4>1. \A z \in Steps(x) : z \in Run /\ z # r
        BY <3>3 DEF Steps
      <4>2. \A z \in Steps(x) : after[z] = rs[z]
        BY <1>1, <4>1
      <4> QED
        BY <4>2 DEF OnlyOneStepLeft
    <3>4. T = S \ {r}
      <4>1. \A x \in Run : x \in T <=> x \in S \ {r}
        BY <1>1, <1>6, <1>7, <3>2, <3>3
      <4> QED
        BY <1>5, <1>8, <4>1
    <3>5. UpFrom(T, p) = UpFrom(S, p)
      BY <1>5, <3>4, UpFromWithout
    <3>6. FinishRun(after, p) \in RunStatus
      BY <1>1, <3>1, FinishRunOutcomes
    <3>7. \A x \in Run : FinishRun(after, p)[x]
                         = IF x \in UpFrom(T, p) THEN Ended(after[x], "finished") ELSE after[x]
      BY <1>2 DEF FinishRun
    <3>8. \A x \in Run : FinishRun(rs, r)[x] = FinishRun(after, p)[x]
      BY <1>1, <1>4, <2>1, <3>5, <3>7
    <3>9. FinishRun(rs, r) = FinishRun(after, p)
      BY <1>3, <3>6, <3>8 DEF RunStatus
    <3> QED
      BY <1>1, <1>10, <2>3, <3>1, <3>9 DEF FinishStep, after
  <2>4. CASE ~(~IsTopmost(r) /\ \A s \in Steps(p) : "finished" \in after[s])
    <3>1. p \notin S
      <4>1. CASE IsTopmost(r)
        BY <1>5, <4>1, ParentIsRun
      <4>2. CASE ~IsTopmost(r)
        <5>1. p \in Run /\ r \in Steps(p) /\ Steps(p) \subseteq Run
          BY <4>2, ParentIsRun DEF Steps
        <5>2. PICK s \in Steps(p) : "finished" \notin after[s]
          BY <2>4, <4>2
        <5>3. s # r /\ "finished" \notin rs[s]
          BY <1>1, <2>2, <5>1, <5>2
        <5>4. ~OnlyOneStepLeft(rs, p)
          BY <2>2, <5>1, <5>3 DEF OnlyOneStepLeft
        <5>5. p # r
          BY <1>5, <1>10, <2>1, <5>1, UpFromClosed
        <5> QED
          BY <1>7, <5>1, <5>4, <5>5
      <4> QED
        BY <4>1, <4>2
    <3>2. UpFrom(S, r) = {r}
      BY <2>1, <3>1, UpFromNowhere
    <3>3. \A x \in Run : FinishRun(rs, r)[x] = after[x]
      BY <1>1, <1>4, <3>2
    <3>4. FinishRun(rs, r) = after
      BY <1>1, <1>3, <3>3 DEF RunStatus
    <3> QED
      BY <1>10, <2>4, <3>4 DEF FinishStep, after
  <2> QED
    BY <2>3, <2>4
<1> QED
  BY <1>9, <1>10

THEOREM FinishCallIsFinishRun ==
  ASSUME NEW rs \in RunStatus, NEW r \in Run
  PROVE  FinishCall[<<rs, r>>] = FinishRun(rs, r)
<1> DEFINE Rec(f) == [at \in RunStatus \X Run |-> FinishStep(f, at[1], at[2])]
           G == [at \in RunStatus \X Run |-> FinishRun(at[1], at[2])]
           R == CHOOSE f : f = Rec(f)
<1>1. \A x \in Run, st \in RunStatus : G[<<st, x>>] = FinishRun(st, x)
  OBVIOUS
<1>2. G = Rec(G)
  <2>1. \A at \in RunStatus \X Run : at[1] \in RunStatus /\ at[2] \in Run
    OBVIOUS
  <2> HIDE DEF G
  <2>2. \A st \in RunStatus, x \in Run : FinishRun(st, x) = FinishStep(G, st, x)
    BY <1>1, FinishRunSolves
  <2> QED
    BY <2>1, <2>2 DEF G
<1> HIDE DEF G
<1>3. FinishCall = R
  BY DEF FinishCall, FinishStep
<1>4. R = Rec(R)
  <2> HIDE DEF Rec
  <2> QED
    BY <1>2
<1> HIDE DEF R
<1>5. \A st \in RunStatus, x \in Run : R[<<st, x>>] = FinishStep(R, st, x)
  BY <1>4
<1> HIDE DEF Rec
<1> DEFINE Good(x) == \A st \in RunStatus : R[<<st, x>>] = FinishRun(st, x)
           S == {x \in Run : Good(x)}
<1>6. ASSUME NEW x \in Run, IsTopmost(x) \/ Parent[x] \in S PROVE x \in S
  <2> SUFFICES ASSUME NEW st \in RunStatus PROVE R[<<st, x>>] = FinishRun(st, x)
    OBVIOUS
  <2> DEFINE after == [st EXCEPT ![x] = Ended(@, "finished")]
  <2>1. R[<<st, x>>] = FinishStep(R, st, x)
    BY <1>5
  <2>2. FinishRun(st, x) = FinishStep(G, st, x)
    BY <1>1, FinishRunSolves
  <2>3. after \in RunStatus
    BY EndedStatus DEF TerminalFlag
  <2>4. ~IsTopmost(x) => R[<<after, Parent[x]>>] = G[<<after, Parent[x]>>]
    BY <1>1, <1>6, <2>3
  <2> QED
    BY <2>1, <2>2, <2>4 DEF FinishStep
<1> HIDE DEF S
<1>7. Run \subseteq S
  BY <1>6, UpTheTree
<1> QED
  BY <1>3, <1>7 DEF S

-----------------------------------------------------------------------------
(* Run.set_running_status.                                                  *)

SetRunningStep(g, rs, r) ==
  LET after == [rs EXCEPT ![r] = Started(@)]
  IN  IF "running" \in rs[r] /\ "waiting" \notin rs[r] THEN rs
      ELSE IF IsTopmost(r) THEN after
      ELSE g[<<after, Parent[r]>>]

NotRunning(rs) == {x \in Run : ~("running" \in rs[x] /\ "waiting" \notin rs[x])}

LEMMA StartedStatus ==
  ASSUME NEW rs \in RunStatus, NEW r \in Run
  PROVE  /\ [rs EXCEPT ![r] = Started(@)] \in RunStatus
         /\ [rs EXCEPT ![r] = Started(@)][r] = Started(rs[r])
         /\ \A x \in Run : x # r => [rs EXCEPT ![r] = Started(@)][x] = rs[x]
<1>1. Started(rs[r]) \in SUBSET RunFlag
  BY DEF RunStatus, Started, RunFlag
<1>2. [rs EXCEPT ![r] = Started(@)] = [rs EXCEPT ![r] = Started(rs[r])]
  OBVIOUS
<1> QED
  BY <1>1, <1>2, RowWritten

LEMMA RunningOnceStarted ==
  \A value : "running" \in Started(value) /\ "waiting" \notin Started(value)
BY DEF Started

LEMMA StartOne ==
  ASSUME NEW rs, NEW r, NEW x \in Run
  PROVE  StartRuns(rs, {r})[x] = IF x \in UpFrom(NotRunning(rs), r) THEN Started(rs[x]) ELSE rs[x]
BY DEF StartRuns, StartedBy, NotRunning

LEMMA StartRunsSolves ==
  ASSUME NEW rs \in RunStatus, NEW r \in Run,
         NEW g, \A x \in Run, st \in RunStatus : g[<<st, x>>] = StartRuns(st, {x})
  PROVE  StartRuns(rs, {r}) = SetRunningStep(g, rs, r)
<1> DEFINE after == [rs EXCEPT ![r] = Started(@)]
           p == Parent[r]
           S == NotRunning(rs)
           T == NotRunning(after)
<1>1. /\ after \in RunStatus /\ after[r] = Started(rs[r])
      /\ \A x \in Run : x # r => after[x] = rs[x]
  BY StartedStatus
<1> HIDE DEF after
<1>2. StartRuns(rs, {r}) \in RunStatus
  BY StartRunsOutcomes
<1>3. \A x \in Run : StartRuns(rs, {r})[x] = IF x \in UpFrom(S, r) THEN Started(rs[x]) ELSE rs[x]
  BY StartOne
<1>4. S \in SUBSET Run /\ (r \in S <=> ~("running" \in rs[r] /\ "waiting" \notin rs[r]))
  BY DEF NotRunning
<1>5. T = S \ {r}
  BY <1>1, RunningOnceStarted DEF NotRunning
<1> HIDE DEF S, T
<1>6. CASE r \notin S
  <2>1. UpFrom(S, r) = {}
    BY <1>6, UpFromNowhere
  <2>2. StartRuns(rs, {r}) = rs
    BY <1>2, <1>3, <2>1 DEF RunStatus
  <2> QED
    BY <1>4, <1>6, <2>2 DEF SetRunningStep
<1>7. CASE r \in S
  <2>1. UpFrom(S, r) = {r} \cup UpFrom(S, p) /\ r \notin UpFrom(S, p)
    BY <1>4, <1>7, UpFromStep, UpFromWithout
  <2>2. CASE IsTopmost(r)
    <3>1. UpFrom(S, p) = {}
      BY <1>4, <2>2, ParentIsRun, UpFromNowhere
    <3>2. \A x \in Run : StartRuns(rs, {r})[x] = after[x]
      BY <1>1, <1>3, <2>1, <3>1
    <3>3. StartRuns(rs, {r}) = after
      BY <1>1, <1>2, <3>2 DEF RunStatus
    <3> QED
      BY <1>4, <1>7, <2>2, <3>3 DEF SetRunningStep, after
  <2>3. CASE ~IsTopmost(r)
    <3>1. p \in Run
      BY <2>3, ParentIsRun
    <3>2. UpFrom(T, p) = UpFrom(S, p)
      BY <1>4, <1>5, UpFromWithout
    <3>3. StartRuns(after, {p}) \in RunStatus
      BY <1>1, StartRunsOutcomes
    <3>4. \A x \in Run : StartRuns(after, {p})[x]
                         = IF x \in UpFrom(S, p) THEN Started(after[x]) ELSE after[x]
      BY <3>2, StartOne DEF T
    <3>5. \A x \in Run : StartRuns(rs, {r})[x] = StartRuns(after, {p})[x]
      BY <1>1, <1>3, <2>1, <3>4
    <3>6. StartRuns(rs, {r}) = StartRuns(after, {p})
      BY <1>2, <3>3, <3>5 DEF RunStatus
    <3> QED
      BY <1>1, <1>4, <1>7, <2>3, <3>1, <3>6 DEF SetRunningStep, after
  <2> QED
    BY <2>2, <2>3
<1> QED
  BY <1>6, <1>7

LEMMA SetRunningCallIsStartRuns ==
  ASSUME NEW rs \in RunStatus, NEW r \in Run
  PROVE  SetRunningCall[<<rs, r>>] = StartRuns(rs, {r})
<1> DEFINE Rec(f) == [at \in RunStatus \X Run |-> SetRunningStep(f, at[1], at[2])]
           G == [at \in RunStatus \X Run |-> StartRuns(at[1], {at[2]})]
           R == CHOOSE f : f = Rec(f)
<1>1. \A x \in Run, st \in RunStatus : G[<<st, x>>] = StartRuns(st, {x})
  OBVIOUS
<1>2. G = Rec(G)
  <2>1. \A at \in RunStatus \X Run : at[1] \in RunStatus /\ at[2] \in Run
    OBVIOUS
  <2> HIDE DEF G
  <2>2. \A st \in RunStatus, x \in Run : StartRuns(st, {x}) = SetRunningStep(G, st, x)
    BY <1>1, StartRunsSolves
  <2> QED
    BY <2>1, <2>2 DEF G
<1> HIDE DEF G
<1>3. SetRunningCall = R
  BY DEF SetRunningCall, SetRunningStep
<1>4. R = Rec(R)
  <2> HIDE DEF Rec
  <2> QED
    BY <1>2
<1> HIDE DEF R
<1>5. \A st \in RunStatus, x \in Run : R[<<st, x>>] = SetRunningStep(R, st, x)
  BY <1>4
<1> HIDE DEF Rec
<1> DEFINE Good(x) == \A st \in RunStatus : R[<<st, x>>] = StartRuns(st, {x})
           S == {x \in Run : Good(x)}
<1>6. ASSUME NEW x \in Run, IsTopmost(x) \/ Parent[x] \in S PROVE x \in S
  <2> SUFFICES ASSUME NEW st \in RunStatus PROVE R[<<st, x>>] = StartRuns(st, {x})
    OBVIOUS
  <2> DEFINE after == [st EXCEPT ![x] = Started(@)]
  <2>1. R[<<st, x>>] = SetRunningStep(R, st, x)
    BY <1>5
  <2>2. StartRuns(st, {x}) = SetRunningStep(G, st, x)
    BY <1>1, StartRunsSolves
  <2>3. after \in RunStatus
    BY StartedStatus
  <2>4. ~IsTopmost(x) => R[<<after, Parent[x]>>] = G[<<after, Parent[x]>>]
    BY <1>1, <1>6, <2>3
  <2> QED
    BY <2>1, <2>2, <2>4 DEF SetRunningStep
<1> HIDE DEF S
<1>7. Run \subseteq S
  BY <1>6, UpTheTree
<1> QED
  BY <1>3, <1>7 DEF S

\* One call after another, for two runs.
LEMMA StartRunsInTurn ==
  ASSUME NEW rs \in RunStatus, NEW r \in Run, NEW s \in Run
  PROVE  StartRuns(StartRuns(rs, {r}), {s}) = StartRuns(rs, {r, s})
<1> DEFINE S == NotRunning(rs)
           mid == StartRuns(rs, {r})
           U == UpFrom(S, r)
           V == UpFrom(S, s)
           W == UpFrom(S \ U, s)
<1>1. mid \in RunStatus /\ StartRuns(mid, {s}) \in RunStatus /\ StartRuns(rs, {r, s}) \in RunStatus
  BY StartRunsOutcomes
<1>2. \A x \in Run : mid[x] = IF x \in U THEN Started(rs[x]) ELSE rs[x]
  BY StartOne
<1>3. \A x \in Run : StartRuns(rs, {r, s})[x] = IF x \in U \cup V THEN Started(rs[x]) ELSE rs[x]
  BY DEF StartRuns, StartedBy, NotRunning
<1> HIDE DEF mid
<1>4. NotRunning(mid) = S \ U
  BY <1>2, RunningOnceStarted DEF NotRunning
<1>5. \A x \in Run : StartRuns(mid, {s})[x] = IF x \in W THEN Started(mid[x]) ELSE mid[x]
  BY <1>4, StartOne
<1> HIDE DEF S
<1>6. U \subseteq S /\ V \subseteq S /\ W \subseteq S \ U /\ W \subseteq V
  BY UpFromInside, UpFromMonotone
<1>7. \A y \in U : Parent[y] \in S => Parent[y] \in U
  BY UpFromClosed, UpFromNowhere
<1>8. V \subseteq U \cup W
  <2>1. CASE s \in S
    <3> DEFINE C == U \cup W
    <3>1. s \in C
      BY <2>1, UpFromClosed
    <3>2. \A y \in W : Parent[y] \in S \ U => Parent[y] \in W
      BY UpFromClosed, UpFromNowhere
    <3>3. \A y \in C : Parent[y] \in S => Parent[y] \in C
      BY <1>7, <3>2
    <3>4. C \in SUBSET S
      BY <1>6
    <3> HIDE DEF C
    <3>5. V \subseteq C
      BY <3>1, <3>3, <3>4, UpFromLeast
    <3> QED
      BY <3>5 DEF C
  <2> QED
    BY <2>1, UpFromNowhere
<1> HIDE DEF U, V, W
<1>9. \A x \in Run : StartRuns(mid, {s})[x] = StartRuns(rs, {r, s})[x]
  BY <1>2, <1>3, <1>5, <1>6, <1>8
<1>10. StartRuns(mid, {s}) = StartRuns(rs, {r, s})
  BY <1>1, <1>9 DEF RunStatus
<1> QED
  BY <1>10 DEF mid

THEOREM SetRunningCallsAreStartRuns ==
  ASSUME NEW rs \in RunStatus, NEW r \in Run, NEW s \in Run
  PROVE  SetRunningCall[<<SetRunningCall[<<rs, r>>], s>>] = StartRuns(rs, {r, s})
<1>1. SetRunningCall[<<rs, r>>] = StartRuns(rs, {r}) /\ StartRuns(rs, {r}) \in RunStatus
  BY SetRunningCallIsStartRuns, StartRunsOutcomes
<1>2. SetRunningCall[<<StartRuns(rs, {r}), s>>] = StartRuns(StartRuns(rs, {r}), {s})
  BY <1>1, SetRunningCallIsStartRuns
<1> QED
  BY <1>1, <1>2, StartRunsInTurn

-----------------------------------------------------------------------------
(* Connected runs.                                                          *)

Beside(y, z) == Parent[y] = z \/ Parent[z] = y

\* What is connected to the runs of Q.
Reached(S, Q) == UNION {Connected(S, q) : q \in Q}

LEMMA ConnectedNowhere ==
  ASSUME NEW S, NEW r, r \notin S
  PROVE  Connected(S, r) = {}
BY DEF Connected

LEMMA ConnectedClosed ==
  ASSUME NEW S, NEW r \in S
  PROVE  /\ r \in Connected(S, r)
         /\ \A y \in Connected(S, r), z \in S : Beside(y, z) => z \in Connected(S, r)
BY DEF Connected, Beside

LEMMA ConnectedLeast ==
  ASSUME NEW S, NEW r, NEW C \in SUBSET S,
         r \in C, \A y \in C, z \in S : Beside(y, z) => z \in C
  PROVE  Connected(S, r) \subseteq C
BY DEF Connected, Beside

LEMMA ConnectedMonotone ==
  ASSUME NEW T, NEW S \in SUBSET T, NEW r
  PROVE  Connected(S, r) \subseteq Connected(T, r)
<1>1. CASE r \in S
  <2> DEFINE C == Connected(T, r) \cap S
  <2>1. r \in C /\ \A y \in C, z \in S : Beside(y, z) => z \in C
    BY <1>1, ConnectedClosed
  <2>2. C \in SUBSET S /\ C \subseteq Connected(T, r)
    OBVIOUS
  <2> HIDE DEF C
  <2>3. Connected(S, r) \subseteq C
    BY <2>1, <2>2, ConnectedLeast
  <2> QED
    BY <2>2, <2>3
<1> QED
  BY <1>1, ConnectedNowhere

LEMMA ReachedClosed ==
  ASSUME NEW S, NEW Q
  PROVE  /\ Reached(S, Q) \subseteq S
         /\ \A y \in Reached(S, Q), z \in S : Beside(y, z) => z \in Reached(S, Q)
<1>1. \A q : Connected(S, q) \subseteq S
  BY ConnectedInside
<1>2. \A q : \A y \in Connected(S, q), z \in S : Beside(y, z) => z \in Connected(S, q)
  <2> SUFFICES ASSUME NEW q, NEW y \in Connected(S, q), NEW z \in S, Beside(y, z)
               PROVE  z \in Connected(S, q)
    OBVIOUS
  <2>1. q \in S
    BY ConnectedNowhere
  <2> QED
    BY <2>1, ConnectedClosed
<1> QED
  BY <1>1, <1>2 DEF Reached

\* What is connected to a run is connected to its steps or to its parent, without it.
LEMMA ConnectedStep ==
  ASSUME NEW S \in SUBSET Run, NEW r \in S
  PROVE  Connected(S, r) = {r} \cup Reached(S \ {r}, Steps(r) \cup {Parent[r]})
<1> DEFINE Q == Steps(r) \cup {Parent[r]}
           U == Connected(S, r)
           V == Reached(S \ {r}, Q)
<1>1. r \in U /\ U \subseteq S /\ \A y \in U, z \in S : Beside(y, z) => z \in U
  BY ConnectedClosed, ConnectedInside
<1>2. V \subseteq S \ {r} /\ \A y \in V, z \in S \ {r} : Beside(y, z) => z \in V
  BY ReachedClosed
<1>3. \A q \in Run : q \in Q <=> Beside(r, q)
  BY DEF Beside, Steps
<1>4. V \subseteq U
  <2> SUFFICES ASSUME NEW q \in Q PROVE Connected(S \ {r}, q) \subseteq U
    BY DEF Reached
  <2>1. CASE q \in S \ {r}
    <3>1. q \in U
      BY <1>1, <1>3, <2>1
    <3>2. Connected(S \ {r}, q) \subseteq Connected(S, q)
      BY ConnectedMonotone
    <3>3. Connected(S, q) \subseteq U
      BY <1>1, <3>1, ConnectedLeast
    <3> QED
      BY <3>2, <3>3
  <2> QED
    BY <2>1, ConnectedNowhere
<1>5. \A z \in S \ {r} : Beside(r, z) => z \in V
  <2> SUFFICES ASSUME NEW z \in S \ {r}, Beside(r, z) PROVE z \in V
    OBVIOUS
  <2>1. z \in Q
    BY <1>3
  <2>2. z \in Connected(S \ {r}, z)
    BY ConnectedClosed
  <2> HIDE DEF Q
  <2> QED
    BY <2>1, <2>2 DEF Reached
<1>6. U \subseteq {r} \cup V
  <2> DEFINE C == {r} \cup V
  <2>1. C \in SUBSET S /\ r \in C
    BY <1>2
  <2>2. \A y \in C, z \in S : Beside(y, z) => z \in C
    BY <1>2, <1>5
  <2> HIDE DEF C
  <2>3. U \subseteq C
    BY <2>1, <2>2, ConnectedLeast
  <2> QED
    BY <2>3 DEF C
<1> QED
  BY <1>1, <1>4, <1>6

\* What is connected to one set and then, without that, to another.
LEMMA ReachedInTurn ==
  ASSUME NEW S \in SUBSET Run, NEW P, NEW Q
  PROVE  Reached(S, P \cup Q) = Reached(S, P) \cup Reached(S \ Reached(S, P), Q)
<1> DEFINE D == Reached(S, P)
           T == S \ D
<1>1. D \subseteq S /\ \A y \in D, z \in S : Beside(y, z) => z \in D
  BY ReachedClosed
<1>2. \A y, z : Beside(y, z) => Beside(z, y)
  BY DEF Beside
<1> HIDE DEF D
<1>3. ASSUME NEW q PROVE D \cup Connected(S, q) = D \cup Connected(T, q)
  <2>1. Connected(T, q) \subseteq Connected(S, q)
    BY ConnectedMonotone
  <2>2. Connected(S, q) \subseteq D \cup Connected(T, q)
    <3>1. CASE q \in D
      BY <1>1, <3>1, ConnectedLeast
    <3>2. CASE q \in T
      <4> DEFINE C == Connected(T, q)
      <4>1. q \in C /\ C \subseteq T /\ \A y \in C, z \in T : Beside(y, z) => z \in C
        BY <3>2, ConnectedClosed, ConnectedInside
      <4>2. \A y \in C, z \in S : Beside(y, z) => z \in C
        BY <1>1, <1>2, <4>1
      <4>3. C \in SUBSET S
        BY <4>1
      <4> HIDE DEF C
      <4>4. Connected(S, q) \subseteq C
        BY <4>1, <4>2, <4>3, ConnectedLeast
      <4> QED
        BY <4>4 DEF C
    <3>3. CASE q \notin S
      BY <3>3, ConnectedNowhere
    <3> QED
      BY <3>1, <3>2, <3>3
  <2> QED
    BY <2>1, <2>2
<1> HIDE DEF T
<1>4. Reached(S, P \cup Q) = D \cup Reached(S, Q)
  BY DEF Reached, D
<1>5. D \cup Reached(S, Q) = D \cup Reached(T, Q)
  BY <1>3 DEF Reached
<1> QED
  BY <1>4, <1>5 DEF D, T

LEMMA ReachedFromOne ==
  ASSUME NEW S, NEW r
  PROVE  Reached(S, {r}) = Connected(S, r)
BY DEF Reached

-----------------------------------------------------------------------------
(* Run.kill.                                                                *)

\* Kill of every run in Q.
KilledFrom(st, Q) ==
  LET killed == Reached(Live(st.runs), Q)
  IN  [runs  |-> [x \in Run |-> IF x \in killed THEN Ended(st.runs[x], "killed") ELSE st.runs[x]],
       tasks |-> st.tasks \cup killed]

LEMMA ChangedFields ==
  ASSUME NEW st \in Changed
  PROVE  st.runs \in RunStatus /\ st.tasks \in SUBSET Run /\ st = [runs |-> st.runs, tasks |-> st.tasks]
BY DEF Changed

LEMMA SameChange ==
  ASSUME NEW a \in Changed, NEW b \in Changed, a.tasks = b.tasks,
         \A x \in Run : a.runs[x] = b.runs[x]
  PROVE  a = b
<1>1. a.runs = b.runs
  BY ChangedFields DEF RunStatus
<1> QED
  BY <1>1, ChangedFields

LEMMA KilledFromFacts ==
  ASSUME NEW st \in Changed, NEW Q
  PROVE  /\ KilledFrom(st, Q) \in Changed
         /\ Live(KilledFrom(st, Q).runs) = Live(st.runs) \ Reached(Live(st.runs), Q)
         /\ KilledFrom(st, Q).tasks = st.tasks \cup Reached(Live(st.runs), Q)
         /\ \A x \in Run : KilledFrom(st, Q).runs[x] = IF x \in Reached(Live(st.runs), Q)
                                                       THEN Ended(st.runs[x], "killed")
                                                       ELSE st.runs[x]
<1> DEFINE L == Live(st.runs)
           D == Reached(L, Q)
           new == [x \in Run |-> IF x \in D THEN Ended(st.runs[x], "killed") ELSE st.runs[x]]
<1>1. D \subseteq L /\ L \subseteq Run
  BY ReachedClosed DEF Live
<1>2. st.runs \in RunStatus /\ st.tasks \in SUBSET Run
  BY ChangedFields
<1>3. KilledFrom(st, Q) = [runs |-> new, tasks |-> st.tasks \cup D]
  BY DEF KilledFrom
<1>4. \A x \in Run : st.runs[x] \in SUBSET RunFlag /\ Ended(st.runs[x], "killed") \in SUBSET RunFlag
  BY <1>2 DEF RunStatus, Ended, RunFlag, TerminalFlag
<1> HIDE DEF D
<1>5. new \in RunStatus
  BY <1>4 DEF RunStatus
<1>6. \A x \in Run : new[x] = IF x \in D THEN Ended(st.runs[x], "killed") ELSE st.runs[x]
  OBVIOUS
<1> HIDE DEF new
<1>7. \A s : Terminal(Ended(s, "killed"))
  BY DEF Terminal, Ended, TerminalFlag
<1>8. Live(new) = L \ D
  BY <1>6, <1>7 DEF Live
<1>9. [runs |-> new, tasks |-> st.tasks \cup D] \in Changed
  BY <1>1, <1>2, <1>5 DEF Changed
<1> QED
  BY <1>3, <1>6, <1>8, <1>9 DEF D

LEMMA KilledRows ==
  ASSUME NEW st \in Changed, NEW Q, NEW x \in Run
  PROVE  KilledFrom(st, Q).runs[x] = IF x \in Reached(Live(st.runs), Q)
                                     THEN Ended(st.runs[x], "killed") ELSE st.runs[x]
BY KilledFromFacts

LEMMA KillsInTurn ==
  ASSUME NEW st \in Changed, NEW P, NEW Q
  PROVE  KilledFrom(KilledFrom(st, P), Q) = KilledFrom(st, P \cup Q)
<1> DEFINE L == Live(st.runs)
           mid == KilledFrom(st, P)
           D == Reached(L, P)
           E == Reached(L \ D, Q)
<1>1. /\ mid \in Changed /\ Live(mid.runs) = L \ D /\ mid.tasks = st.tasks \cup D
      /\ \A x \in Run : mid.runs[x] = IF x \in D THEN Ended(st.runs[x], "killed") ELSE st.runs[x]
  BY KilledFromFacts
<1> HIDE DEF mid
<1>2. /\ KilledFrom(mid, Q) \in Changed
      /\ KilledFrom(mid, Q).tasks = mid.tasks \cup E
      /\ \A x \in Run : KilledFrom(mid, Q).runs[x]
                        = IF x \in E THEN Ended(mid.runs[x], "killed") ELSE mid.runs[x]
  <2>1. \A x \in Run : KilledFrom(mid, Q).runs[x]
                       = IF x \in Reached(Live(mid.runs), Q)
                         THEN Ended(mid.runs[x], "killed") ELSE mid.runs[x]
    <3>1. mid \in Changed
      BY <1>1
    <3> QED
      BY <3>1, KilledRows
  <2>2. /\ KilledFrom(mid, Q) \in Changed
        /\ KilledFrom(mid, Q).tasks = mid.tasks \cup Reached(Live(mid.runs), Q)
    BY <1>1, KilledFromFacts
  <2>3. Reached(Live(mid.runs), Q) = E
    BY <1>1
  <2> HIDE DEF E
  <2> QED
    BY <2>1, <2>2, <2>3
<1>3. Reached(L, P \cup Q) = D \cup E
  <2>1. L \in SUBSET Run
    BY DEF Live
  <2> HIDE DEF L
  <2> QED
    BY <2>1, ReachedInTurn
<1>4. /\ KilledFrom(st, P \cup Q) \in Changed
      /\ KilledFrom(st, P \cup Q).tasks = st.tasks \cup D \cup E
      /\ \A x \in Run : KilledFrom(st, P \cup Q).runs[x]
                        = IF x \in D \cup E THEN Ended(st.runs[x], "killed") ELSE st.runs[x]
  BY <1>3, KilledFromFacts
<1>5. E \subseteq L \ D
  BY ReachedClosed
<1> HIDE DEF D, E
<1>6. \A x \in Run : KilledFrom(mid, Q).runs[x] = KilledFrom(st, P \cup Q).runs[x]
  BY <1>1, <1>2, <1>4, <1>5
<1>7. KilledFrom(mid, Q).tasks = KilledFrom(st, P \cup Q).tasks
  BY <1>1, <1>2, <1>4
<1>8. KilledFrom(mid, Q) = KilledFrom(st, P \cup Q)
  <2> DEFINE a == KilledFrom(mid, Q)
             b == KilledFrom(st, P \cup Q)
  <2>1. a \in Changed /\ b \in Changed /\ a.tasks = b.tasks
    BY <1>2, <1>4, <1>7
  <2>2. \A x \in Run : a.runs[x] = b.runs[x]
    BY <1>6
  <2> HIDE DEF a, b
  <2>3. a = b
    BY <2>1, <2>2, SameChange
  <2> QED
    BY <2>3 DEF a, b
<1> QED
  BY <1>8 DEF mid

\* A run that is not terminal, its steps and its parent.
LEMMA KillOne ==
  ASSUME NEW st \in Changed, NEW r \in Run, ~Terminal(st.runs[r])
  PROVE  LET marked == [st EXCEPT !.runs[r] = Ended(@, "killed")]
             below  == [KilledFrom(marked, Steps(r)) EXCEPT !.tasks = @ \cup {r}]
         IN  /\ marked \in Changed /\ Live(marked.runs) = Live(st.runs) \ {r}
             /\ below \in Changed /\ Live(below.runs) \subseteq Live(st.runs) \ {r}
             /\ IsTopmost(r) => below = KilledFrom(st, {r})
             /\ KilledFrom(below, {Parent[r]}) = KilledFrom(st, {r})
<1> DEFINE L == Live(st.runs)
           p == Parent[r]
           rows == [st.runs EXCEPT ![r] = Ended(@, "killed")]
           marked == [st EXCEPT !.runs[r] = Ended(@, "killed")]
           told == [runs |-> rows, tasks |-> st.tasks \cup {r}]
           below == [KilledFrom(marked, Steps(r)) EXCEPT !.tasks = @ \cup {r}]
           D == Reached(L \ {r}, Steps(r))
           E == Reached(L \ {r}, Steps(r) \cup {p})
<1>1. st.runs \in RunStatus /\ st.tasks \in SUBSET Run /\ r \in L /\ L \in SUBSET Run
  BY ChangedFields DEF Live
<1>2. /\ rows \in RunStatus /\ rows[r] = Ended(st.runs[r], "killed") /\ Live(rows) = L \ {r}
      /\ \A x \in Run : x # r => rows[x] = st.runs[x]
  <2> DEFINE rs == st.runs
             new == [rs EXCEPT ![r] = Ended(@, "killed")]
  <2>1. rs \in RunStatus
    BY <1>1
  <2> HIDE DEF rs
  <2>2. /\ new \in RunStatus /\ new[r] = Ended(rs[r], "killed") /\ Live(new) = Live(rs) \ {r}
        /\ \A x \in Run : x # r => new[x] = rs[x]
    BY <2>1, EndedStatus DEF TerminalFlag
  <2> QED
    BY <2>2 DEF rs
<1>3. marked = [runs |-> rows, tasks |-> st.tasks] /\ marked.runs = rows /\ marked.tasks = st.tasks
  BY ChangedFields
<1> HIDE DEF rows, marked, L
<1>4. marked \in Changed /\ told \in Changed /\ told.runs = rows /\ told.tasks = st.tasks \cup {r}
  BY <1>1, <1>2, <1>3 DEF Changed
<1> HIDE DEF told
<1>5. Connected(L, r) = {r} \cup E /\ E \subseteq L \ {r}
  BY <1>1, ConnectedStep, ReachedClosed
<1>6. /\ KilledFrom(marked, Steps(r)) \in Changed
      /\ KilledFrom(marked, Steps(r)).tasks = st.tasks \cup D
      /\ \A x \in Run : KilledFrom(marked, Steps(r)).runs[x]
                        = IF x \in D THEN Ended(rows[x], "killed") ELSE rows[x]
  <2>1. Reached(Live(marked.runs), Steps(r)) = D
    BY <1>2, <1>3
  <2> HIDE DEF D
  <2> QED
    BY <1>3, <1>4, <2>1, KilledFromFacts
<1>7. /\ KilledFrom(told, Steps(r)) \in Changed
      /\ KilledFrom(told, Steps(r)).tasks = st.tasks \cup {r} \cup D
      /\ \A x \in Run : KilledFrom(told, Steps(r)).runs[x]
                        = IF x \in D THEN Ended(rows[x], "killed") ELSE rows[x]
      /\ Live(KilledFrom(told, Steps(r)).runs) \subseteq L \ {r}
  <2>1. Reached(Live(told.runs), Steps(r)) = D /\ Live(told.runs) = L \ {r}
    BY <1>2, <1>4
  <2> HIDE DEF D
  <2>2. KilledFrom(told, Steps(r)).tasks = told.tasks \cup D
    BY <1>4, <2>1, KilledFromFacts
  <2>3. \A x \in Run : KilledFrom(told, Steps(r)).runs[x]
                       = IF x \in D THEN Ended(told.runs[x], "killed") ELSE told.runs[x]
    <3>1. \A x \in Run : KilledFrom(told, Steps(r)).runs[x]
                         = IF x \in Reached(Live(told.runs), Steps(r))
                           THEN Ended(told.runs[x], "killed") ELSE told.runs[x]
      BY <1>4, KilledFromFacts
    <3> QED
      BY <2>1, <3>1
  <2>4. /\ KilledFrom(told, Steps(r)) \in Changed
        /\ Live(KilledFrom(told, Steps(r)).runs) = (L \ {r}) \ D
    BY <1>4, <2>1, KilledFromFacts
  <2> QED
    BY <1>4, <2>2, <2>3, <2>4
<1>8. /\ below \in Changed /\ below.runs = KilledFrom(marked, Steps(r)).runs
      /\ below.tasks = KilledFrom(marked, Steps(r)).tasks \cup {r}
  BY <1>6 DEF Changed
<1> HIDE DEF below
<1>9. below = KilledFrom(told, Steps(r))
  <2>1. below.tasks = KilledFrom(told, Steps(r)).tasks
    BY <1>6, <1>7, <1>8
  <2>2. \A x \in Run : below.runs[x] = KilledFrom(told, Steps(r)).runs[x]
    BY <1>6, <1>7, <1>8
  <2> QED
    BY <1>7, <1>8, <2>1, <2>2, SameChange
<1>10. KilledFrom(told, Steps(r) \cup {p}) = KilledFrom(st, {r})
  <2>1. /\ KilledFrom(told, Steps(r) \cup {p}) \in Changed
        /\ KilledFrom(told, Steps(r) \cup {p}).tasks = st.tasks \cup {r} \cup E
        /\ \A x \in Run : KilledFrom(told, Steps(r) \cup {p}).runs[x]
                          = IF x \in E THEN Ended(rows[x], "killed") ELSE rows[x]
    <3>1. Reached(Live(told.runs), Steps(r) \cup {p}) = E
      BY <1>2, <1>4
    <3> HIDE DEF E
    <3>2. KilledFrom(told, Steps(r) \cup {p}).tasks = told.tasks \cup E
      BY <1>4, <3>1, KilledFromFacts
    <3>3. \A x \in Run : KilledFrom(told, Steps(r) \cup {p}).runs[x]
                         = IF x \in E THEN Ended(told.runs[x], "killed") ELSE told.runs[x]
      BY <1>4, <3>1, KilledFromFacts
    <3>4. KilledFrom(told, Steps(r) \cup {p}) \in Changed
      BY <1>4, KilledFromFacts
    <3> QED
      BY <1>4, <3>2, <3>3, <3>4
  <2>2. Reached(L, {r}) = {r} \cup E
    BY <1>5, ReachedFromOne
  <2>3. /\ KilledFrom(st, {r}) \in Changed
        /\ KilledFrom(st, {r}).tasks = st.tasks \cup {r} \cup E
        /\ \A x \in Run : KilledFrom(st, {r}).runs[x]
                          = IF x \in {r} \cup E THEN Ended(st.runs[x], "killed") ELSE st.runs[x]
    BY <2>2, KilledFromFacts DEF L
  <2> HIDE DEF E
  <2>4. \A x \in Run : KilledFrom(told, Steps(r) \cup {p}).runs[x] = KilledFrom(st, {r}).runs[x]
    BY <1>2, <1>5, <2>1, <2>3
  <2>5. KilledFrom(told, Steps(r) \cup {p}).tasks = KilledFrom(st, {r}).tasks
    BY <2>1, <2>3
  <2> DEFINE a == KilledFrom(told, Steps(r) \cup {p})
             b == KilledFrom(st, {r})
  <2>6. a \in Changed /\ b \in Changed /\ a.tasks = b.tasks /\ \A x \in Run : a.runs[x] = b.runs[x]
    BY <2>1, <2>3, <2>4, <2>5
  <2> HIDE DEF a, b
  <2>7. a = b
    BY <2>6, SameChange
  <2> QED
    BY <2>7 DEF a, b
<1>11. KilledFrom(below, {p}) = KilledFrom(st, {r})
  BY <1>4, <1>9, <1>10, KillsInTurn
<1>12. ASSUME IsTopmost(r) PROVE below = KilledFrom(st, {r})
  <2>1. p \notin L \ {r}
    BY <1>1, <1>12, ParentIsRun
  <2>2. D = E
    BY <2>1, ConnectedNowhere DEF Reached
  <2>3. KilledFrom(told, Steps(r)) = KilledFrom(told, Steps(r) \cup {p})
    <3>1. Reached(Live(told.runs), Steps(r)) = Reached(Live(told.runs), Steps(r) \cup {p})
      BY <1>2, <1>4, <2>2
    <3> QED
      BY <3>1 DEF KilledFrom
  <2> QED
    BY <1>9, <1>10, <2>3
<1>13. marked \in Changed /\ Live(marked.runs) = L \ {r}
  BY <1>2, <1>3, <1>4
<1>14. Live(below.runs) \subseteq L \ {r}
  BY <1>7, <1>9
<1> QED
  BY <1>8, <1>11, <1>12, <1>13, <1>14 DEF below, marked, L

KillStep(g, st, S) ==
  LET r == First[S]
      below == [g[<<[st EXCEPT !.runs[r] = Ended(@, "killed")], Steps(r)>>]
                  EXCEPT !.tasks = @ \cup {r}]
      after == IF Terminal(st.runs[r]) THEN st
               ELSE IF IsTopmost(r) THEN below
               ELSE g[<<below, {Parent[r]}>>]
  IN  IF S = {} THEN st ELSE g[<<after, S \ {r}>>]

\* Nothing is left to kill below a terminal run.
LEMMA NothingKilled ==
  ASSUME NEW st \in Changed, NEW Q, Reached(Live(st.runs), Q) = {}
  PROVE  KilledFrom(st, Q) = st
<1>1. KilledFrom(st, Q) \in Changed /\ KilledFrom(st, Q).tasks = st.tasks
  <2>1. KilledFrom(st, Q) \in Changed
        /\ KilledFrom(st, Q).tasks = st.tasks \cup Reached(Live(st.runs), Q)
    BY KilledFromFacts
  <2> QED
    BY <2>1
<1>2. \A x \in Run : KilledFrom(st, Q).runs[x] = st.runs[x]
  BY KilledFromFacts
<1> QED
  BY <1>1, <1>2, SameChange

\* One turn of the loop: whatever stands for the calls it makes, it is the closed form
\* when those calls are.
LEMMA KillTurn ==
  ASSUME NEW g, NEW st \in Changed, NEW S \in SUBSET Run,
         \A Q \in SUBSET Run : Q # S /\ Q \subseteq S =>
           g[<<st, Q>>] = KilledFrom(st, Q),
         \A new \in Changed : Live(new.runs) \subseteq Live(st.runs) /\ Live(new.runs) # Live(st.runs) =>
           \A Q \in SUBSET Run : g[<<new, Q>>] = KilledFrom(new, Q)
  PROVE  KillStep(g, st, S) = KilledFrom(st, S)
<1>1. CASE S = {}
  <2>1. Reached(Live(st.runs), S) = {}
    BY <1>1 DEF Reached
  <2>2. KilledFrom(st, S) = st
    BY <2>1, NothingKilled
  <2> QED
    BY <1>1, <2>2 DEF KillStep
<1>2. CASE S # {}
  <2> DEFINE r == First[S]
             marked == [st EXCEPT !.runs[r] = Ended(@, "killed")]
             below == [g[<<marked, Steps(r)>>] EXCEPT !.tasks = @ \cup {r}]
             after == IF Terminal(st.runs[r]) THEN st
                      ELSE IF IsTopmost(r) THEN below
                      ELSE g[<<below, {Parent[r]}>>]
             one == KilledFrom(st, {r})
  <2>1. r \in S /\ r \in Run /\ {r} \cup (S \ {r}) = S
    BY <1>2, OrderAssumption
  <2> HIDE DEF r
  <2>2. KillStep(g, st, S) = g[<<after, S \ {r}>>]
    BY <1>2 DEF KillStep, r
  <2>3. S \ {r} \in SUBSET Run /\ S \ {r} # S /\ Steps(r) \in SUBSET Run
    BY <2>1 DEF Steps
  <2>4. KilledFrom(one, S \ {r}) = KilledFrom(st, S)
    BY <2>1, KillsInTurn
  <2>5. one \in Changed /\ Live(one.runs) = Live(st.runs) \ Connected(Live(st.runs), r)
    BY KilledFromFacts, ReachedFromOne
  <2>6. after = one
    <3>1. CASE Terminal(st.runs[r])
      <4>1. r \notin Live(st.runs)
        BY <3>1 DEF Live
      <4>2. Reached(Live(st.runs), {r}) = {}
        BY <4>1, ReachedFromOne, ConnectedNowhere
      <4> QED
        BY <3>1, <4>2, NothingKilled
    <3>2. CASE ~Terminal(st.runs[r])
      <4> DEFINE low == [KilledFrom(marked, Steps(r)) EXCEPT !.tasks = @ \cup {r}]
      <4>1. /\ marked \in Changed /\ Live(marked.runs) = Live(st.runs) \ {r}
            /\ low \in Changed /\ Live(low.runs) \subseteq Live(st.runs) \ {r}
            /\ IsTopmost(r) => low = one
            /\ KilledFrom(low, {Parent[r]}) = one
        BY <2>1, <3>2, KillOne
      <4>2. r \in Live(st.runs)
        BY <2>1, <3>2 DEF Live
      <4> HIDE DEF marked, one
      <4>3. g[<<marked, Steps(r)>>] = KilledFrom(marked, Steps(r))
        BY <2>3, <4>1, <4>2
      <4>4. below = low
        BY <4>3
      <4> HIDE DEF low, below
      <4>5. ~IsTopmost(r) => g[<<below, {Parent[r]}>>] = KilledFrom(below, {Parent[r]})
        <5>1. ~IsTopmost(r) => {Parent[r]} \in SUBSET Run
          BY <2>1, ParentIsRun
        <5> QED
          BY <4>1, <4>2, <4>4, <5>1
      <4> QED
        BY <3>2, <4>1, <4>4, <4>5
    <3> QED
      BY <3>1, <3>2
  <2>7. g[<<one, S \ {r}>>] = KilledFrom(one, S \ {r})
    <3>1. CASE r \in Live(st.runs)
      <4>1. r \in Connected(Live(st.runs), r)
        BY <3>1, ConnectedClosed
      <4>2. Live(one.runs) \subseteq Live(st.runs) /\ Live(one.runs) # Live(st.runs)
        BY <2>5, <3>1, <4>1
      <4> HIDE DEF one
      <4> QED
        BY <2>3, <2>5, <4>2
    <3>2. CASE r \notin Live(st.runs)
      <4>1. Reached(Live(st.runs), {r}) = {}
        BY <3>2, ReachedFromOne, ConnectedNowhere
      <4>2. one = st
        BY <4>1, NothingKilled
      <4> HIDE DEF one
      <4> QED
        BY <2>3, <4>2
    <3> QED
      BY <3>1, <3>2
  <2> HIDE DEF after, one
  <2> QED
    BY <2>2, <2>4, <2>6, <2>7
<1> QED
  BY <1>1, <1>2

LEMMA FewerLive ==
  ASSUME NEW a, NEW b, Live(a) \subseteq Live(b), Live(a) # Live(b)
  PROVE  /\ Cardinality(Live(a)) \in Nat /\ Cardinality(Live(b)) \in Nat
         /\ Cardinality(Live(a)) < Cardinality(Live(b))
<1>1. Live(b) \subseteq Run /\ IsFiniteSet(Live(b)) /\ IsFiniteSet(Live(a))
  <2>1. \A S \in SUBSET Run : IsFiniteSet(S)
    BY FiniteAssumption, FS_Subset
  <2>2. Live(a) \in SUBSET Run /\ Live(b) \in SUBSET Run
    BY DEF Live
  <2> QED
    BY <2>1, <2>2
<1>2. Cardinality(Live(a)) <= Cardinality(Live(b)) /\ Cardinality(Live(a)) # Cardinality(Live(b))
  BY <1>1, FS_Subset
<1>3. Cardinality(Live(a)) \in Nat /\ Cardinality(Live(b)) \in Nat
  BY <1>1, FS_CardinalityType
<1> QED
  BY <1>2, <1>3

LEMMA FewerRuns ==
  ASSUME NEW Q \in SUBSET Run, NEW S \in SUBSET Run, Q \subseteq S, Q # S
  PROVE  /\ Cardinality(Q) \in Nat /\ Cardinality(S) \in Nat
         /\ Cardinality(Q) < Cardinality(S)
<1>1. IsFiniteSet(Q) /\ IsFiniteSet(S)
  BY FiniteAssumption, FS_Subset
<1>2. Cardinality(Q) <= Cardinality(S) /\ Cardinality(Q) # Cardinality(S)
  BY <1>1, FS_Subset
<1>3. Cardinality(Q) \in Nat /\ Cardinality(S) \in Nat
  BY <1>1, FS_CardinalityType
<1> QED
  BY <1>2, <1>3

\* Every call of kill ends, with what the closed form says: each turn of a loop leaves
\* fewer runs to the loop, and each call within it finds fewer runs that are not terminal.
LEMMA KillCallsAreKilledFrom ==
  ASSUME NEW st \in Changed, NEW S \in SUBSET Run
  PROVE  KillCalls[<<st, S>>] = KilledFrom(st, S)
<1> DEFINE At == Changed \X SUBSET Run
           Rec(f) == [at \in At |-> KillStep(f, at[1], at[2])]
           G == [at \in At |-> KilledFrom(at[1], at[2])]
           R == CHOOSE f : f = Rec(f)
<1>1. \A new \in Changed, Q \in SUBSET Run : G[<<new, Q>>] = KilledFrom(new, Q)
  OBVIOUS
<1>2. G = Rec(G)
  <2>1. \A at \in At : at[1] \in Changed /\ at[2] \in SUBSET Run
    OBVIOUS
  <2> HIDE DEF G
  <2>2. \A new \in Changed, Q \in SUBSET Run : KilledFrom(new, Q) = KillStep(G, new, Q)
    BY <1>1, KillTurn
  <2> HIDE DEF At
  <2> QED
    BY <2>1, <2>2 DEF G
<1>3. KillCalls = R
  BY DEF KillCalls, KillStep
<1>4. R = Rec(R)
  <2> HIDE DEF Rec, G
  <2> QED
    BY <1>2
<1> HIDE DEF R, G
<1>5. \A new \in Changed, Q \in SUBSET Run : R[<<new, Q>>] = KillStep(R, new, Q)
  BY <1>4
<1> HIDE DEF Rec
<1> DEFINE Good(new, Q) == R[<<new, Q>>] = KilledFrom(new, Q)
           GoodBelow(n) == \A new \in Changed : Cardinality(Live(new.runs)) < n =>
                             \A Q \in SUBSET Run : Good(new, Q)
           N == {n \in Nat : GoodBelow(n)}
<1>6. \A new \in Changed : Cardinality(Live(new.runs)) \in Nat
  BY FewerRuns, FS_CardinalityType, FS_Subset, FiniteAssumption DEF Live
<1>7. \A Q \in SUBSET Run : Cardinality(Q) \in Nat
  BY FS_CardinalityType, FS_Subset, FiniteAssumption
<1>8. 0 \in N
  BY <1>6
<1>9. ASSUME NEW n \in Nat, n \in N PROVE n + 1 \in N
  <2> SUFFICES ASSUME NEW new \in Changed, Cardinality(Live(new.runs)) < n + 1
               PROVE  \A Q \in SUBSET Run : Good(new, Q)
    OBVIOUS
  <2>1. GoodBelow(n) /\ Cardinality(Live(new.runs)) <= n
    BY <1>6, <1>9
  <2>2. ASSUME NEW less \in Changed, Live(less.runs) \subseteq Live(new.runs),
               Live(less.runs) # Live(new.runs), NEW Q \in SUBSET Run
        PROVE  R[<<less, Q>>] = KilledFrom(less, Q)
    <3>1. Cardinality(Live(less.runs)) < n
      BY <1>6, <2>1, <2>2, FewerLive
    <3> QED
      BY <2>1, <3>1
  <2> HIDE DEF GoodBelow
  <2> DEFINE GoodFor(m) == \A Q \in SUBSET Run : Cardinality(Q) < m => Good(new, Q)
             M == {m \in Nat : GoodFor(m)}
  <2>3. 0 \in M
    BY <1>7
  <2>4. ASSUME NEW m \in Nat, m \in M PROVE m + 1 \in M
    <3> SUFFICES ASSUME NEW P \in SUBSET Run, Cardinality(P) < m + 1
                 PROVE  R[<<new, P>>] = KilledFrom(new, P)
      OBVIOUS
    <3>1. GoodFor(m) /\ Cardinality(P) <= m
      BY <1>7, <2>4
    <3>2. ASSUME NEW Q \in SUBSET Run, Q # P, Q \subseteq P
          PROVE  R[<<new, Q>>] = KilledFrom(new, Q)
      <4>1. Cardinality(Q) < m
        BY <1>7, <3>1, <3>2, FewerRuns
      <4> QED
        BY <3>1, <4>1
    <3>3. KillStep(R, new, P) = KilledFrom(new, P)
      BY <2>2, <3>2, KillTurn
    <3> QED
      BY <1>5, <3>3
  <2> HIDE DEF M
  <2>5. Nat \subseteq M
    BY <2>3, <2>4, EveryNumber
  <2>6. ASSUME NEW Q \in SUBSET Run PROVE Good(new, Q)
    <3>1. Cardinality(Q) + 1 \in M /\ Cardinality(Q) < Cardinality(Q) + 1
      BY <1>7, <2>5
    <3> QED
      BY <3>1 DEF M
  <2> QED
    BY <2>6
<1> HIDE DEF N
<1>10. Nat \subseteq N
  BY <1>8, <1>9, EveryNumber
<1>11. /\ Cardinality(Live(st.runs)) + 1 \in N
       /\ Cardinality(Live(st.runs)) < Cardinality(Live(st.runs)) + 1
  BY <1>6, <1>10
<1>12. Good(st, S)
  BY <1>11 DEF N
<1> QED
  BY <1>3, <1>12

\* KillRun and KilledBy are kill of one run.
THEOREM KillCallIsKillRun ==
  ASSUME NEW rs \in RunStatus, NEW r \in Run
  PROVE  /\ KillCall(Unchanged(rs), r).runs = KillRun(rs, r)
         /\ KillCall(Unchanged(rs), r).tasks = KilledBy(rs, r)
<1> DEFINE st == Unchanged(rs)
<1>1. st \in Changed /\ st.runs = rs /\ st.tasks = {}
  BY DEF Unchanged, Changed
<1>2. KillCall(st, r) = KilledFrom(st, {r})
  BY <1>1, KillCallsAreKilledFrom DEF KillCall
<1>3. Reached(Live(st.runs), {r}) = KilledBy(rs, r)
  BY <1>1, ReachedFromOne DEF KilledBy
<1>4. KilledFrom(st, {r}) = [runs |-> KillRun(rs, r), tasks |-> {} \cup KilledBy(rs, r)]
  <2> HIDE DEF st
  <2> QED
    BY <1>1, <1>3 DEF KilledFrom, KillRun
<1> QED
  BY <1>2, <1>4

-----------------------------------------------------------------------------
(* Run.fail.                                                                *)

FailedFrom(st, r) ==
  [runs  |-> FailRun(st.runs, r), tasks |-> st.tasks \cup TasksKilledByFailure(st.runs, r)]

FailStep(g, st, r) ==
  LET after == [st EXCEPT !.runs[r] = Ended(@, "failed")]
  IN  IF Terminal(st.runs[r]) THEN st
      ELSE IF IsTopmost(r) THEN KillChildren(after, r)
      ELSE g[<<after, Parent[r]>>]

\* The rows and the tasks of a failure, by the way up U and the runs K that are killed.
LEMMA FailedFromFacts ==
  ASSUME NEW st \in Changed, NEW r \in Run
  PROVE  /\ FailedFrom(st, r) \in Changed
         /\ FailedFrom(st, r).tasks
              = st.tasks \cup KilledByFailure(st.runs, r) \cup FailedTop(st.runs, r)
         /\ \A x \in Run : FailedFrom(st, r).runs[x]
                           = IF x \in FailedBy(st.runs, r) THEN Ended(st.runs[x], "failed")
                             ELSE IF x \in KilledByFailure(st.runs, r) THEN Ended(st.runs[x], "killed")
                             ELSE st.runs[x]
<1>1. st.runs \in RunStatus /\ st.tasks \in SUBSET Run
  BY ChangedFields
<1>2. FailRun(st.runs, r) \in RunStatus
  BY <1>1, FailRunOutcomes
<1>3. FailedBy(st.runs, r) \subseteq Run /\ FailedTop(st.runs, r) \subseteq Run
  BY UpFromInside DEF FailedBy, FailedTop, Live
<1>4. KilledByFailure(st.runs, r) \subseteq Run
  <2>1. \A S \in SUBSET Run : \A q : Connected(S, q) \subseteq Run
    BY ConnectedInside
  <2>2. Live(st.runs) \ FailedBy(st.runs, r) \in SUBSET Run
    BY DEF Live
  <2> QED
    BY <2>1, <2>2 DEF KilledByFailure
<1>5. TasksKilledByFailure(st.runs, r) = KilledByFailure(st.runs, r) \cup FailedTop(st.runs, r)
  BY DEF TasksKilledByFailure
<1>6. FailedFrom(st, r) = [runs |-> FailRun(st.runs, r),
                           tasks |-> st.tasks \cup TasksKilledByFailure(st.runs, r)]
  BY DEF FailedFrom
<1>7. \A x \in Run : FailRun(st.runs, r)[x]
                     = IF x \in FailedBy(st.runs, r) THEN Ended(st.runs[x], "failed")
                       ELSE IF x \in KilledByFailure(st.runs, r) THEN Ended(st.runs[x], "killed")
                       ELSE st.runs[x]
  BY DEF FailRun
<1>8. FailedFrom(st, r) \in Changed
  BY <1>1, <1>2, <1>3, <1>4, <1>5, <1>6 DEF Changed
<1> QED
  BY <1>5, <1>6, <1>7, <1>8

LEMMA FailedFromSolves ==
  ASSUME NEW st \in Changed, NEW r \in Run,
         NEW g, \A x \in Run, new \in Changed : g[<<new, x>>] = FailedFrom(new, x)
  PROVE  FailedFrom(st, r) = FailStep(g, st, r)
<1> DEFINE rs == st.runs
           L == Live(rs)
           p == Parent[r]
           rows == [rs EXCEPT ![r] = Ended(@, "failed")]
           after == [st EXCEPT !.runs[r] = Ended(@, "failed")]
           new == FailedFrom(st, r)
           U == FailedBy(rs, r)
           K == KilledByFailure(rs, r)
           T == FailedTop(rs, r)
<1>1. rs \in RunStatus /\ st.tasks \in SUBSET Run /\ L \in SUBSET Run
  BY ChangedFields DEF Live
<1>2. after = [runs |-> rows, tasks |-> st.tasks] /\ after.runs = rows /\ after.tasks = st.tasks
  BY ChangedFields
<1>3. /\ new \in Changed /\ new.tasks = st.tasks \cup K \cup T
      /\ \A x \in Run : new.runs[x] = IF x \in U THEN Ended(rs[x], "failed")
                                      ELSE IF x \in K THEN Ended(rs[x], "killed")
                                      ELSE rs[x]
  BY FailedFromFacts
<1> HIDE DEF after, new
<1>4. U = UpFrom(L, r) /\ T = {x \in U : IsTopmost(x)}
  BY DEF FailedBy, FailedTop
<1>5. K = Reached(L \ U, UNION {Steps(x) : x \in T})
  BY DEF KilledByFailure, Reached
<1>6. r \in L <=> ~Terminal(rs[r])
  BY DEF Live
<1> HIDE DEF U, K, T, rs
<1>7. /\ rows \in RunStatus /\ rows[r] = Ended(rs[r], "failed") /\ Live(rows) = L \ {r}
      /\ \A x \in Run : x # r => rows[x] = rs[x]
  BY <1>1, EndedStatus DEF TerminalFlag
<1> HIDE DEF L, rows
<1>8. after \in Changed
  BY <1>1, <1>2, <1>7 DEF Changed
<1>9. CASE r \notin L
  <2>1. U = {}
    BY <1>4, <1>9, UpFromNowhere
  <2>2. T = {} /\ K = {}
    BY <1>4, <1>5, <2>1 DEF Reached
  <2>3. new.tasks = st.tasks /\ \A x \in Run : new.runs[x] = st.runs[x]
    BY <1>3, <2>1, <2>2 DEF rs
  <2>4. new = st
    BY <1>3, <2>3, SameChange
  <2> QED
    BY <1>6, <1>9, <2>4 DEF FailStep, new, rs
<1>10. CASE r \in L
  <2>1. U = {r} \cup UpFrom(L, p) /\ r \notin UpFrom(L, p)
    BY <1>1, <1>4, <1>10, UpFromStep, UpFromWithout
  <2>2. CASE IsTopmost(r)
    <3>1. U = {r} /\ T = {r}
      <4>1. UpFrom(L, p) = {}
        BY <1>1, <2>2, ParentIsRun, UpFromNowhere
      <4> QED
        BY <1>4, <2>1, <2>2, <4>1
    <3>2. UNION {Steps(x) : x \in T} = Steps(r)
      BY <3>1
    <3>3. K = Reached(Live(after.runs), Steps(r))
      BY <1>2, <1>5, <1>7, <3>1, <3>2
    <3> DEFINE low == KilledFrom(after, Steps(r))
               told == [low EXCEPT !.tasks = @ \cup {r}]
    <3>4. low \in Changed /\ low.tasks = after.tasks \cup K
      BY <1>8, <3>3, KilledFromFacts
    <3>5. \A x \in Run : low.runs[x] = IF x \in K THEN Ended(after.runs[x], "killed")
                                                ELSE after.runs[x]
      <4>1. \A x \in Run : low.runs[x] = IF x \in Reached(Live(after.runs), Steps(r))
                                         THEN Ended(after.runs[x], "killed") ELSE after.runs[x]
        BY <1>8, KilledFromFacts
      <4> QED
        BY <3>3, <4>1
    <3> HIDE DEF low
    <3>6. told \in Changed /\ told.tasks = low.tasks \cup {r} /\ told.runs = low.runs
      BY <3>4 DEF Changed
    <3>7. r \notin K
      <4>1. K \subseteq Live(after.runs)
        BY <3>3, ReachedClosed
      <4> QED
        BY <1>2, <1>7, <4>1
    <3> HIDE DEF told
    <3>8. told.tasks = new.tasks
      BY <1>2, <1>3, <3>1, <3>4, <3>6
    <3>9. \A x \in Run : told.runs[x] = new.runs[x]
      BY <1>2, <1>3, <1>7, <3>1, <3>5, <3>6, <3>7
    <3>10. told = new
      BY <1>3, <3>6, <3>8, <3>9, SameChange
    <3>11. KillChildren(after, r) = told
      <4>1. KillCalls[<<after, Steps(r)>>] = low
        BY <1>8, KillCallsAreKilledFrom DEF low, Steps
      <4> QED
        BY <4>1 DEF KillChildren, told
    <3> QED
      BY <1>6, <1>10, <2>2, <3>10, <3>11 DEF FailStep, new, after, rs
  <2>3. CASE ~IsTopmost(r)
    <3> DEFINE next == FailedFrom(after, p)
    <3>1. p \in Run
      BY <2>3, ParentIsRun
    <3>2. FailedBy(rows, p) = UpFrom(L, p)
      BY <1>1, <1>7, UpFromWithout DEF FailedBy
    <3>3. FailedTop(rows, p) = T
      BY <1>4, <2>1, <2>3, <3>2 DEF FailedTop
    <3>4. KilledByFailure(rows, p) = K
      <4>1. Live(rows) \ FailedBy(rows, p) = L \ U
        BY <1>7, <2>1, <3>2
      <4> QED
        BY <1>5, <3>3, <4>1 DEF KilledByFailure, Reached
    <3>5. /\ next \in Changed /\ next.tasks = st.tasks \cup K \cup T
          /\ \A x \in Run : next.runs[x] = IF x \in UpFrom(L, p) THEN Ended(rows[x], "failed")
                                           ELSE IF x \in K THEN Ended(rows[x], "killed")
                                           ELSE rows[x]
      <4>1. /\ next \in Changed
            /\ next.tasks = after.tasks \cup KilledByFailure(after.runs, p) \cup FailedTop(after.runs, p)
            /\ \A x \in Run : next.runs[x]
                              = IF x \in FailedBy(after.runs, p) THEN Ended(after.runs[x], "failed")
                                ELSE IF x \in KilledByFailure(after.runs, p)
                                THEN Ended(after.runs[x], "killed")
                                ELSE after.runs[x]
        BY <1>8, <3>1, FailedFromFacts
      <4> HIDE DEF next
      <4> QED
        BY <1>2, <3>2, <3>3, <3>4, <4>1
    <3>6. r \notin K
      <4>1. K \subseteq L \ U
        BY <1>5, ReachedClosed
      <4> QED
        BY <2>1, <4>1
    <3> HIDE DEF next
    <3>7. \A x \in Run : next.runs[x] = new.runs[x]
      BY <1>3, <1>7, <2>1, <3>5, <3>6
    <3>8. next.tasks = new.tasks
      BY <1>3, <3>5
    <3>9. next = new
      BY <1>3, <3>5, <3>7, <3>8, SameChange
    <3>10. g[<<after, p>>] = next
      BY <1>8, <3>1 DEF next
    <3> QED
      BY <1>6, <1>10, <2>3, <3>9, <3>10 DEF FailStep, new, after, rs
  <2> QED
    BY <2>2, <2>3
<1> QED
  BY <1>9, <1>10

LEMMA FailCallIsFailedFrom ==
  ASSUME NEW st \in Changed, NEW r \in Run
  PROVE  FailCall[<<st, r>>] = FailedFrom(st, r)
<1> DEFINE Rec(f) == [at \in Changed \X Run |-> FailStep(f, at[1], at[2])]
           G == [at \in Changed \X Run |-> FailedFrom(at[1], at[2])]
           R == CHOOSE f : f = Rec(f)
<1>1. \A x \in Run, new \in Changed : G[<<new, x>>] = FailedFrom(new, x)
  OBVIOUS
<1>2. G = Rec(G)
  <2>1. \A at \in Changed \X Run : at[1] \in Changed /\ at[2] \in Run
    OBVIOUS
  <2> HIDE DEF G
  <2>2. \A new \in Changed, x \in Run : FailedFrom(new, x) = FailStep(G, new, x)
    BY <1>1, FailedFromSolves
  <2> QED
    BY <2>1, <2>2 DEF G
<1> HIDE DEF G
<1>3. FailCall = R
  BY DEF FailCall, FailStep
<1>4. R = Rec(R)
  <2> HIDE DEF Rec
  <2> QED
    BY <1>2
<1> HIDE DEF R
<1>5. \A new \in Changed, x \in Run : R[<<new, x>>] = FailStep(R, new, x)
  BY <1>4
<1> HIDE DEF Rec
<1> DEFINE Good(x) == \A new \in Changed : R[<<new, x>>] = FailedFrom(new, x)
           S == {x \in Run : Good(x)}
<1>6. ASSUME NEW x \in Run, IsTopmost(x) \/ Parent[x] \in S PROVE x \in S
  <2> SUFFICES ASSUME NEW new \in Changed PROVE R[<<new, x>>] = FailedFrom(new, x)
    OBVIOUS
  <2> DEFINE after == [new EXCEPT !.runs[x] = Ended(@, "failed")]
  <2>1. R[<<new, x>>] = FailStep(R, new, x)
    BY <1>5
  <2>2. FailedFrom(new, x) = FailStep(G, new, x)
    BY <1>1, FailedFromSolves
  <2>3. after \in Changed
    BY EndedStatus DEF TerminalFlag, Changed
  <2>4. ~IsTopmost(x) => R[<<after, Parent[x]>>] = G[<<after, Parent[x]>>]
    BY <1>1, <1>6, <2>3
  <2> QED
    BY <2>1, <2>2, <2>4 DEF FailStep
<1> HIDE DEF S
<1>7. Run \subseteq S
  BY <1>6, UpTheTree
<1> QED
  BY <1>3, <1>7 DEF S

\* FailRun and TasksKilledByFailure are fail of one run.
THEOREM FailCallIsFailRun ==
  ASSUME NEW rs \in RunStatus, NEW r \in Run
  PROVE  /\ FailCall[<<Unchanged(rs), r>>].runs = FailRun(rs, r)
         /\ FailCall[<<Unchanged(rs), r>>].tasks = TasksKilledByFailure(rs, r)
<1> DEFINE st == Unchanged(rs)
<1>1. st \in Changed /\ st.runs = rs /\ st.tasks = {}
  BY DEF Unchanged, Changed
<1>2. FailCall[<<st, r>>] = FailedFrom(st, r)
  BY <1>1, FailCallIsFailedFrom
<1>3. FailedFrom(st, r) = [runs |-> FailRun(rs, r), tasks |-> {} \cup TasksKilledByFailure(rs, r)]
  <2> HIDE DEF st
  <2> QED
    BY <1>1 DEF FailedFrom
<1> QED
  BY <1>2, <1>3

-----------------------------------------------------------------------------
(* The calls, one after the other.                                          *)

LEMMA StatusTyped == CallsSpec => [](status \in RunStatus)
<1>1. InitCalls => status \in RunStatus
  BY DEF InitCalls, RunStatus, RunFlag
<1>2. status \in RunStatus /\ [NextCall]_status => (status \in RunStatus)'
  <2> SUFFICES ASSUME status \in RunStatus, NextCall PROVE status' \in RunStatus
    OBVIOUS
  <2>1. PICK r \in Run : CallFinish(r) \/ CallFail(r) \/ CallKill(r) \/ CallSetRunning(r)
    BY DEF NextCall
  <2>2. CASE CallFinish(r)
    BY <2>2, FinishCallIsFinishRun, FinishRunOutcomes DEF CallFinish
  <2>3. CASE CallFail(r)
    BY <2>3, FailCallIsFailRun, FailRunOutcomes DEF CallFail
  <2>4. CASE CallKill(r)
    BY <2>4, KillCallIsKillRun, KillRunOutcomes DEF CallKill
  <2>5. CASE CallSetRunning(r)
    <3>1. SetRunningCall[<<status, r>>] = StartRuns(status, {r})
      BY SetRunningCallIsStartRuns
    <3>2. StartRuns(status, {r}) \in RunStatus
      BY StartRunsOutcomes
    <3> QED
      BY <2>5, <3>1, <3>2 DEF CallSetRunning
  <2> QED
    BY <2>1, <2>2, <2>3, <2>4, <2>5
<1> QED
  BY <1>1, <1>2, PTL DEF CallsSpec

\* Run.finish is its closed form, for every forest of runs, in every state.
THEOREM FinishMatchesAlways == CallsSpec => []FinishMatches
<1>1. status \in RunStatus => FinishMatches
  BY FinishCallIsFinishRun DEF FinishMatches
<1> QED
  BY <1>1, StatusTyped, PTL

\* Run.fail is its closed form: the rows it writes and the tasks it sends kill to.
THEOREM FailMatchesAlways == CallsSpec => []FailMatches
<1>1. status \in RunStatus => FailMatches
  BY FailCallIsFailRun DEF FailMatches
<1> QED
  BY <1>1, StatusTyped, PTL

\* Run.kill is its closed form, in whatever order the steps are listed.
THEOREM KillMatchesAlways == CallsSpec => []KillMatches
<1>1. status \in RunStatus => KillMatches
  BY KillCallIsKillRun DEF KillMatches
<1> QED
  BY <1>1, StatusTyped, PTL

\* Run.set_running_status of two runs, one after the other, is the closed form for both.
THEOREM SetRunningMatchesAlways == CallsSpec => []SetRunningMatches
<1>1. status \in RunStatus => SetRunningMatches
  BY SetRunningCallsAreStartRuns DEF SetRunningMatches
<1> QED
  BY <1>1, StatusTyped, PTL
-----------------------------------------------------------------------------
(* How far the cascades reach.                                              *)

\* A way up through S has one end.
LEMMA OneEndOfTheWay ==
  ASSUME NEW S \in SUBSET Run, NEW r, NEW s \in UpFrom(S, r), NEW z \in UpFrom(S, r),
         Parent[s] \notin S, Parent[z] \notin S
  PROVE  s = z
<1> DEFINE U == UpFrom(S, r)
           C == {y \in U : s \in UpFrom(S, y)}
<1>1. U \subseteq S /\ r \in U
  BY UpFromInside, UpFromNowhere, UpFromClosed
<1>2. \A y \in U : Parent[y] \in S => Parent[y] \in U
  BY <1>1, UpFromClosed
<1>3. \A y \in S : UpFrom(S, y) = {y} \cup UpFrom(S, Parent[y])
  BY UpFromStep
<1>4. UpFrom(S, Parent[s]) = {} /\ UpFrom(S, Parent[z]) = {}
  BY UpFromNowhere
<1> HIDE DEF U
<1>5. r \in C
  BY <1>1 DEF U
<1>6. \A y \in C : Parent[y] \in S => Parent[y] \in C
  BY <1>1, <1>2, <1>3
<1>7. U \subseteq C
  BY <1>1, <1>5, <1>6, UpFromLeast DEF U
<1>8. z \in C /\ z \in S
  BY <1>1, <1>7 DEF U
<1> QED
  BY <1>3, <1>4, <1>8

\* Run.finish leaves no run unfinished that could finish: it writes the run itself, and
\* one above it unless a step is missing.
LEMMA FinishReaches ==
  ASSUME NEW rs \in RunStatus, NEW r \in Run,
         NEW x \in Live(rs), x \notin FinishedBy(rs, r)
  PROVE  /\ x # r
         /\ \A s \in Steps(x) : s \in FinishedBy(rs, r) =>
              \E z \in Steps(x) : "finished" \notin FinishRun(rs, r)[z]
<1> DEFINE S == {y \in Live(rs) : y = r \/ OnlyOneStepLeft(rs, y)}
           U == FinishedBy(rs, r)
<1>1. S \in SUBSET Run /\ U = UpFrom(S, r)
  BY DEF Live, FinishedBy
<1>2. x # r
  <2>1. SUFFICES ASSUME x = r PROVE FALSE
    OBVIOUS
  <2>2. r \in S
    BY <2>1
  <2> QED
    BY <1>1, <2>1, <2>2, UpFromClosed
<1>3. ASSUME NEW s \in Steps(x), s \in U
      PROVE  \E z \in Steps(x) : "finished" \notin FinishRun(rs, r)[z]
  <2>1. Parent[s] = x
    BY DEF Steps
  <2>2. r \in S
    BY <1>1, <1>3, UpFromNowhere
  <2>3. x \notin S
    BY <1>1, <1>3, <2>1, <2>2, UpFromClosed
  <2>4. PICK z \in Steps(x) \ {s} : "finished" \notin rs[z]
    BY <1>3, <2>3 DEF OnlyOneStepLeft
  <2>5. z \in Run /\ Parent[z] = x
    BY DEF Steps
  <2> HIDE DEF S, U
  <2>6. z \notin U
    BY <1>1, <1>3, <2>1, <2>3, <2>4, <2>5, OneEndOfTheWay
  <2>7. FinishRun(rs, r)[z] = rs[z]
    BY <2>5, <2>6 DEF FinishRun, U
  <2> QED
    BY <2>4, <2>7
<1> QED
  BY <1>2, <1>3

\* What the failure of a topmost run kills hangs from it, run by run.
LEMMA FailureKills ==
  ASSUME NEW rs \in RunStatus, NEW r \in Run,
         NEW x \in Live(rs), x \notin FailedBy(rs, r)
  PROVE  x \in KilledByFailure(rs, r) <=>
           \/ Parent[x] \in KilledByFailure(rs, r)
           \/ Parent[x] \in FailedBy(rs, r) /\ IsTopmost(Parent[x])
<1> DEFINE rem == Live(rs) \ FailedBy(rs, r)
           tops == FailedTop(rs, r)
           K == KilledByFailure(rs, r)
<1>1. K = UNION {Connected(rem, s) : s \in UNION {Steps(y) : y \in tops}}
  BY DEF KilledByFailure
<1>2. /\ x \in rem /\ rem \subseteq Run
      /\ \A y : y \in tops <=> y \in FailedBy(rs, r) /\ IsTopmost(y)
      /\ \A y \in tops : y \notin rem
  BY DEF FailedTop, Live
<1> HIDE DEF rem, tops, K
<1>3. ASSUME Parent[x] \in K
      PROVE  x \in K
  <2>1. PICK y \in tops : \E s \in Steps(y) : Parent[x] \in Connected(rem, s)
    BY <1>1, <1>3
  <2>2. PICK s \in Steps(y) : Parent[x] \in Connected(rem, s)
    BY <2>1
  <2>3. s \in rem
    BY <2>2, ConnectedNowhere
  <2>4. x \in Connected(rem, s)
    BY <1>2, <2>2, <2>3, ConnectedClosed DEF Beside
  <2> QED
    BY <1>1, <2>4
<1>4. ASSUME Parent[x] \in tops
      PROVE  x \in K
  <2>1. x \in Steps(Parent[x])
    BY <1>2 DEF Steps
  <2>2. x \in Connected(rem, x)
    BY <1>2, ConnectedClosed
  <2> QED
    BY <1>1, <1>4, <2>1, <2>2
<1>5. ASSUME x \in K
      PROVE  Parent[x] \in K \/ Parent[x] \in tops
  <2>1. PICK y \in tops : \E s \in Steps(y) : x \in Connected(rem, s)
    BY <1>1, <1>5
  <2>2. PICK s \in Steps(y) : x \in Connected(rem, s)
    BY <2>1
  <2>3. Parent[s] = y /\ Parent[s] \notin rem
    BY <1>2 DEF Steps
  <2>4. s \in rem
    BY <2>2, ConnectedNowhere
  <2> DEFINE C == {z \in rem : s \in UpFrom(rem, z)}
  <2>5. \A z \in rem : UpFrom(rem, z) = {z} \cup UpFrom(rem, Parent[z])
    BY UpFromStep
  <2>6. s \in C
    BY <2>4, <2>5
  <2>7. \A z \in C, w \in rem : Beside(z, w) => w \in C
    <3> SUFFICES ASSUME NEW z \in C, NEW w \in rem, Beside(z, w) PROVE w \in C
      OBVIOUS
    <3>1. CASE Parent[w] = z
      BY <2>5, <3>1
    <3>2. CASE Parent[z] = w
      BY <2>3, <2>5, <3>2
    <3> QED
      BY <3>1, <3>2 DEF Beside
  <2>8. Connected(rem, s) \subseteq C
    BY <2>6, <2>7, ConnectedLeast
  <2>9. CASE x = s
    BY <2>3, <2>9
  <2>10. CASE x # s
    <3>1. s \in UpFrom(rem, Parent[x])
      BY <2>2, <2>5, <2>8, <2>10
    <3>2. Parent[x] \in rem
      BY <3>1, UpFromNowhere
    <3>3. Parent[x] \in Connected(rem, s)
      BY <2>2, <2>4, <3>2, ConnectedClosed DEF Beside
    <3> QED
      BY <1>1, <3>3
  <2> QED
    BY <2>9, <2>10
<1> QED
  BY <1>2, <1>3, <1>4, <1>5 DEF K

\* What Run.kill writes hangs together.
LEMMA ConnectedIsOnePiece ==
  ASSUME NEW S, NEW r \in S, NEW A \in SUBSET Connected(S, r), A # {}, A # Connected(S, r)
  PROVE  \E x \in A, y \in Connected(S, r) \ A : Beside(x, y)
<1> DEFINE K == Connected(S, r)
<1>1. /\ r \in K /\ K \subseteq S
      /\ \A y \in K, z \in S : Beside(y, z) => z \in K
  BY ConnectedClosed, ConnectedInside
<1>2. SUFFICES ASSUME \A x \in A, y \in K \ A : ~Beside(x, y) PROVE FALSE
  OBVIOUS
<1>3. \A x, y : Beside(x, y) => Beside(y, x)
  BY DEF Beside
<1> HIDE DEF K
<1>4. CASE r \in A
  <2>1. \A y \in A, z \in S : Beside(y, z) => z \in A
    BY <1>1, <1>2 DEF K
  <2>2. A \in SUBSET S
    BY <1>1 DEF K
  <2>3. K \subseteq A
    BY <1>4, <2>1, <2>2, ConnectedLeast DEF K
  <2> QED
    BY <2>3 DEF K
<1>5. CASE r \notin A
  <2> DEFINE B == K \ A
  <2>1. \A y \in B, z \in S : Beside(y, z) => z \in B
    BY <1>1, <1>2, <1>3
  <2>2. B \in SUBSET S /\ r \in B
    BY <1>1, <1>5
  <2> HIDE DEF B
  <2>3. K \subseteq B
    BY <2>1, <2>2, ConnectedLeast DEF K
  <2> QED
    BY <2>3 DEF B, K
<1> QED
  BY <1>4, <1>5
=============================================================================
