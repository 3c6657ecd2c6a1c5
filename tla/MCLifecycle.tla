---------------------------- MODULE MCLifecycle ----------------------------
EXTENDS Lifecycle, TLC

CONSTANTS leaf, t1, t2, a1, a2

\* One leaf run at the top, one task.
SoloRun == {leaf}
SoloParent == (leaf :> NoRun)
SoloTask == {t1}
SoloTaskRun == (t1 :> leaf)
SoloUpstream == (t1 :> {})
SoloContents == (t1 :> "one")

\* A workflow of two steps; the second has a task with the contents of the first
\* step's and one with others, each fed by the first step's.
CONSTANTS top, first, second, t3
RelayRun == {top, first, second}
RelayParent == (top :> NoRun @@ first :> top @@ second :> top)
RelayTask == {t1, t2, t3}
RelayTaskRun == (t1 :> first @@ t2 :> second @@ t3 :> second)
RelayUpstream == (t1 :> {} @@ t2 :> {t1} @@ t3 :> {t1})
RelayContents == (t1 :> "same" @@ t2 :> "same" @@ t3 :> "other")

\* A workflow of three steps, the second and the third fed by the first, the third
\* with a command that cannot be rendered; and another such step that runs alone.
CONSTANTS third, t4
FanRun == {top, first, second, third, leaf}
FanParent == (top :> NoRun @@ first :> top @@ second :> top @@ third :> top @@ leaf :> NoRun)
FanTask == {t1, t2, t3, t4}
FanTaskRun == (t1 :> first @@ t2 :> second @@ t3 :> third @@ t4 :> leaf)
FanUpstream == (t1 :> {} @@ t2 :> {t1} @@ t3 :> {t1} @@ t4 :> {})
FanContents == (t1 :> "one" @@ t2 :> "two" @@ t3 :> "three" @@ t4 :> "four")

Kinds == {"system", "analysis", "timeout"}
NoRetries == [k \in Kinds |-> 0]
OneSystemRetry == [k \in Kinds |-> IF k = "system" THEN 1 ELSE 0]

OneAttempt == {a1}
TwoAttempts == {a1, a2}
AttemptSymmetry == Permutations(Attempt)
=============================================================================
