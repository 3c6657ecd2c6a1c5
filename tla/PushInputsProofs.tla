---------------------------- MODULE PushInputsProofs ----------------------------
(***************************************************************************)
(* Proofs about PushInputs, for any workflows and any number of pushes,    *)
(* overlapping pushes and deaths.                                          *)
(*                                                                         *)
(* First the input sets, by induction over the inputs of a group and over  *)
(* the groups: they are at the data paths that are ready, and these form a *)
(* tree.  Then the inductive invariant, part by part, and what follows     *)
(* from it: the end of a run and the refinement of TaskFlow.               *)
(***************************************************************************)
EXTENDS PushInputs, Induction

Paths == Seq(Nat \X Nat)

-----------------------------------------------------------------------------
(* Paths and their prefixes.                                               *)

\* A prefix agrees with the path as far as it goes.
LEMMA PrefixPointwise ==
  ASSUME NEW p \in Paths, NEW q \in Paths
  PROVE  IsPrefix(p, q) <=> Len(p) <= Len(q) /\ \A i \in 1..Len(p) : p[i] = q[i]
<1>1. ASSUME NEW s \in Paths, NEW k \in 0..Len(s)
      PROVE  /\ SubSeq(s, 1, k) \in Paths
             /\ Len(SubSeq(s, 1, k)) = k
             /\ \A i \in 1..k : SubSeq(s, 1, k)[i] = s[i]
  BY SubSequence DEF Paths
<1>2. ASSUME NEW s \in Paths, NEW t \in Paths, Len(s) = Len(t), \A i \in 1..Len(s) : s[i] = t[i]
      PROVE  s = t
  BY <1>2, SameSequence DEF Paths
<1>3. Len(p) \in Nat /\ Len(q) \in Nat
  BY DEF Paths
<1>4. CASE Len(p) <= Len(q)
  <2>1. Len(p) \in 0..Len(q) /\ Len(p) \in 0..Len(p)
    BY <1>3, <1>4
  <2>2. /\ SubSeq(p, 1, Len(p)) \in Paths /\ Len(SubSeq(p, 1, Len(p))) = Len(p)
        /\ SubSeq(q, 1, Len(p)) \in Paths /\ Len(SubSeq(q, 1, Len(p))) = Len(p)
        /\ \A i \in 1..Len(p) : SubSeq(p, 1, Len(p))[i] = p[i] /\ SubSeq(q, 1, Len(p))[i] = q[i]
    BY <1>1, <2>1
  <2>3. SubSeq(p, 1, Len(p)) = SubSeq(q, 1, Len(p)) <=> \A i \in 1..Len(p) : p[i] = q[i]
    BY <1>2, <2>2
  <2> QED
    BY <1>4, <2>3 DEF IsPrefix
<1>5. CASE ~(Len(p) <= Len(q))
  BY <1>5 DEF IsPrefix
<1> QED
  BY <1>4, <1>5

\* Prefixes of one path are ordered by their length.
LEMMA PrefixOrder ==
  ASSUME NEW p \in Paths, NEW q \in Paths, NEW r \in Paths
  PROVE  /\ IsPrefix(<<>>, p) /\ IsPrefix(p, p)
         /\ IsPrefix(p, <<>>) => p = <<>>
         /\ IsPrefix(p, q) /\ IsPrefix(q, r) => IsPrefix(p, r)
         /\ IsPrefix(p, r) /\ IsPrefix(q, r) /\ Len(p) <= Len(q) => IsPrefix(p, q)
         /\ IsPrefix(p, q) /\ Len(q) <= Len(p) => p = q
<1>1. <<>> \in Paths /\ Len(<<>>) = 0
  BY DEF Paths
<1>2. Len(p) \in Nat /\ Len(q) \in Nat /\ Len(r) \in Nat
  BY DEF Paths
<1>3. IsPrefix(<<>>, p) /\ IsPrefix(p, p)
  BY <1>1, <1>2, PrefixPointwise
<1>4. IsPrefix(p, q) /\ IsPrefix(q, r) => IsPrefix(p, r)
  BY <1>2, PrefixPointwise
<1>5. IsPrefix(p, r) /\ IsPrefix(q, r) /\ Len(p) <= Len(q) => IsPrefix(p, q)
  BY <1>2, PrefixPointwise
<1>6. ASSUME NEW s \in Paths, IsPrefix(p, s), Len(s) <= Len(p) PROVE p = s
  <2>1. Len(s) \in Nat /\ Len(p) <= Len(s) /\ \A i \in 1..Len(p) : p[i] = s[i]
    BY <1>6, PrefixPointwise DEF Paths
  <2>2. Len(s) = Len(p)
    BY <1>2, <1>6, <2>1
  <2> QED
    BY <2>1, <2>2, SameSequence DEF Paths
<1>7. IsPrefix(p, q) /\ Len(q) <= Len(p) => p = q
  BY <1>6
<1>8. IsPrefix(p, <<>>) => p = <<>>
  BY <1>1, <1>2, <1>6
<1> QED
  BY <1>3, <1>4, <1>5, <1>7, <1>8

\* What gathering leaves of a path is a prefix.
LEMMA TruncatedPath ==
  ASSUME NEW p \in Paths, NEW depth \in Nat
  PROVE  Truncated(p, depth) \in Paths /\ IsPrefix(Truncated(p, depth), p)
<1> DEFINE k == Len(p) - (IF depth > Len(p) THEN Len(p) ELSE depth)
<1>1. Truncated(p, depth) = SubSeq(p, 1, k)
  BY DEF Truncated
<1>2. k \in 0..Len(p)
  BY DEF Paths
<1> HIDE DEF k
<1>3. /\ SubSeq(p, 1, k) \in Paths
      /\ Len(SubSeq(p, 1, k)) = k
      /\ \A i \in 1..k : SubSeq(p, 1, k)[i] = p[i]
  BY <1>2, SubSequence DEF Paths
<1>4. Len(p) \in Nat /\ k <= Len(p)
  BY <1>2 DEF Paths
<1>5. IsPrefix(SubSeq(p, 1, k), p)
  <2> DEFINE s == SubSeq(p, 1, k)
  <2>1. s \in Paths /\ Len(s) = k /\ \A i \in 1..k : s[i] = p[i]
    BY <1>3
  <2> HIDE DEF s
  <2>2. IsPrefix(s, p)
    BY <1>4, <2>1, PrefixPointwise
  <2> QED
    BY <2>2 DEF s
<1> QED
  BY <1>1, <1>3, <1>5

\* Of the prefixes of a path that the inputs offer, one is the longest.
LEMMA LongestPrefix ==
  ASSUME NEW S \in SUBSET Paths, NEW path \in Paths, S # {}, \A q \in S : IsPrefix(q, path)
  PROVE  \E a \in S : \A q \in S : IsPrefix(q, a)
<1> DEFINE T == {Len(path) - Len(q) : q \in S}
<1>1. \A q \in S : Len(q) \in Nat /\ Len(path) \in Nat /\ Len(path) - Len(q) \in Nat
  BY PrefixPointwise DEF Paths
<1>2. PICK t \in T : \A u \in T : t <= u
  <2>1. T \in SUBSET Nat /\ T # {}
    BY <1>1
  <2> HIDE DEF T
  <2> QED
    BY <2>1, LeastNumber
<1>3. PICK a \in S : t = Len(path) - Len(a)
  BY <1>2
<1>4. \A q \in S : Len(path) - Len(a) <= Len(path) - Len(q)
  BY <1>2, <1>3
<1>5. \A q \in S : Len(q) <= Len(a)
  BY <1>1, <1>4
<1> QED
  BY <1>5, PrefixOrder

-----------------------------------------------------------------------------
(* Input sets, input by input and group by group.                          *)

\* Group goes from one input to the next.
GroupValues(inputs, n, data, f) ==
  /\ f[0] = {<<>>}
  /\ \A k \in 1..n : f[k] = DotProduct(f[k - 1], Generator(inputs[k], data))
  /\ Group(inputs, data) = f[n]

\* The fold in Group is recursion over the inputs of the group.
LEMMA GroupSteps ==
  ASSUME NEW inputs, NEW n \in Nat, DOMAIN inputs = 1..n, NEW data,
         \A i \in 1..n : Generator(inputs[i], data) \subseteq Paths
  PROVE  \E f : GroupValues(inputs, n, data, f)
<1> DEFINE G == [i \in DOMAIN inputs |-> Generator(inputs[i], data)]
           Rec(f) == [s \in SUBSET DOMAIN G |->
                        IF s = {} THEN {<<>>} ELSE DotProduct(f[s \ {Max(s)}], G[Max(s)])]
           fold == CHOOSE f : f = Rec(f)
           X == SUBSET Paths
           step == [kx \in (Nat \ {0}) \X X |->
                      IF kx[1] \in 1..n THEN DotProduct(kx[2], Generator(inputs[kx[1]], data)) ELSE {}]
<1>1. Group(inputs, data) = fold[DOMAIN G]
  BY DEF Group, FoldLeft, MapThenFoldSet
<1>2. {<<>>} \in X
  BY DEF Paths
<1>3. step \in [(Nat \ {0}) \X X -> X]
  <2> SUFFICES ASSUME NEW k \in 1..n, NEW x \in X
               PROVE  DotProduct(x, Generator(inputs[k], data)) \in X
    OBVIOUS
  <2> QED
    BY DEF DotProduct
<1>4. \A k \in 1..n, x \in X : step[<<k, x>>] = DotProduct(x, Generator(inputs[k], data))
  OBVIOUS
<1>5. PICK f \in [SUBSET (1..n) -> X] : FoldOver(n, {<<>>}, step, f)
  <2> HIDE DEF X, step
  <2> QED
    BY <1>2, <1>3, FoldExists
<1>6. \A s \in SUBSET (1..n) : s # {} => Max(s) \in 1..n /\ s \ {Max(s)} \in SUBSET (1..n)
  BY Largest
<1> HIDE DEF step, X
<1>7. f = Rec(f)
  <2>1. \A s \in SUBSET (1..n) : s # {} => G[Max(s)] = Generator(inputs[Max(s)], data)
    BY <1>6
  <2>2. \A s \in SUBSET (1..n) :
          f[s] = IF s = {} THEN {<<>>} ELSE DotProduct(f[s \ {Max(s)}], G[Max(s)])
    BY <1>4, <1>5, <1>6, <2>1 DEF FoldOver
  <2> QED
    BY <2>2
<1>8. fold = Rec(fold)
  <2> HIDE DEF Rec
  <2> QED
    BY <1>7
<1> HIDE DEF fold
<1>9. fold[1..0] = {<<>>}
  <2>1. 1..0 = {}
    OBVIOUS
  <2> QED
    BY <1>8, <2>1
<1>10. ASSUME NEW k \in 1..n
       PROVE  fold[1..k] = DotProduct(fold[1..(k - 1)], Generator(inputs[k], data))
  <2>1. 1..k # {} /\ Max(1..k) = k /\ (1..k) \ {k} = 1..(k - 1)
    <3>1. k \in Nat /\ k # 0
      OBVIOUS
    <3> QED
      BY <3>1, LargestOfInterval
  <2>2. 1..k \in SUBSET DOMAIN G /\ G[k] = Generator(inputs[k], data)
    OBVIOUS
  <2>3. fold[1..k] = Rec(fold)[1..k]
    <3> HIDE DEF Rec
    <3> QED
      BY <1>8
  <2> HIDE DEF G
  <2>4. Rec(fold)[1..k] = DotProduct(fold[(1..k) \ {Max(1..k)}], G[Max(1..k)])
    BY <2>1, <2>2
  <2> HIDE DEF Rec
  <2> QED
    BY <2>1, <2>2, <2>3, <2>4
<1> DEFINE values == [k \in 0..n |-> fold[1..k]]
<1>11. values[0] = {<<>>}
  BY <1>9
<1>12. \A k \in 1..n : values[k] = DotProduct(values[k - 1], Generator(inputs[k], data))
  BY <1>10
<1>13. Group(inputs, data) = values[n]
  BY <1>1
<1> HIDE DEF values
<1> QED
  BY <1>11, <1>12, <1>13 DEF GroupValues

\* InputSets goes from one group to the next.
InputSetsValues(groups, n, data, f) ==
  /\ f[0] = {<<>>}
  /\ \A k \in 1..n : f[k] = CrossProduct(f[k - 1], Group(groups[k], data))
  /\ InputSets(groups, data) = f[n]

\* The fold in InputSets is recursion over the groups.
LEMMA InputSetsSteps ==
  ASSUME NEW groups, NEW n \in Nat, DOMAIN groups = 1..n, NEW data,
         \A i \in 1..n : Group(groups[i], data) \subseteq Paths
  PROVE  \E f : InputSetsValues(groups, n, data, f)
<1> DEFINE G == [i \in DOMAIN groups |-> Group(groups[i], data)]
           Rec(f) == [s \in SUBSET DOMAIN G |->
                        IF s = {} THEN {<<>>} ELSE CrossProduct(f[s \ {Max(s)}], G[Max(s)])]
           fold == CHOOSE f : f = Rec(f)
           X == SUBSET Paths
           step == [kx \in (Nat \ {0}) \X X |->
                      IF kx[1] \in 1..n THEN CrossProduct(kx[2], Group(groups[kx[1]], data)) ELSE {}]
<1>1. InputSets(groups, data) = fold[DOMAIN G]
  BY DEF InputSets, FoldLeft, MapThenFoldSet
<1>2. {<<>>} \in X
  BY DEF Paths
<1>3. step \in [(Nat \ {0}) \X X -> X]
  <2> SUFFICES ASSUME NEW k \in 1..n, NEW x \in X
               PROVE  CrossProduct(x, Group(groups[k], data)) \in X
    OBVIOUS
  <2> QED
    <3>1. \A a \in x, b \in Group(groups[k], data) : a \in Paths /\ b \in Paths
      OBVIOUS
    <3>2. \A a, b \in Paths : a \o b \in Paths
      BY DEF Paths
    <3>3. ASSUME NEW c \in CrossProduct(x, Group(groups[k], data)) PROVE c \in Paths
      <4>1. PICK a \in x, b \in Group(groups[k], data) : c = a \o b
        BY DEF CrossProduct
      <4> QED
        BY <3>1, <3>2, <4>1
    <3> QED
      BY <3>3
<1>4. \A k \in 1..n, x \in X : step[<<k, x>>] = CrossProduct(x, Group(groups[k], data))
  OBVIOUS
<1>5. PICK f \in [SUBSET (1..n) -> X] : FoldOver(n, {<<>>}, step, f)
  <2> HIDE DEF X, step
  <2> QED
    BY <1>2, <1>3, FoldExists
<1>6. \A s \in SUBSET (1..n) : s # {} => Max(s) \in 1..n /\ s \ {Max(s)} \in SUBSET (1..n)
  BY Largest
<1> HIDE DEF step, X
<1>7. f = Rec(f)
  <2>1. \A s \in SUBSET (1..n) : s # {} => G[Max(s)] = Group(groups[Max(s)], data)
    BY <1>6
  <2>2. \A s \in SUBSET (1..n) :
          f[s] = IF s = {} THEN {<<>>} ELSE CrossProduct(f[s \ {Max(s)}], G[Max(s)])
    BY <1>4, <1>5, <1>6, <2>1 DEF FoldOver
  <2> QED
    BY <2>2
<1>8. fold = Rec(fold)
  <2> HIDE DEF Rec
  <2> QED
    BY <1>7
<1> HIDE DEF fold
<1>9. fold[1..0] = {<<>>}
  <2>1. 1..0 = {}
    OBVIOUS
  <2> QED
    BY <1>8, <2>1
<1>10. ASSUME NEW k \in 1..n
       PROVE  fold[1..k] = CrossProduct(fold[1..(k - 1)], Group(groups[k], data))
  <2>1. 1..k # {} /\ Max(1..k) = k /\ (1..k) \ {k} = 1..(k - 1)
    <3>1. k \in Nat /\ k # 0
      OBVIOUS
    <3> QED
      BY <3>1, LargestOfInterval
  <2>2. 1..k \in SUBSET DOMAIN G /\ G[k] = Group(groups[k], data)
    OBVIOUS
  <2>3. fold[1..k] = Rec(fold)[1..k]
    <3> HIDE DEF Rec
    <3> QED
      BY <1>8
  <2> HIDE DEF G
  <2>4. Rec(fold)[1..k] = CrossProduct(fold[(1..k) \ {Max(1..k)}], G[Max(1..k)])
    BY <2>1, <2>2
  <2> HIDE DEF Rec
  <2> QED
    BY <2>1, <2>2, <2>3, <2>4
<1> DEFINE values == [k \in 0..n |-> fold[1..k]]
<1>11. values[0] = {<<>>}
  BY <1>9
<1>12. \A k \in 1..n : values[k] = CrossProduct(values[k - 1], Group(groups[k], data))
  BY <1>10
<1>13. InputSets(groups, data) = values[n]
  BY <1>1
<1> HIDE DEF values
<1> QED
  BY <1>11, <1>12, <1>13 DEF InputSetsValues

\* A data path that is ready is one of a leaf that is there: get_ready_data_nodes, which
\* starts from the data that is there, misses none.
LEMMA GeneratorMatches ==
  ASSUME NEW input \in InputRecord, NEW data
  PROVE  /\ Generator(input, data) = ReadyPaths(input, data)
         /\ ReadyPaths(input, data) \subseteq Paths
<1>1. input.leaves \subseteq Paths /\ input.gather \in Nat
  BY DEF InputRecord, Paths
<1>2. \A leaf \in input.leaves : /\ Truncated(leaf, input.gather) \in Paths
                                 /\ IsPrefix(Truncated(leaf, input.gather), leaf)
  BY <1>1, TruncatedPath
<1>3. \A leaf \in input.leaves : IsReady(input, Truncated(leaf, input.gather), data)
                                   => <<input.name, leaf>> \in data
  BY <1>2 DEF IsReady
<1> QED
  BY <1>2, <1>3 DEF Generator, ReadyPaths

\* The paths of the first k inputs that have a prefix in each of the others.
AgreeingAmong(R, k) ==
  {path \in UNION {R[i] : i \in 1..k} : \A i \in 1..k : \E q \in R[i] : IsPrefix(q, path)}

\* The walk of get_node goes down one tree with the paths of another, and its order could
\* matter; input by input it comes to the longest of the paths that agree.
LEMMA DotProducts ==
  ASSUME NEW n \in Nat \ {0}, NEW R \in [1..n -> SUBSET Paths], NEW f,
         f[0] = {<<>>}, \A k \in 1..n : f[k] = DotProduct(f[k - 1], R[k])
  PROVE  f[n] = AgreeingAmong(R, n)
<1> DEFINE S == {k \in Nat : k + 1 <= n => f[k + 1] = AgreeingAmong(R, k + 1)}
<1>1. 0 \in S
  <2>1. f[1] = DotProduct({<<>>}, R[1]) /\ R[1] \in SUBSET Paths
    <3>1. 1 \in 1..n /\ 1 - 1 = 0
      OBVIOUS
    <3> QED
      BY <3>1
  <2>2. 1..1 = {1}
    OBVIOUS
  <2>3. AgreeingAmong(R, 1) = {path \in R[1] : \E q \in R[1] : IsPrefix(q, path)}
    BY <2>2 DEF AgreeingAmong
  <2>4. AgreeingAmong(R, 1) = R[1]
    <3>1. \A path \in R[1] : IsPrefix(path, path)
      BY <2>1, PrefixOrder
    <3> QED
      BY <2>3, <3>1
  <2>5. DotProduct({<<>>}, R[1]) = R[1]
    BY <2>1, PrefixOrder DEF DotProduct
  <2> QED
    BY <2>1, <2>4, <2>5
<1>2. ASSUME NEW k \in Nat, k \in S PROVE k + 1 \in S
  <2> SUFFICES ASSUME k + 2 <= n PROVE f[k + 2] = AgreeingAmong(R, k + 2)
    OBVIOUS
  <2> DEFINE A == AgreeingAmong(R, k + 1)
             B == R[k + 2]
  <2>1. f[k + 2] = DotProduct(A, B)
    BY <1>2
  <2>2. B \in SUBSET Paths /\ \A i \in 1..(k + 1) : R[i] \in SUBSET Paths
    OBVIOUS
  <2>3. \A i : i \in 1..(k + 2) <=> i \in 1..(k + 1) \/ i = k + 2
    OBVIOUS
  <2>4. \A path : path \in A <=> /\ \E i \in 1..(k + 1) : path \in R[i]
                                 /\ \A i \in 1..(k + 1) : \E q \in R[i] : IsPrefix(q, path)
    BY DEF AgreeingAmong
  <2>5. \A path : path \in AgreeingAmong(R, k + 2) <=>
          /\ path \in B \/ \E i \in 1..(k + 1) : path \in R[i]
          /\ \E q \in B : IsPrefix(q, path)
          /\ \A i \in 1..(k + 1) : \E q \in R[i] : IsPrefix(q, path)
    BY <2>3 DEF AgreeingAmong
  <2>6. \A path : path \in DotProduct(A, B) <=>
          \/ path \in B /\ \E a \in A : IsPrefix(a, path)
          \/ path \in A /\ \E b \in B : IsPrefix(b, path)
    BY DEF DotProduct
  <2>7. A \in SUBSET Paths
    BY <2>2, <2>4
  <2> HIDE DEF A, B, S
  <2>8. ASSUME NEW path, path \in DotProduct(A, B) PROVE path \in AgreeingAmong(R, k + 2)
    <3>1. CASE path \in A /\ \E b \in B : IsPrefix(b, path)
      BY <3>1, <2>4, <2>5
    <3>2. CASE path \in B /\ \E a \in A : IsPrefix(a, path)
      <4>1. PICK a \in A : IsPrefix(a, path)
        BY <3>2
      <4>2. path \in Paths /\ a \in Paths
        BY <2>2, <2>7, <3>2
      <4>3. IsPrefix(path, path)
        BY <4>2, PrefixOrder
      <4>4. ASSUME NEW i \in 1..(k + 1) PROVE \E q \in R[i] : IsPrefix(q, path)
        <5>1. PICK q \in R[i] : IsPrefix(q, a)
          BY <2>4
        <5>2. q \in Paths
          BY <2>2
        <5> QED
          BY <4>1, <4>2, <5>1, <5>2, PrefixOrder
      <4> QED
        BY <2>5, <3>2, <4>3, <4>4
    <3> QED
      BY <2>6, <2>8, <3>1, <3>2
  <2>9. ASSUME NEW path, path \in AgreeingAmong(R, k + 2) PROVE path \in DotProduct(A, B)
    <3>1. CASE \E i \in 1..(k + 1) : path \in R[i]
      BY <2>4, <2>5, <2>6, <2>9, <3>1
    <3>2. CASE path \in B
      <4> DEFINE Q == {q \in UNION {R[i] : i \in 1..(k + 1)} : IsPrefix(q, path)}
      <4>1. Q \in SUBSET Paths /\ path \in Paths
        BY <2>2, <3>2
      <4>2. 1 \in 1..(k + 1)
        OBVIOUS
      <4>3. Q # {}
        BY <2>5, <2>9, <4>2
      <4>4. PICK a \in Q : \A q \in Q : IsPrefix(q, a)
        BY <4>1, <4>3, LongestPrefix
      <4>5. \A i \in 1..(k + 1) : \E q \in R[i] : IsPrefix(q, a)
        BY <2>5, <2>9, <4>4
      <4>6. a \in A
        BY <2>4, <4>4, <4>5
      <4> QED
        BY <2>6, <3>2, <4>4, <4>6
    <3> QED
      BY <2>5, <2>9, <3>1, <3>2
  <2> QED
    BY <2>1, <2>8, <2>9
<1> HIDE DEF S
<1>3. Nat \subseteq S
  BY <1>1, <1>2, EveryNumber
<1>4. n - 1 \in S /\ (n - 1) + 1 = n
  BY <1>3
<1> QED
  BY <1>4 DEF S

\* What a group of inputs offers is what agrees.
LEMMA GroupMatches ==
  ASSUME NEW inputs \in Seq(InputRecord) \ {<<>>}, NEW data
  PROVE  /\ Group(inputs, data) = Agreeing(inputs, data)
         /\ Agreeing(inputs, data) \subseteq Paths
<1> DEFINE n == Len(inputs)
           R == [i \in 1..n |-> ReadyPaths(inputs[i], data)]
<1>1. n \in Nat \ {0} /\ DOMAIN inputs = 1..n /\ \A i \in 1..n : inputs[i] \in InputRecord
  OBVIOUS
<1> HIDE DEF n
<1>2. \A i \in 1..n : /\ Generator(inputs[i], data) = R[i]
                      /\ Generator(inputs[i], data) \subseteq Paths
                      /\ R[i] \subseteq Paths
                      /\ R[i] = ReadyPaths(inputs[i], data)
  BY <1>1, GeneratorMatches
<1>3. R \in [1..n -> SUBSET Paths]
  BY <1>2
<1>4. PICK f : GroupValues(inputs, n, data, f)
  <2>1. n \in Nat /\ DOMAIN inputs = 1..n
    BY <1>1
  <2>2. \A i \in 1..n : Generator(inputs[i], data) \subseteq Paths
    BY <1>2
  <2> QED
    BY <2>1, <2>2, GroupSteps
<1>5. \A k \in 1..n : f[k] = DotProduct(f[k - 1], R[k])
  BY <1>2, <1>4 DEF GroupValues
<1> HIDE DEF R
<1>6. f[n] = AgreeingAmong(R, n)
  BY <1>1, <1>3, <1>4, <1>5, DotProducts DEF GroupValues
<1>7. AgreeingAmong(R, n) = Agreeing(inputs, data)
  BY <1>1, <1>2 DEF AgreeingAmong, Agreeing
<1>8. Agreeing(inputs, data) \subseteq Paths
  BY <1>1, <1>2 DEF Agreeing
<1> QED
  BY <1>4, <1>6, <1>7, <1>8 DEF GroupValues

\* A path for each of k groups.
OnePerGroup(A, k) == {c \in Seq(Paths) : Len(c) = k /\ \A g \in 1..k : c[g] \in A[g]}

\* The concatenations of two paths.
LEMMA CrossProductMember ==
  ASSUME NEW A \in SUBSET Paths, NEW B \in SUBSET Paths
  PROVE  /\ \A x \in CrossProduct(A, B) : \E a \in A, b \in B : x = a \o b
         /\ \A a \in A, b \in B : a \o b \in CrossProduct(A, B)
<1>1. ASSUME NEW x \in CrossProduct(A, B) PROVE \E a \in A, b \in B : x = a \o b
  BY DEF CrossProduct
<1>2. ASSUME NEW a \in A, NEW b \in B PROVE a \o b \in CrossProduct(A, B)
  BY DEF CrossProduct
<1> QED
  BY <1>1, <1>2

\* Group by group, cross products come to every combination.
LEMMA CrossProducts ==
  ASSUME NEW n \in Nat, NEW A \in [1..n -> SUBSET Paths], NEW f,
         f[0] = {<<>>}, \A k \in 1..n : f[k] = CrossProduct(f[k - 1], A[k])
  PROVE  f[n] = {FlattenSeq(c) : c \in OnePerGroup(A, n)}
<1> DEFINE S == {k \in Nat : k <= n => f[k] = {FlattenSeq(c) : c \in OnePerGroup(A, k)}}
<1>1. 0 \in S
  <2>1. \A c \in OnePerGroup(A, 0) : c = <<>>
    BY DEF OnePerGroup
  <2>2. <<>> \in OnePerGroup(A, 0)
    BY DEF OnePerGroup, Paths
  <2>3. FlattenSeq(<<>>) = <<>>
    BY DEF FlattenSeq
  <2> QED
    BY <2>1, <2>2, <2>3
<1>2. ASSUME NEW k \in Nat, k \in S PROVE k + 1 \in S
  <2> SUFFICES ASSUME k + 1 <= n
               PROVE  f[k + 1] = {FlattenSeq(c) : c \in OnePerGroup(A, k + 1)}
    OBVIOUS
  <2>1. k + 1 \in 1..n /\ (k + 1) - 1 = k /\ k <= n
    OBVIOUS
  <2>2. f[k + 1] = CrossProduct(f[k], A[k + 1]) /\ f[k] = {FlattenSeq(c) : c \in OnePerGroup(A, k)}
    BY <1>2, <2>1
  <2>3. A[k + 1] \subseteq Paths /\ f[k] \subseteq Paths
    BY <2>1, <2>2, FlattenStep DEF OnePerGroup, Paths
  <2> HIDE DEF S
  <2> DEFINE F == f[k]
             B == A[k + 1]
  <2> HIDE DEF F, B
  <2>30. /\ \A x \in CrossProduct(F, B) : \E a \in F, b \in B : x = a \o b
         /\ \A a \in F, b \in B : a \o b \in CrossProduct(F, B)
    <3>1. F \in SUBSET Paths /\ B \in SUBSET Paths
      BY <2>3 DEF F, B
    <3> QED
      BY <3>1, CrossProductMember
  <2>4. ASSUME NEW c \in OnePerGroup(A, k), NEW b \in A[k + 1]
        PROVE  Append(c, b) \in OnePerGroup(A, k + 1) /\ FlattenSeq(Append(c, b)) = FlattenSeq(c) \o b
    <3>1. c \in Seq(Paths) /\ Len(c) = k /\ b \in Paths /\ \A g \in 1..k : c[g] \in A[g]
      BY <2>3 DEF OnePerGroup
    <3>2. Append(c, b) \in Seq(Paths) /\ Len(Append(c, b)) = k + 1
      BY <3>1
    <3>3. \A g \in 1..(k + 1) : Append(c, b)[g] = IF g = k + 1 THEN b ELSE c[g]
      BY <3>1
    <3>4. \A g \in 1..(k + 1) : Append(c, b)[g] \in A[g]
      BY <3>1, <3>3
    <3>5. FlattenSeq(Append(c, b)) = FlattenSeq(c) \o b
      BY <3>1, FlattenStep DEF Paths
    <3> QED
      BY <3>2, <3>4, <3>5 DEF OnePerGroup
  <2>5. ASSUME NEW c \in OnePerGroup(A, k + 1)
        PROVE  /\ SubSeq(c, 1, k) \in OnePerGroup(A, k)
               /\ c[k + 1] \in A[k + 1]
               /\ FlattenSeq(c) = FlattenSeq(SubSeq(c, 1, k)) \o c[k + 1]
    <3>1. c \in Seq(Paths) /\ Len(c) = k + 1 /\ \A g \in 1..(k + 1) : c[g] \in A[g]
      BY DEF OnePerGroup
    <3> DEFINE d == SubSeq(c, 1, k)
    <3>2. k \in 0..Len(c)
      BY <3>1
    <3>3. d \in Seq(Paths) /\ Len(d) = k /\ \A g \in 1..k : d[g] = c[g]
      BY <3>1, <3>2, SubSequence
    <3> HIDE DEF d
    <3>4. c[k + 1] \in Paths /\ c[k + 1] \in A[k + 1]
      BY <3>1
    <3>5. Append(d, c[k + 1]) \in Seq(Paths) /\ Len(Append(d, c[k + 1])) = k + 1
      BY <3>3, <3>4
    <3>6. \A g \in 1..(k + 1) : Append(d, c[k + 1])[g] = c[g]
      BY <3>3, <3>4
    <3>7. Append(d, c[k + 1]) = c
      BY <3>1, <3>5, <3>6, SameSequence
    <3>8. FlattenSeq(c) = FlattenSeq(d) \o c[k + 1]
      <4> DEFINE b == c[k + 1]
      <4>1. d \in Seq(Paths) /\ b \in Paths /\ Append(d, b) = c
        BY <3>3, <3>4, <3>7
      <4> HIDE DEF b
      <4>2. FlattenSeq(Append(d, b)) = FlattenSeq(d) \o b
        BY <4>1, FlattenStep DEF Paths
      <4>3. FlattenSeq(c) = FlattenSeq(d) \o b
        BY <4>1, <4>2
      <4> QED
        BY <4>3 DEF b
    <3>9. d \in OnePerGroup(A, k)
      BY <3>1, <3>3 DEF OnePerGroup
    <3> QED
      BY <3>4, <3>8, <3>9 DEF d
  <2>6. ASSUME NEW x, x \in CrossProduct(f[k], A[k + 1])
        PROVE  x \in {FlattenSeq(c) : c \in OnePerGroup(A, k + 1)}
    <3>1. PICK a \in f[k], b \in A[k + 1] : x = a \o b
      BY <2>6, <2>30 DEF F, B
    <3>2. PICK c \in OnePerGroup(A, k) : a = FlattenSeq(c)
      BY <2>2
    <3> QED
      BY <2>4, <3>1, <3>2
  <2>7. ASSUME NEW c \in OnePerGroup(A, k + 1)
        PROVE  FlattenSeq(c) \in CrossProduct(f[k], A[k + 1])
    <3>1. FlattenSeq(SubSeq(c, 1, k)) \in f[k]
      BY <2>2, <2>5
    <3> QED
      BY <2>5, <2>30, <3>1 DEF F, B
  <2> QED
    BY <2>2, <2>6, <2>7
<1>3. n \in S
  <2> HIDE DEF S
  <2> QED
    BY <1>1, <1>2, EveryNumber
<1> QED
  BY <1>3

\* InputCalculator: for any groups of inputs and any data, the input sets are at the data
\* paths all of whose inputs are ready, as its documentation says.
THEOREM InputSetsMatchReady ==
  ASSUME NEW groups \in Seq(Seq(InputRecord) \ {<<>>}), NEW data
  PROVE  /\ InputSets(groups, data) = Ready(groups, data)
         /\ Ready(groups, data) \subseteq Paths
<1> DEFINE n == Len(groups)
           A == [g \in 1..n |-> Agreeing(groups[g], data)]
<1>1. n \in Nat /\ DOMAIN groups = 1..n /\ \A g \in 1..n : groups[g] \in Seq(InputRecord) \ {<<>>}
  OBVIOUS
<1> HIDE DEF n
<1>2. \A g \in 1..n : /\ Group(groups[g], data) = A[g]
                      /\ Group(groups[g], data) \subseteq Paths
                      /\ A[g] \subseteq Paths
                      /\ A[g] = Agreeing(groups[g], data)
  BY <1>1, GroupMatches
<1>3. A \in [1..n -> SUBSET Paths]
  BY <1>2
<1> HIDE DEF A
<1>4. PICK f : InputSetsValues(groups, n, data, f)
  <2>1. \A g \in 1..n : Group(groups[g], data) \subseteq Paths
    BY <1>2
  <2> QED
    BY <1>1, <2>1, InputSetsSteps
<1>5. f[0] = {<<>>} /\ \A k \in 1..n : f[k] = CrossProduct(f[k - 1], A[k])
  BY <1>2, <1>4 DEF InputSetsValues
<1>6. InputSets(groups, data) = {FlattenSeq(c) : c \in OnePerGroup(A, n)}
  <2>1. f[n] = {FlattenSeq(c) : c \in OnePerGroup(A, n)}
    BY <1>1, <1>3, <1>5, CrossProducts
  <2> QED
    BY <1>4, <2>1 DEF InputSetsValues
<1> DEFINE U == UNION {Agreeing(groups[g], data) : g \in DOMAIN groups}
           D == {d \in [DOMAIN groups -> U] : \A g \in DOMAIN groups : d[g] \in Agreeing(groups[g], data)}
<1>7. ASSUME NEW d \in D PROVE d \in OnePerGroup(A, n)
  <2>1. DOMAIN d = 1..n /\ d \in [1..n -> Paths] /\ \A g \in 1..n : d[g] \in A[g]
    BY <1>1, <1>2
  <2>2. d \in Seq(Paths) /\ Len(d) = n
    <3> HIDE DEF D
    <3> QED
      BY <1>1, <2>1, FunctionSequence
  <2> QED
    BY <2>1, <2>2 DEF OnePerGroup
<1>8. ASSUME NEW c \in OnePerGroup(A, n) PROVE c \in D
  <2>1. c \in Seq(Paths) /\ Len(c) = n /\ \A g \in 1..n : c[g] \in A[g]
    BY DEF OnePerGroup
  <2>2. c \in [1..n -> Paths]
    BY <2>1
  <2>3. \A g \in DOMAIN groups : c[g] \in Agreeing(groups[g], data) /\ c[g] \in U
    BY <1>1, <1>2, <2>1
  <2> QED
    BY <1>1, <2>2, <2>3
<1> HIDE DEF U, D
<1>9. D = OnePerGroup(A, n)
  BY <1>7, <1>8
<1>10. InputSets(groups, data) = Ready(groups, data)
  BY <1>6, <1>9 DEF Ready, D, U
<1>11. \A c \in OnePerGroup(A, n) : FlattenSeq(c) \in Paths
  BY FlattenStep DEF OnePerGroup, Paths
<1> QED
  BY <1>6, <1>10, <1>11

-----------------------------------------------------------------------------
(* Views.                                                                  *)

\* More data makes more data paths ready, and none less.
LEMMA ReadyGrows ==
  ASSUME NEW groups, NEW data, NEW more, data \subseteq more
  PROVE  Ready(groups, data) \subseteq Ready(groups, more)
<1>1. \A input, path : IsReady(input, path, data) => IsReady(input, path, more)
  BY DEF IsReady
<1>2. \A input : ReadyPaths(input, data) \subseteq ReadyPaths(input, more)
  BY <1>1 DEF ReadyPaths
<1>3. \A inputs : Agreeing(inputs, data) \subseteq Agreeing(inputs, more)
  <2> SUFFICES ASSUME NEW inputs, NEW path \in Agreeing(inputs, data)
               PROVE  path \in Agreeing(inputs, more)
    OBVIOUS
  <2>1. /\ \E i \in DOMAIN inputs : path \in ReadyPaths(inputs[i], data)
        /\ \A i \in DOMAIN inputs : \E q \in ReadyPaths(inputs[i], data) : IsPrefix(q, path)
    BY DEF Agreeing
  <2>2. /\ \E i \in DOMAIN inputs : path \in ReadyPaths(inputs[i], more)
        /\ \A i \in DOMAIN inputs : \E q \in ReadyPaths(inputs[i], more) : IsPrefix(q, path)
    BY <1>2, <2>1
  <2> QED
    BY <2>2 DEF Agreeing
<1> DEFINE U(d) == UNION {Agreeing(groups[g], d) : g \in DOMAIN groups}
           D(d) == {c \in [DOMAIN groups -> U(d)] : \A g \in DOMAIN groups : c[g] \in Agreeing(groups[g], d)}
<1>4. D(data) \subseteq D(more)
  <2> SUFFICES ASSUME NEW c \in D(data) PROVE c \in D(more)
    OBVIOUS
  <2>1. \A g \in DOMAIN groups : c[g] \in Agreeing(groups[g], more)
    BY <1>3
  <2>2. \A g \in DOMAIN groups : c[g] \in U(more)
    BY <2>1
  <2>3. c \in [DOMAIN groups -> U(more)]
    BY <2>2
  <2> QED
    BY <2>1, <2>3
<1>5. \A d : Ready(groups, d) = {FlattenSeq(c) : c \in D(d)}
  BY DEF Ready
<1> HIDE DEF D
<1> QED
  BY <1>4, <1>5

\* A view is what its fields say, whatever the workflow and whoever has brought data.
LEMMA ViewFacts ==
  ASSUME shape \in DOMAIN Shapes, NEW H \in SUBSET Pusher
  PROVE  /\ View(H).sets = InputSets(Shapes[shape].groups, Data(shape, H))
         /\ View(H).mismatch = DegreeMismatch(Shapes[shape].groups, Data(shape, H))
         /\ View(H).ready = Ready(Shapes[shape].groups, Data(shape, H))
<1> DEFINE W(s, handlers) ==
             [shape    |-> s,
              arrived  |-> handlers,
              sets     |-> InputSets(Shapes[s].groups, Data(s, handlers)),
              mismatch |-> DegreeMismatch(Shapes[s].groups, Data(s, handlers)),
              ready    |-> Ready(Shapes[s].groups, Data(s, handlers))]
<1>1. \A s, handlers :
        /\ W(s, handlers).shape = s
        /\ W(s, handlers).arrived = handlers
        /\ W(s, handlers).sets = InputSets(Shapes[s].groups, Data(s, handlers))
        /\ W(s, handlers).mismatch = DegreeMismatch(Shapes[s].groups, Data(s, handlers))
        /\ W(s, handlers).ready = Ready(Shapes[s].groups, Data(s, handlers))
  OBVIOUS
<1>2. Views = {W(s, handlers) : s \in DOMAIN Shapes, handlers \in SUBSET Pusher}
  BY DEF Views
<1> HIDE DEF W
<1>3. W(shape, H) \in Views
  BY <1>2
<1>4. \A v \in Views : v.shape = shape /\ v.arrived = H => v = W(shape, H)
  BY <1>1, <1>2
<1>5. View(H) = W(shape, H)
  BY <1>1, <1>3, <1>4 DEF View
<1> QED
  BY <1>1, <1>5

\* The input sets of a view are at its ready data paths, which more data only adds to.
LEMMA ReadyFacts ==
  ASSUME shape \in DOMAIN Shapes, NEW H \in SUBSET Pusher
  PROVE  /\ View(H).sets = View(H).ready
         /\ View(H).ready \subseteq Paths
         /\ \A K \in SUBSET Pusher : H \subseteq K => View(H).ready \subseteq View(K).ready
<1>1. Shapes[shape].groups \in Seq(Seq(InputRecord) \ {<<>>})
  BY ShapesAssumption
<1>2. /\ InputSets(Shapes[shape].groups, Data(shape, H)) = Ready(Shapes[shape].groups, Data(shape, H))
      /\ Ready(Shapes[shape].groups, Data(shape, H)) \subseteq Paths
  BY <1>1, InputSetsMatchReady
<1>3. ASSUME NEW K \in SUBSET Pusher, H \subseteq K PROVE View(H).ready \subseteq View(K).ready
  <2>1. Data(shape, H) \subseteq Data(shape, K)
    BY <1>3 DEF Data
  <2>2. Ready(Shapes[shape].groups, Data(shape, H)) \subseteq Ready(Shapes[shape].groups, Data(shape, K))
    BY <2>1, ReadyGrows
  <2> QED
    BY <2>2, ViewFacts
<1> QED
  BY <1>2, <1>3, ViewFacts

-----------------------------------------------------------------------------
(* Trees of data paths.                                                    *)

\* Two paths agree on their first k elements.
AgreeTo(p, q, k) == k <= Len(p) /\ k <= Len(q) /\ \A i \in 1..k : p[i] = q[i]

\* In a tree no end is on the way to another one.
LEMMA TreeFacts ==
  ASSUME NEW T \in SUBSET Paths, IsTree(T), NEW p \in T, NEW q \in T
  PROVE  /\ \A k \in 0..Len(p) : AgreeTo(p, q, k) =>
              /\ k = Len(p) <=> k = Len(q)
              /\ k < Len(p) => p[k + 1][2] = q[k + 1][2] /\ p[k + 1][1] < p[k + 1][2]
         /\ IsPrefix(p, q) => p = q
         /\ \A r \in Paths : IsPrefix(p, r) /\ IsPrefix(q, r) => p = q
<1>1. \A a, b \in T : \A k \in 0..Len(a) : AgreeTo(a, b, k) =>
              /\ k = Len(a) <=> k = Len(b)
              /\ k < Len(a) => a[k + 1][2] = b[k + 1][2] /\ a[k + 1][1] < a[k + 1][2]
  BY DEF IsTree, AgreeTo
<1>2. \A a \in T : a \in Paths /\ Len(a) \in Nat /\ Len(a) \in 0..Len(a)
  BY DEF Paths
<1>3. ASSUME NEW a \in T, NEW b \in T, IsPrefix(a, b) PROVE a = b
  <2>1. AgreeTo(a, b, Len(a))
    BY <1>2, <1>3, PrefixPointwise DEF AgreeTo
  <2>2. Len(a) = Len(b)
    BY <1>1, <1>2, <2>1
  <2> QED
    BY <1>2, <1>3, <2>2, PrefixOrder
<1>4. ASSUME NEW r \in Paths, IsPrefix(p, r), IsPrefix(q, r) PROVE p = q
  <2>1. CASE Len(p) <= Len(q)
    BY <1>2, <1>3, <1>4, <2>1, PrefixOrder
  <2>2. CASE Len(q) <= Len(p)
    BY <1>2, <1>3, <1>4, <2>2, PrefixOrder
  <2> QED
    BY <1>2, <2>1, <2>2
<1> QED
  BY <1>1, <1>3, <1>4

\* Half of what IsTree asks for is enough.
LEMMA IsTreeByAgreement ==
  ASSUME NEW T \in SUBSET Paths,
         \A p, q \in T : \A k \in 0..Len(p) : AgreeTo(p, q, k) =>
           /\ k = Len(p) => k = Len(q)
           /\ k < Len(p) /\ k < Len(q) => p[k + 1][2] = q[k + 1][2] /\ p[k + 1][1] < p[k + 1][2]
  PROVE  IsTree(T)
<1> SUFFICES ASSUME NEW p \in T, NEW q \in T, NEW k \in 0..Len(p), k <= Len(q),
                    \A i \in 1..k : p[i] = q[i]
             PROVE  /\ k = Len(p) <=> k = Len(q)
                    /\ k < Len(p) => p[k + 1][2] = q[k + 1][2] /\ p[k + 1][1] < p[k + 1][2]
  BY DEF IsTree
<1>1. Len(p) \in Nat /\ Len(q) \in Nat /\ k \in Nat /\ k <= Len(p) /\ k \in 0..Len(q)
  BY DEF Paths
<1>2. AgreeTo(p, q, k) /\ AgreeTo(q, p, k)
  BY <1>1 DEF AgreeTo
<1>3. k = Len(p) <=> k = Len(q)
  BY <1>1, <1>2
<1>4. k < Len(p) => k < Len(q)
  BY <1>1, <1>3
<1> QED
  BY <1>1, <1>2, <1>3, <1>4

\* Inputs of a group with trees each have a tree together.
LEMMA AgreeingIsTree ==
  ASSUME NEW inputs \in Seq(InputRecord), NEW data,
         \A i \in DOMAIN inputs : IsTree(ReadyPaths(inputs[i], data))
  PROVE  IsTree(Agreeing(inputs, data))
<1> DEFINE R(i) == ReadyPaths(inputs[i], data)
           A == Agreeing(inputs, data)
<1>1. \A i \in DOMAIN inputs : IsTree(R(i)) /\ R(i) \in SUBSET Paths
  BY GeneratorMatches
<1>2. A \in SUBSET Paths
  BY <1>1 DEF Agreeing
<1>3. \A p \in A : /\ \E i \in DOMAIN inputs : p \in R(i)
                   /\ \A i \in DOMAIN inputs : \E q \in R(i) : IsPrefix(q, p)
  BY DEF Agreeing
<1> HIDE DEF A, R
<1>4. ASSUME NEW p \in A, NEW r \in A, NEW k \in 0..Len(p), AgreeTo(p, r, k)
      PROVE  /\ k = Len(p) => k = Len(r)
             /\ k < Len(p) /\ k < Len(r) => p[k + 1][2] = r[k + 1][2] /\ p[k + 1][1] < p[k + 1][2]
  <2>1. PICK i \in DOMAIN inputs : p \in R(i)
    BY <1>3
  <2>2. PICK j \in DOMAIN inputs : r \in R(j)
    BY <1>3
  <2>3. PICK qi \in R(i) : IsPrefix(qi, r)
    BY <1>3
  <2>4. PICK qj \in R(j) : IsPrefix(qj, p)
    BY <1>3
  <2>5. /\ p \in Paths /\ r \in Paths /\ qi \in Paths /\ qj \in Paths
        /\ Len(p) \in Nat /\ Len(r) \in Nat /\ Len(qj) \in Nat
    BY <1>1, <1>2 DEF Paths
  <2>6. k = Len(p) => k = Len(r)
    <3> SUFFICES ASSUME k = Len(p) PROVE k = Len(r)
      OBVIOUS
    <3>1. IsPrefix(p, r)
      BY <1>4, <2>5, PrefixPointwise DEF AgreeTo
    <3>2. IsPrefix(qj, r)
      BY <2>4, <2>5, <3>1, PrefixOrder
    <3>3. qj = r
      BY <1>1, <2>2, <3>2, TreeFacts
    <3>4. Len(r) <= Len(p)
      BY <2>4, <2>5, <3>3, PrefixPointwise
    <3> QED
      BY <1>4, <2>5, <3>4 DEF AgreeTo
  <2>7. ASSUME k < Len(p), k < Len(r)
        PROVE  p[k + 1][2] = r[k + 1][2] /\ p[k + 1][1] < p[k + 1][2]
    <3>1. AgreeTo(p, p, k)
      BY <2>5 DEF AgreeTo
    <3>2. p[k + 1][1] < p[k + 1][2]
      BY <1>1, <2>1, <2>7, <3>1, TreeFacts
    <3>3. Len(qj) <= Len(p) /\ \A m \in 1..Len(qj) : qj[m] = p[m]
      BY <2>4, <2>5, PrefixPointwise
    <3>4. CASE k < Len(qj)
      <4>1. AgreeTo(qj, r, k) /\ k \in 0..Len(qj)
        BY <1>4, <2>5, <3>3, <3>4 DEF AgreeTo
      <4>2. qj[k + 1][2] = r[k + 1][2]
        BY <1>1, <2>2, <3>4, <4>1, TreeFacts
      <4>3. k + 1 \in 1..Len(qj)
        BY <2>5, <3>4
      <4>4. qj[k + 1] = p[k + 1]
        BY <3>3, <4>3
      <4> QED
        BY <3>2, <4>2, <4>4
    <3>5. CASE Len(qj) <= k
      <4>1. IsPrefix(qj, r)
        BY <1>4, <2>5, <3>3, <3>5, PrefixPointwise DEF AgreeTo
      <4>2. qj = r
        BY <1>1, <2>2, <4>1, TreeFacts
      <4> QED
        BY <2>5, <2>7, <3>5, <4>2
    <3> QED
      BY <2>5, <3>4, <3>5
  <2> QED
    BY <2>6, <2>7
<1>5. IsTree(A)
  BY <1>2, <1>4, IsTreeByAgreement
<1> QED
  BY <1>5 DEF A

\* So have two groups.
LEMMA CrossProductIsTree ==
  ASSUME NEW A \in SUBSET Paths, NEW B \in SUBSET Paths, IsTree(A), IsTree(B)
  PROVE  IsTree(CrossProduct(A, B)) /\ CrossProduct(A, B) \in SUBSET Paths
<1>1. \A a \in A : \A b \in B :
        /\ a \in Paths /\ b \in Paths
        /\ a \o b \in Paths
        /\ Len(a) \in Nat /\ Len(b) \in Nat /\ Len(a \o b) = Len(a) + Len(b)
        /\ \A i \in 1..Len(a) : (a \o b)[i] = a[i]
        /\ \A i \in 1..Len(b) : (a \o b)[Len(a) + i] = b[i]
  BY DEF Paths
<1>2. \A x \in CrossProduct(A, B) : \E a \in A, b \in B : x = a \o b
  BY CrossProductMember
<1>3. CrossProduct(A, B) \in SUBSET Paths
  BY <1>1, <1>2
<1>4. ASSUME NEW x \in CrossProduct(A, B), NEW y \in CrossProduct(A, B), NEW k \in 0..Len(x),
             AgreeTo(x, y, k)
      PROVE  /\ k = Len(x) => k = Len(y)
             /\ k < Len(x) /\ k < Len(y) => x[k + 1][2] = y[k + 1][2] /\ x[k + 1][1] < x[k + 1][2]
  <2>1. PICK a \in A, b \in B : x = a \o b
    BY <1>2
  <2>2. PICK c \in A, d \in B : y = c \o d
    BY <1>2
  <2>3. /\ Len(a) \in Nat /\ Len(b) \in Nat /\ Len(x) = Len(a) + Len(b)
        /\ \A i \in 1..Len(a) : x[i] = a[i]
        /\ \A i \in 1..Len(b) : x[Len(a) + i] = b[i]
    BY <1>1, <2>1
  <2>4. /\ Len(c) \in Nat /\ Len(d) \in Nat /\ Len(y) = Len(c) + Len(d)
        /\ \A i \in 1..Len(c) : y[i] = c[i]
        /\ \A i \in 1..Len(d) : y[Len(c) + i] = d[i]
    BY <1>1, <2>2
  <2>5. k \in Nat /\ k <= Len(x) /\ k <= Len(y) /\ \A i \in 1..k : x[i] = y[i]
    BY <1>4, <2>3 DEF AgreeTo
  <2>6. CASE k < Len(a) /\ k < Len(c)
    <3>1. AgreeTo(a, c, k) /\ k \in 0..Len(a)
      BY <2>3, <2>4, <2>5, <2>6 DEF AgreeTo
    <3>2. a[k + 1][2] = c[k + 1][2] /\ a[k + 1][1] < a[k + 1][2]
      BY <2>6, <3>1, TreeFacts
    <3>3. k + 1 \in 1..Len(a) /\ k + 1 \in 1..Len(c)
      BY <2>3, <2>4, <2>5, <2>6
    <3>4. x[k + 1] = a[k + 1] /\ y[k + 1] = c[k + 1]
      BY <2>3, <2>4, <3>3
    <3>5. k # Len(x)
      BY <2>3, <2>5, <2>6
    <3> QED
      BY <3>2, <3>4, <3>5
  <2>7. CASE ~(k < Len(a) /\ k < Len(c))
    <3>1. a = c
      <4>1. CASE Len(a) <= Len(c)
        <5>1. AgreeTo(a, c, Len(a)) /\ Len(a) \in 0..Len(a)
          BY <2>3, <2>4, <2>5, <2>7, <4>1 DEF AgreeTo
        <5>2. IsPrefix(a, c)
          BY <1>1, <2>1, <2>2, <5>1, PrefixPointwise DEF AgreeTo
        <5> QED
          BY <5>2, TreeFacts
      <4>2. CASE Len(c) <= Len(a)
        <5>1. AgreeTo(c, a, Len(c)) /\ Len(c) \in 0..Len(c)
          BY <2>3, <2>4, <2>5, <2>7, <4>2 DEF AgreeTo
        <5>2. IsPrefix(c, a)
          BY <1>1, <2>1, <2>2, <5>1, PrefixPointwise DEF AgreeTo
        <5> QED
          BY <5>2, TreeFacts
      <4> QED
        BY <2>3, <2>4, <4>1, <4>2
    <3> DEFINE m == k - Len(a)
    <3>2. m \in Nat /\ k = Len(a) + m /\ m <= Len(b) /\ m <= Len(d)
      BY <2>3, <2>4, <2>5, <2>7, <3>1
    <3>20. /\ Len(d) \in Nat /\ Len(y) = Len(a) + Len(d)
           /\ \A i \in 1..Len(d) : y[Len(a) + i] = d[i]
      BY <2>4, <3>1
    <3> HIDE DEF m
    <3>3. ASSUME NEW i \in 1..m
          PROVE  /\ Len(a) + i \in 1..k
                 /\ x[Len(a) + i] = b[i]
                 /\ y[Len(a) + i] = d[i]
      <4>1. i \in 1..Len(b) /\ i \in 1..Len(d) /\ Len(a) + i \in 1..k
        BY <2>3, <3>2, <3>20
      <4>2. x[Len(a) + i] = b[i]
        BY <2>3, <4>1
      <4>3. y[Len(a) + i] = d[i]
        BY <3>20, <4>1
      <4> QED
        BY <4>1, <4>2, <4>3
    <3>4. \A i \in 1..m : b[i] = d[i]
      BY <2>5, <3>3
    <3>5. AgreeTo(b, d, m) /\ m \in 0..Len(b)
      BY <2>3, <3>2, <3>4 DEF AgreeTo
    <3>6. /\ m = Len(b) <=> m = Len(d)
          /\ m < Len(b) => b[m + 1][2] = d[m + 1][2] /\ b[m + 1][1] < b[m + 1][2]
      BY <3>5, TreeFacts
    <3>7. k = Len(x) => k = Len(y)
      <4>1. k = Len(x) => m = Len(b)
        BY <2>3, <3>2
      <4>2. m = Len(d) => k = Len(y)
        BY <3>2, <3>20
      <4>3. m = Len(b) => m = Len(d)
        BY <3>6
      <4> QED
        BY <4>1, <4>2, <4>3
    <3>8. ASSUME k < Len(x), k < Len(y)
          PROVE  x[k + 1][2] = y[k + 1][2] /\ x[k + 1][1] < x[k + 1][2]
      <4>1. m + 1 \in 1..Len(b) /\ m + 1 \in 1..Len(d) /\ m < Len(b) /\ k + 1 = Len(a) + (m + 1)
        BY <2>3, <3>2, <3>8, <3>20
      <4> DEFINE e == m + 1
      <4> HIDE DEF e
      <4>2. x[Len(a) + e] = b[e] /\ y[Len(a) + e] = d[e]
        BY <2>3, <3>20, <4>1 DEF e
      <4>3. x[k + 1] = b[m + 1] /\ y[k + 1] = d[m + 1]
        BY <4>1, <4>2 DEF e
      <4> QED
        BY <3>6, <4>1, <4>3
    <3> QED
      BY <3>7, <3>8
  <2> QED
    BY <2>6, <2>7
<1>5. IsTree(CrossProduct(A, B))
  BY <1>3, <1>4, IsTreeByAgreement
<1> QED
  BY <1>3, <1>5

\* The data paths that are ready form a tree, as the arrays of the inputs do.
LEMMA ReadyIsTree ==
  ASSUME NEW groups \in Seq(Seq(InputRecord) \ {<<>>}), NEW data,
         \A g \in DOMAIN groups : \A i \in DOMAIN groups[g] : IsTree(ReadyPaths(groups[g][i], data))
  PROVE  IsTree(Ready(groups, data))
<1> DEFINE n == Len(groups)
<1>1. n \in Nat /\ DOMAIN groups = 1..n /\ \A g \in 1..n : groups[g] \in Seq(InputRecord) \ {<<>>}
  OBVIOUS
<1> HIDE DEF n
<1>2. \A g \in 1..n : /\ Group(groups[g], data) = Agreeing(groups[g], data)
                      /\ Group(groups[g], data) \in SUBSET Paths
  BY <1>1, GroupMatches
<1>3. \A g \in 1..n : IsTree(Group(groups[g], data))
  <2> SUFFICES ASSUME NEW g \in 1..n PROVE IsTree(Agreeing(groups[g], data))
    BY <1>2
  <2>1. groups[g] \in Seq(InputRecord)
    BY <1>1
  <2>2. \A i \in DOMAIN groups[g] : IsTree(ReadyPaths(groups[g][i], data))
    BY <1>1
  <2> QED
    BY <2>1, <2>2, AgreeingIsTree
<1>4. PICK f : InputSetsValues(groups, n, data, f)
  <2>1. \A g \in 1..n : Group(groups[g], data) \subseteq Paths
    BY <1>2
  <2> QED
    BY <1>1, <2>1, InputSetsSteps
<1> DEFINE S == {k \in Nat : k <= n => f[k] \in SUBSET Paths /\ IsTree(f[k])}
<1>5. 0 \in S
  <2>1. f[0] = {<<>>} /\ <<>> \in Paths /\ Len(<<>>) = 0
    BY <1>4 DEF InputSetsValues, Paths
  <2>2. \A p \in {<<>>} : Len(p) = 0
    BY <2>1
  <2>3. {<<>>} \in SUBSET Paths
    BY <2>1
  <2>4. IsTree({<<>>})
    BY <2>2 DEF IsTree
  <2> QED
    BY <2>1, <2>3, <2>4
<1>6. ASSUME NEW k \in Nat, k \in S PROVE k + 1 \in S
  <2> SUFFICES ASSUME k + 1 <= n PROVE f[k + 1] \in SUBSET Paths /\ IsTree(f[k + 1])
    OBVIOUS
  <2>1. k + 1 \in 1..n /\ (k + 1) - 1 = k /\ k <= n
    BY <1>1
  <2> DEFINE F == f[k]
             G == Group(groups[k + 1], data)
  <2>2. F \in SUBSET Paths /\ IsTree(F)
    BY <1>6, <2>1
  <2>3. f[k + 1] = CrossProduct(F, G)
    BY <1>4, <2>1 DEF InputSetsValues
  <2>4. G \in SUBSET Paths /\ IsTree(G)
    BY <1>2, <1>3, <2>1
  <2> HIDE DEF F, G
  <2>5. IsTree(CrossProduct(F, G)) /\ CrossProduct(F, G) \in SUBSET Paths
    BY <2>2, <2>4, CrossProductIsTree
  <2> QED
    BY <2>3, <2>5
<1> HIDE DEF S
<1>7. n \in S
  BY <1>1, <1>5, <1>6, EveryNumber
<1>8. IsTree(f[n])
  BY <1>1, <1>7 DEF S
<1>9. InputSets(groups, data) = f[n] /\ InputSets(groups, data) = Ready(groups, data)
  BY <1>4, InputSetsMatchReady DEF InputSetsValues
<1> QED
  BY <1>8, <1>9

\* So do those that are expected: TaskNode can know from degrees alone whether it is complete.
LEMMA ExpectedIsTree ==
  ASSUME shape \in DOMAIN Shapes
  PROVE  IsTree(Expected) /\ Expected \in SUBSET Paths
<1> DEFINE groups == Shapes[shape].groups
           data == Data(shape, Pusher)
<1>1. groups \in Seq(Seq(InputRecord) \ {<<>>})
  BY ShapesAssumption
<1>2. ASSUME NEW g \in DOMAIN groups, NEW i \in DOMAIN groups[g]
      PROVE  IsTree(ReadyPaths(groups[g][i], data))
  <2> DEFINE input == groups[g][i]
             all == {Truncated(leaf, input.gather) : leaf \in input.leaves}
  <2>1. IsTree(all)
    BY ShapesAssumption
  <2>2. ReadyPaths(input, data) \subseteq all
    BY DEF ReadyPaths
  <2> HIDE DEF all, input
  <2>3. IsTree(ReadyPaths(input, data))
    BY <2>1, <2>2 DEF IsTree
  <2> QED
    BY <2>3 DEF input
<1>3. IsTree(Ready(groups, data))
  BY <1>1, <1>2, ReadyIsTree
<1>4. Expected = Ready(groups, data) /\ Expected \in SUBSET Paths
  BY ViewFacts, ReadyFacts DEF Expected
<1> QED
  BY <1>3, <1>4

-----------------------------------------------------------------------------
(* Nodes of the output.                                                    *)

\* A node of the output is named by the way to it.
Nodes == Seq(Nat \X Pusher)

\* get_or_create_node goes down with the path, and all it meets or makes are nodes.
LEMMA WayToType ==
  ASSUME TypeOK, NEW path \in Paths, NEW new, NEW h \in Pusher
  PROVE  \A k \in 0..Len(path) : WayTo(path, new, h)[k] \in Nodes
<1> DEFINE n == Len(path)
           Go(k, s) == IF Found(s, path, k, new) # {} THEN CHOOSE m \in Found(s, path, k, new) : TRUE
                       ELSE Append(s, <<path[k][1], h>>)
           Rec(f) == [k \in 0..n |-> IF k = 0 THEN <<>> ELSE Go(k, f[k - 1])]
           node == CHOOSE f : f = Rec(f)
           step == [ks \in (Nat \ {0}) \X Nodes |->
                      IF ks[1] \in 1..n THEN Go(ks[1], ks[2]) ELSE <<>>]
<1>1. WayTo(path, new, h) = node
  BY DEF WayTo
<1>2. n \in Nat /\ <<>> \in Nodes /\ \A k \in 1..n : path[k][1] \in Nat
  BY DEF Paths, Nodes
<1>3. \A s, k : Found(s, path, k, new) \subseteq tree
  BY DEF Found, ChildrenWithIndex
<1>4. tree \subseteq Nodes
  BY DEF TypeOK, Nodes
<1>5. ASSUME NEW k \in 1..n, NEW s \in Nodes PROVE Go(k, s) \in Nodes
  <2>1. CASE Found(s, path, k, new) # {}
    <3>1. Go(k, s) \in Found(s, path, k, new)
      BY <2>1
    <3> QED
      BY <1>3, <1>4, <3>1
  <2>2. CASE Found(s, path, k, new) = {}
    <3>1. <<path[k][1], h>> \in Nat \X Pusher
      BY <1>2
    <3>2. Append(s, <<path[k][1], h>>) \in Nodes
      BY <3>1 DEF Nodes
    <3> QED
      BY <2>2, <3>2
  <2> QED
    BY <2>1, <2>2
<1> HIDE DEF Go, n
<1>6. step \in [(Nat \ {0}) \X Nodes -> Nodes]
  BY <1>2, <1>5
<1>7. \A k \in 1..n, s \in Nodes : step[<<k, s>>] = Go(k, s)
  <2>1. \A k \in 1..n : k \in Nat \ {0}
    BY <1>2
  <2> QED
    BY <2>1
<1> HIDE DEF step
<1>8. PICK f \in [0..n -> Nodes] : ByRecursion(n, <<>>, step, f)
  BY <1>2, <1>6, Recursion
<1>9. f = Rec(f)
  <2>1. \A k \in 1..n : f[k] = Go(k, f[k - 1])
    <3>1. \A k \in 1..n : k - 1 \in 0..n
      BY <1>2
    <3> QED
      BY <1>7, <1>8, <3>1 DEF ByRecursion
  <2>2. \A k \in 0..n : f[k] = IF k = 0 THEN <<>> ELSE Go(k, f[k - 1])
    BY <1>2, <1>8, <2>1 DEF ByRecursion
  <2> QED
    BY <2>2
<1>10. node = Rec(node)
  <2> HIDE DEF Rec
  <2> QED
    BY <1>9
<1> HIDE DEF node
<1> DEFINE S == {k \in Nat : k <= n => node[k] \in Nodes}
<1>11. 0 \in S
  BY <1>2, <1>10
<1>12. ASSUME NEW k \in Nat, k \in S PROVE k + 1 \in S
  <2> SUFFICES ASSUME k + 1 <= n PROVE node[k + 1] \in Nodes
    OBVIOUS
  <2>1. k + 1 \in 1..n /\ k + 1 \in 0..n /\ (k + 1) - 1 = k /\ k <= n /\ k + 1 # 0
    BY <1>2
  <2>2. node[k + 1] = Go(k + 1, node[k])
    BY <1>10, <2>1
  <2> QED
    BY <1>5, <1>12, <2>1, <2>2
<1> HIDE DEF S
<1>13. Nat \subseteq S
  BY <1>11, <1>12, EveryNumber
<1>14. \A k \in 0..n : node[k] \in Nodes
  BY <1>2, <1>13 DEF S
<1> QED
  BY <1>1, <1>14 DEF n

-----------------------------------------------------------------------------
(* Finished tasks of a whole tree.                                         *)

\* Of tasks with numbers below a bound one is the last.
LEMMA LatestFacts ==
  ASSUME NEW some, some # {}, NEW N \in Nat, \A u \in some : u.nth \in Nat /\ u.nth <= N
  PROVE  Latest(some) \in some
<1> DEFINE T == {N - u.nth : u \in some}
<1>1. \A u \in some : N - u.nth \in Nat
  OBVIOUS
<1>2. T \in SUBSET Nat /\ T # {}
  BY <1>1
<1>3. PICK k \in T : \A m \in T : k <= m
  <2> HIDE DEF T
  <2> QED
    BY <1>2, LeastNumber
<1>4. PICK t \in some : k = N - t.nth
  BY <1>3
<1>5. \A u \in some : N - t.nth <= N - u.nth
  BY <1>3, <1>4
<1>6. \A u \in some : u.nth <= t.nth
  BY <1>5
<1> QED
  BY <1>6 DEF Latest

\* TaskNode.is_complete, which knows the paths of the tasks and the degrees in them
\* alone, is not true before every data path of the tree has its task.
THEOREM FinishedTreeIsComplete ==
  ASSUME NEW E \in SUBSET Paths, IsTree(E), NEW all, AreTasksFinished(all),
         \A t \in all : t.path \in E
  PROVE  \A path \in E : \E t \in all : t.path = path
<1> SUFFICES ASSUME NEW path \in E, \A t \in all : t.path # path PROVE FALSE
  OBVIOUS
<1> DEFINE n == Len(path)
           T == {m \in 0..n : \E t \in all : AgreeTo(t.path, path, n - m)}
<1>1. n \in Nat /\ path \in Paths
  BY DEF Paths
<1>2. \A t \in all : t.path \in E /\ t.path \in Paths /\ Len(t.path) \in Nat
  BY DEF Paths
<1> HIDE DEF n
<1>3. T \in SUBSET Nat /\ T # {}
  <2>1. PICK t \in all : TRUE
    BY DEF AreTasksFinished
  <2>2. AgreeTo(t.path, path, 0)
    BY <1>1, <1>2 DEF AgreeTo, n
  <2>3. n \in 0..n /\ n - n = 0 /\ 0..n \subseteq Nat
    BY <1>1
  <2> QED
    BY <2>2, <2>3
<1>4. PICK m \in T : \A i \in T : m <= i
  <2> HIDE DEF T
  <2> QED
    BY <1>3, LeastNumber
<1> DEFINE k == n - m
<1>5. m \in Nat /\ k \in 0..n /\ k \in Nat
  BY <1>1, <1>4
<1>6. PICK t \in all : AgreeTo(t.path, path, k)
  BY <1>4
<1> HIDE DEF k
<1>7. k <= Len(t.path) /\ k <= n /\ \A i \in 1..k : t.path[i] = path[i]
  BY <1>6 DEF AgreeTo, n
<1>8. k \in 0..Len(t.path)
  BY <1>2, <1>5, <1>7
<1>9. /\ k = Len(t.path) <=> k = n
      /\ k < Len(t.path) => /\ t.path[k + 1][2] = path[k + 1][2]
                            /\ t.path[k + 1][1] < t.path[k + 1][2]
  BY <1>2, <1>6, <1>8, TreeFacts DEF n
<1>10. k < n /\ k < Len(t.path)
  <2> SUFFICES ASSUME k = n PROVE FALSE
    BY <1>1, <1>2, <1>5, <1>7, <1>9
  <2>1. Len(t.path) = Len(path) /\ \A i \in 1..Len(t.path) : t.path[i] = path[i]
    BY <1>7, <1>9 DEF n
  <2>2. t.path = path
    BY <1>1, <1>2, <2>1, SameSequence DEF Paths
  <2> QED
    BY <2>2
<1> DEFINE e == path[k + 1]
           d == t.path[k + 1][2]
<1>11. k + 1 \in 1..n /\ k + 1 \in 1..Len(t.path)
  BY <1>1, <1>2, <1>5, <1>10
<1>12. e \in Nat \X Nat /\ e = <<e[1], e[2]>> /\ e[1] \in Nat /\ e[2] \in Nat
  <2>1. path \in Seq(Nat \X Nat) /\ k + 1 \in 1..Len(path)
    BY <1>1, <1>11 DEF Paths, n
  <2>2. e \in Nat \X Nat
    BY <2>1
  <2> QED
    BY <2>2
<1>13. e[2] = d /\ e[1] < e[2]
  <2>1. AgreeTo(path, t.path, k) /\ k \in 0..Len(path)
    BY <1>5, <1>7, <1>8, <1>2, <1>1 DEF AgreeTo, n
  <2>2. path[k + 1][1] < path[k + 1][2]
    BY <1>2, <1>10, <2>1, TreeFacts DEF n
  <2> QED
    BY <1>9, <1>10, <2>2
<1>14. e[1] \in 0..(d - 1)
  BY <1>12, <1>13
<1> HIDE DEF e, d
<1>15. PICK u \in all : IsPrefix(Append(SubSeq(t.path, 1, k), <<e[1], d>>), u.path)
  <2>1. (k + 1) - 1 = k
    BY <1>5
  <2>2. \A j \in 1..Len(t.path) : \A i \in 0..(t.path[j][2] - 1) :
          \E u \in all : IsPrefix(Append(SubSeq(t.path, 1, j - 1), <<i, t.path[j][2]>>), u.path)
    BY DEF AreTasksFinished
  <2>3. \A i \in 0..(t.path[k + 1][2] - 1) :
          \E u \in all : IsPrefix(Append(SubSeq(t.path, 1, (k + 1) - 1), <<i, t.path[k + 1][2]>>), u.path)
    BY <1>11, <2>2
  <2> QED
    BY <1>14, <2>1, <2>3 DEF d
<1>16. Append(SubSeq(t.path, 1, k), e) \in Paths /\ Len(Append(SubSeq(t.path, 1, k), e)) = k + 1
       /\ \A i \in 1..(k + 1) : Append(SubSeq(t.path, 1, k), e)[i] = path[i]
  <2> DEFINE s == SubSeq(t.path, 1, k)
  <2>1. s \in Paths /\ Len(s) = k /\ \A i \in 1..k : s[i] = t.path[i]
    BY <1>2, <1>8, SubSequence DEF Paths
  <2> HIDE DEF s
  <2>6. s \in Seq(Nat \X Nat) /\ e \in Nat \X Nat
    BY <1>12, <2>1 DEF Paths
  <2>7. /\ Append(s, e) \in Seq(Nat \X Nat) /\ Len(Append(s, e)) = Len(s) + 1
        /\ \A i \in 1..(Len(s) + 1) : Append(s, e)[i] = IF i = Len(s) + 1 THEN e ELSE s[i]
    BY <2>6, Appended
  <2>2. Append(s, e) \in Paths /\ Len(Append(s, e)) = k + 1
    BY <2>1, <2>7 DEF Paths
  <2>3. \A i \in 1..(k + 1) : Append(s, e)[i] = IF i = k + 1 THEN e ELSE s[i]
    BY <2>1, <2>7
  <2>4. \A i \in 1..(k + 1) : i # k + 1 => i \in 1..k
    BY <1>5
  <2>5. \A i \in 1..(k + 1) : Append(s, e)[i] = path[i]
    BY <1>7, <2>1, <2>3, <2>4 DEF e
  <2> QED
    BY <2>2, <2>5 DEF s
<1>17. AgreeTo(u.path, path, k + 1)
  <2>1. IsPrefix(Append(SubSeq(t.path, 1, k), e), u.path)
    BY <1>12, <1>13, <1>15
  <2> DEFINE s == Append(SubSeq(t.path, 1, k), e)
             v == u.path
  <2>3. /\ s \in Paths /\ Len(s) = k + 1 /\ \A i \in 1..(k + 1) : s[i] = path[i]
        /\ v \in Paths /\ IsPrefix(s, v)
    BY <1>2, <1>16, <2>1
  <2> HIDE DEF s, v
  <2>4. Len(s) <= Len(v) /\ \A i \in 1..Len(s) : s[i] = v[i]
    BY <2>3, PrefixPointwise
  <2>5. k + 1 <= Len(v) /\ \A i \in 1..(k + 1) : v[i] = path[i]
    BY <2>3, <2>4
  <2>2. k + 1 <= Len(u.path) /\ \A i \in 1..(k + 1) : u.path[i] = path[i]
    BY <2>5 DEF v
  <2> QED
    BY <1>1, <1>5, <1>10, <2>2 DEF AgreeTo, n
<1>18. m - 1 \in 0..n /\ n - (m - 1) = k + 1 /\ m - 1 < m
  BY <1>1, <1>4, <1>5, <1>10 DEF k
<1>19. m - 1 \in T
  BY <1>17, <1>18
<1> QED
  BY <1>4, <1>5, <1>18, <1>19

-----------------------------------------------------------------------------
(* What is ready, now and in the end.                                      *)

\* Those who have brought their data.
LEMMA ArrivedType == Arrived \in SUBSET Pusher
BY DEF Arrived

\* What is ready now is sought, and among what is expected.
LEMMA NowFacts ==
  ASSUME shape \in DOMAIN Shapes
  PROVE  /\ Now.sets = Now.ready
         /\ Now.ready \subseteq Expected
         /\ Expected \in SUBSET Paths
<1>1. View(Arrived).sets = View(Arrived).ready
  BY ArrivedType, ReadyFacts
<1>2. View(Arrived).ready \subseteq View(Pusher).ready
  BY ArrivedType, ReadyFacts
<1>3. View(Pusher).ready \subseteq Paths
  BY ReadyFacts
<1> QED
  BY <1>1, <1>2, <1>3 DEF Now, Expected

\* What a step changes of the handlers.
LEMMA StepFacts ==
  ASSUME TypeOK, [Next]_vars
  PROVE  /\ shape' = shape
         /\ Arrived \subseteq Arrived'
<1>1. CASE UNCHANGED vars
  BY <1>1 DEF vars, Arrived
<1>2. ASSUME NEW h \in Pusher, NEW to, pc[h] # "upstream" \/ to # "upstream",
             to # "upstream", pc' = [pc EXCEPT ![h] = to]
      PROVE  Arrived \subseteq Arrived'
  BY <1>2 DEF Arrived, TypeOK
<1>3. ASSUME NEW h \in Pusher, FinishUpstream(h) \/ Push(h) \/ PusherDies(h)
      PROVE  shape' = shape /\ Arrived \subseteq Arrived'
  <2>1. CASE FinishUpstream(h)
    BY <1>2, <2>1 DEF FinishUpstream
  <2>2. CASE SkipPush(h)
    BY <1>2, <2>2 DEF SkipPush
  <2>3. CASE Look(h)
    <3>1. shape' = shape /\ \E to \in {"done", "looked"} : pc' = [pc EXCEPT ![h] = to]
      BY <2>3 DEF Look
    <3> QED
      BY <1>2, <3>1
  <2>4. CASE LookRaises(h)
    BY <1>2, <2>4 DEF LookRaises
  <2>5. CASE LookAsserts(h)
    BY <1>2, <2>5 DEF LookAsserts
  <2>6. CASE SaveNodes(h)
    BY <1>2, <2>6 DEF SaveNodes
  <2>7. CASE CreateTasks(h)
    BY <1>2, <2>7 DEF CreateTasks
  <2>8. CASE ExecuteTasks(h)
    BY <1>2, <2>8 DEF ExecuteTasks
  <2>9. CASE PusherDies(h)
    BY <1>2, <2>9 DEF PusherDies
  <2> QED
    BY <1>3, <2>1, <2>2, <2>3, <2>4, <2>5, <2>6, <2>7, <2>8, <2>9 DEF Push
<1>4. ASSUME NEW t \in tasks, FinishTask(t) \/ FinishTaskRaises(t) \/ FinisherDies(t)
      PROVE  shape' = shape /\ Arrived \subseteq Arrived'
  BY <1>4 DEF FinishTask, FinishTaskRaises, FinisherDies, Arrived
<1> QED
  BY <1>1, <1>3, <1>4 DEF Next, Work

\* What is ready stays ready, and what is expected does not change.
LEMMA ReadyStep ==
  ASSUME TypeOK, [Next]_vars
  PROVE  /\ Now.ready \subseteq Now'.ready
         /\ Now'.ready \subseteq Expected
         /\ Expected' = Expected
         /\ shape' \in DOMAIN Shapes
<1>1. shape' = shape /\ Arrived \subseteq Arrived' /\ shape \in DOMAIN Shapes
  BY StepFacts DEF TypeOK
<1>2. Arrived \in SUBSET Pusher /\ Arrived' \in SUBSET Pusher
  BY DEF Arrived
<1>3. View(Arrived).ready \subseteq View(Arrived').ready
  BY <1>1, <1>2, ReadyFacts
<1>4. Now' = View(Arrived')
  BY <1>1 DEF Now, View
<1>6. View(Arrived').ready \subseteq Expected
  BY <1>1, <1>2, ReadyFacts DEF Expected
<1>5. Expected' = Expected
  BY <1>1 DEF Expected, View
<1> QED
  BY <1>1, <1>3, <1>4, <1>5, <1>6 DEF Now

-----------------------------------------------------------------------------
(* What the steps do.                                                      *)

\* Steps of a handler that is not between looking and making tasks, and stays so.
Idle(h) == \/ FinishUpstream(h) \/ SkipPush(h) \/ LookRaises(h) \/ LookAsserts(h) \/ ExecuteTasks(h)

\* Steps that finish a task.
Saves(t) == FinishTask(t) \/ FinishTaskRaises(t) \/ FinisherDies(t)

\* Every step is one of these.
LEMMA StepCases ==
  ASSUME [Next]_vars
  PROVE  \/ \E h \in Pusher : Idle(h) \/ Look(h) \/ SaveNodes(h) \/ CreateTasks(h) \/ PusherDies(h)
         \/ \E t \in tasks : Saves(t)
         \/ UNCHANGED vars
BY DEF Next, Work, Push, Idle, Saves

\* They leave plans, nodes and tasks alone, and no run finishes by them.
LEMMA IdleFacts ==
  ASSUME TypeOK, NEW h \in Pusher, Idle(h)
  PROVE  /\ UNCHANGED <<plan, tree, tasks>>
         /\ pc[h] \notin {"looked", "noded"} /\ pc'[h] \notin {"looked", "noded"}
         /\ \A g \in Pusher \ {h} : pc'[g] = pc[g]
         /\ pc' \in [Pusher -> {"upstream", "arrived", "looked", "noded", "tasked", "done", "raised", "dead"}]
         /\ run' \subseteq {"waiting", "running", "finished", "failed"}
         /\ "finished" \in run' => "finished" \in run
         /\ shape' = shape /\ crashes' = crashes
<1>1. pc \in [Pusher -> {"upstream", "arrived", "looked", "noded", "tasked", "done", "raised", "dead"}]
      /\ run \subseteq {"waiting", "running", "finished", "failed"}
  BY DEF TypeOK
<1>2. CASE FinishUpstream(h)
  BY <1>1, <1>2 DEF FinishUpstream
<1>3. CASE SkipPush(h)
  BY <1>1, <1>3 DEF SkipPush
<1>4. CASE LookRaises(h)
  BY <1>1, <1>4 DEF LookRaises, MayPush
<1>5. CASE LookAsserts(h)
  BY <1>1, <1>5 DEF LookAsserts, MayPush, Ended
<1>6. CASE ExecuteTasks(h)
  BY <1>1, <1>6 DEF ExecuteTasks, SetRunning
<1> QED
  BY <1>2, <1>3, <1>4, <1>5, <1>6 DEF Idle

\* What is common to the three ways to finish a task.
LEMMA SavesFacts ==
  ASSUME NEW t \in tasks, Saves(t)
  PROVE  /\ Save(t) /\ ~t.finished
         /\ UNCHANGED <<shape, pc, plan, tree>>
         /\ run' = run \/ run' = (IF AreTasksFinished(tasks') THEN Ended("finished") ELSE run)
         /\ crashes' = crashes \/ (crashes < MaxCrashes /\ crashes' = crashes + 1)
<1>1. CASE FinishTask(t)
  BY <1>1 DEF FinishTask, MayFinish
<1>2. CASE FinishTaskRaises(t)
  BY <1>2 DEF FinishTaskRaises, MayFinish
<1>3. CASE FinisherDies(t)
  BY <1>3 DEF FinisherDies, MayFinish
<1> QED
  BY <1>1, <1>2, <1>3 DEF Saves

\* The row of the task is replaced by one that differs in being finished.
LEMMA SaveFacts ==
  ASSUME TypeOK, TasksAreNumbered, NEW t \in tasks, ~t.finished, Save(t)
  PROVE  \E u \in TaskRecord :
           /\ u \notin tasks
           /\ u.path = t.path /\ u.node = t.node /\ u.nth = t.nth /\ u.finished
           /\ tasks' = (tasks \ {t}) \cup {u}
<1> DEFINE u == [t EXCEPT !.finished = TRUE]
<1>1. t \in TaskRecord
  BY DEF TypeOK
<1>2. /\ u \in TaskRecord
      /\ u.path = t.path /\ u.node = t.node /\ u.nth = t.nth /\ u.finished = TRUE
  BY <1>1 DEF TaskRecord
<1>3. tasks' = (tasks \ {t}) \cup {u}
  BY DEF Save
<1> HIDE DEF u
<1>4. u \notin tasks
  <2> SUFFICES ASSUME u \in tasks PROVE FALSE
    OBVIOUS
  <2>1. u = t
    BY <1>2 DEF TasksAreNumbered
  <2> QED
    BY <1>2, <2>1
<1> QED
  BY <1>2, <1>3, <1>4

\* So that a data path has as many tasks as before.
LEMMA SaveCounts ==
  ASSUME TypeOK, TasksAreNumbered, NEW t \in tasks, ~t.finished, Save(t),
         NEW path, IsFiniteSet(TasksAt(path))
  PROVE  IsFiniteSet(TasksAt(path)') /\ Cardinality(TasksAt(path)') = Cardinality(TasksAt(path))
<1>1. PICK u \in TaskRecord : /\ u \notin tasks
                              /\ u.path = t.path
                              /\ tasks' = (tasks \ {t}) \cup {u}
  BY SaveFacts
<1>2. CASE path = t.path
  <2> DEFINE A == TasksAt(path)
  <2>1. TasksAt(path)' = (A \ {t}) \cup {u} /\ t \in A /\ u \notin A \ {t}
    BY <1>1, <1>2 DEF TasksAt
  <2> HIDE DEF A
  <2>2. IsFiniteSet(A)
    BY DEF A
  <2>3. IsFiniteSet(A \ {t}) /\ Cardinality(A \ {t}) = Cardinality(A) - 1 /\ Cardinality(A) \in Nat
    BY <2>1, <2>2, FS_RemoveElement, FS_CardinalityType
  <2>4. /\ IsFiniteSet((A \ {t}) \cup {u})
        /\ Cardinality((A \ {t}) \cup {u}) = Cardinality(A \ {t}) + 1
    BY <2>1, <2>3, FS_AddElement
  <2> QED
    BY <2>1, <2>3, <2>4 DEF A
<1>3. CASE path # t.path
  <2>1. TasksAt(path)' = TasksAt(path)
    BY <1>1, <1>3 DEF TasksAt
  <2> QED
    BY <2>1
<1> QED
  BY <1>2, <1>3

\* What bulk_create_tasks makes of a plan.
Made(p, h) == [path |-> p.path, node |-> p.node, nth |-> Cardinality(TasksAt(p.path)),
               by |-> h, finished |-> FALSE]

\* The fields of a task that is made.
LEMMA MadeFacts ==
  ASSUME NEW p, NEW h
  PROVE  /\ Made(p, h).path = p.path /\ Made(p, h).node = p.node
         /\ Made(p, h).nth = Cardinality(TasksAt(p.path))
         /\ Made(p, h).by = h /\ Made(p, h).finished = FALSE
BY DEF Made

\* So that two plans at one data path make tasks at one data path.
LEMMA MadePath == \A p, h : Made(p, h).path = p.path
BY DEF Made

\* At a data path one task is made, with the next number, or none.
LEMMA CreateFacts ==
  ASSUME PlansAreReady, TasksAreNumbered, NEW h \in Pusher, CreateTasks(h),
         \A p \in plan[h] : IsFiniteSet(TasksAt(p.path))
  PROVE  /\ tasks' = tasks \cup {Made(p, h) : p \in plan[h]}
         /\ \A p \in plan[h] : /\ TasksAt(p.path)' = TasksAt(p.path) \cup {Made(p, h)}
                               /\ Made(p, h) \notin tasks
         /\ \A path : (\A p \in plan[h] : p.path # path) => TasksAt(path)' = TasksAt(path)
<1>1. tasks' = tasks \cup {Made(p, h) : p \in plan[h]}
  BY DEF CreateTasks, Made
<1>2. ASSUME NEW p \in plan[h]
      PROVE  /\ TasksAt(p.path)' = TasksAt(p.path) \cup {Made(p, h)}
             /\ Made(p, h) \notin tasks
  <2>1. \A q \in plan[h] : q.path = p.path => q = p
    BY DEF PlansAreReady
  <2>2. \A t : t \in tasks' /\ t.path = p.path <=> t \in TasksAt(p.path) \/ t = Made(p, h)
    <3>1. \A q \in plan[h] : Made(q, h).path = p.path => q = p
      BY <2>1, MadePath
    <3>2. Made(p, h).path = p.path
      BY MadeFacts
    <3>3. \A t : t \in tasks' <=> t \in tasks \/ \E q \in plan[h] : t = Made(q, h)
      BY <1>1
    <3>4. \A t : t \in TasksAt(p.path) <=> t \in tasks /\ t.path = p.path
      BY DEF TasksAt
    <3> QED
      BY <3>1, <3>2, <3>3, <3>4
  <2>3. TasksAt(p.path)' = TasksAt(p.path) \cup {Made(p, h)}
    BY <2>2 DEF TasksAt
  <2>4. Made(p, h) \notin tasks
    <3> SUFFICES ASSUME Made(p, h) \in tasks PROVE FALSE
      OBVIOUS
    <3>1. /\ Made(p, h).nth < Cardinality(TasksAt(Made(p, h).path))
          /\ Made(p, h).path = p.path /\ Made(p, h).nth = Cardinality(TasksAt(p.path))
      BY MadeFacts DEF TasksAreNumbered
    <3>2. Cardinality(TasksAt(p.path)) < Cardinality(TasksAt(p.path))
      BY <3>1
    <3>3. Cardinality(TasksAt(p.path)) \in Nat
      BY FS_CardinalityType
    <3> QED
      BY <3>2, <3>3
  <2> QED
    BY <2>3, <2>4
<1>3. ASSUME NEW path, \A p \in plan[h] : p.path # path PROVE TasksAt(path)' = TasksAt(path)
  <2>1. ASSUME NEW p \in plan[h] PROVE Made(p, h).path # path
    <3>1. Made(p, h).path = p.path
      BY MadeFacts
    <3> QED
      BY <1>3, <3>1
  <2> QED
    BY <1>1, <2>1 DEF TasksAt
<1> QED
  BY <1>1, <1>2, <1>3

\* So that a data path has one more task if it is in the plan.
LEMMA CreateCounts ==
  ASSUME TypeOK, PlansAreReady, TasksAreNumbered, NEW h \in Pusher, CreateTasks(h),
         \A p \in plan[h] : IsFiniteSet(TasksAt(p.path)), NEW path, IsFiniteSet(TasksAt(path))
  PROVE  /\ IsFiniteSet(TasksAt(path)')
         /\ Cardinality(TasksAt(path)) \in Nat /\ Cardinality(TasksAt(path)') \in Nat
         /\ Cardinality(TasksAt(path)') =
              Cardinality(TasksAt(path)) + (IF \E p \in plan[h] : p.path = path THEN 1 ELSE 0)
<1>1. CASE \E p \in plan[h] : p.path = path
  <2>1. PICK p \in plan[h] : p.path = path
    BY <1>1
  <2>2. TasksAt(path)' = TasksAt(path) \cup {Made(p, h)} /\ Made(p, h) \notin TasksAt(path)
    BY <2>1, CreateFacts DEF TasksAt
  <2>3. /\ IsFiniteSet(TasksAt(path) \cup {Made(p, h)})
        /\ Cardinality(TasksAt(path) \cup {Made(p, h)}) = Cardinality(TasksAt(path)) + 1
    BY <2>2, FS_AddElement
  <2> QED
    BY <1>1, <2>2, <2>3, FS_CardinalityType
<1>2. CASE \A p \in plan[h] : p.path # path
  <2>1. TasksAt(path)' = TasksAt(path) /\ ~(\E p \in plan[h] : p.path = path)
    BY <1>2, CreateFacts
  <2>2. Cardinality(TasksAt(path)) \in Nat
    BY FS_CardinalityType
  <2> QED
    BY <2>1, <2>2
<1> QED
  BY <1>1, <1>2

-----------------------------------------------------------------------------
(* The inductive invariant, part by part.                                  *)

\* What a handler plans when it looks is ready, and has no task.
LEMMA LookFacts ==
  ASSUME TypeOK, NEW h \in Pusher, Look(h)
  PROVE  /\ plan' = [plan EXCEPT ![h] = plan'[h]]
         /\ plan'[h] \in SUBSET PlanRecord
         /\ \A p \in plan'[h] : p.path \in Now.ready /\ TasksAt(p.path) = {}
         /\ \A p, q \in plan'[h] : p.path = q.path => p = q
         /\ pc' = [pc EXCEPT ![h] = pc'[h]] /\ pc'[h] \in {"done", "looked"}
         /\ plan'[h] # {} => pc'[h] = "looked"
         /\ UNCHANGED <<shape, tree, tasks, run, crashes>>
<1> DEFINE new == NewPaths
           Planned(path) == [path |-> path, node |-> WayTo(path, new, h)[Len(path)]]
<1>1. /\ plan' = [plan EXCEPT ![h] = {Planned(path) : path \in new}]
      /\ pc' = [pc EXCEPT ![h] = IF new = {} THEN "done" ELSE "looked"]
      /\ UNCHANGED <<shape, tree, tasks, run, crashes>>
  BY DEF Look
<1>2. new \subseteq Now.ready /\ new \subseteq Paths /\ \A path \in new : TasksAt(path) = {}
  BY NowFacts DEF NewPaths, TypeOK
<1>3. ASSUME NEW path \in new PROVE Planned(path) \in PlanRecord /\ Planned(path).path = path
  <2>1. path \in Paths /\ Len(path) \in 0..Len(path)
    BY <1>2 DEF Paths
  <2>2. WayTo(path, new, h)[Len(path)] \in Nodes
    BY <2>1, WayToType
  <2> QED
    BY <2>1, <2>2 DEF PlanRecord, Paths, Nodes
<1> HIDE DEF Planned, new
<1>4. plan'[h] = {Planned(path) : path \in new}
  BY <1>1 DEF TypeOK
<1>5. \A p \in plan'[h] : \E path \in new : p = Planned(path) /\ p.path = path /\ p \in PlanRecord
  BY <1>3, <1>4
<1>6. \A p, q \in plan'[h] : p.path = q.path => p = q
  BY <1>5
<1>7. \A p \in plan'[h] : p.path \in Now.ready /\ TasksAt(p.path) = {}
  BY <1>2, <1>5
<1>8. pc'[h] = (IF new = {} THEN "done" ELSE "looked")
  BY <1>1 DEF TypeOK
<1>9. plan'[h] # {} => pc'[h] = "looked"
  BY <1>4, <1>8
<1>10. plan' = [plan EXCEPT ![h] = plan'[h]] /\ pc' = [pc EXCEPT ![h] = pc'[h]]
  BY <1>1, <1>4, <1>8
<1> QED
  BY <1>1, <1>5, <1>6, <1>7, <1>8, <1>9, <1>10

\* Plans stay ready, and their nodes are saved before their tasks are made.
LEMMA PlansStep ==
  ASSUME TypeOK, PlansAreReady, [Next]_vars
  PROVE  PlansAreReady'
<1> USE DEF PlansAreReady
<1>1. Now.ready \subseteq Now'.ready
  BY ReadyStep
<1>2. ASSUME NEW h \in Pusher, Idle(h) PROVE PlansAreReady'
  <2>1. /\ UNCHANGED <<plan, tree>>
        /\ pc[h] \notin {"looked", "noded"} /\ pc'[h] \notin {"looked", "noded"}
        /\ \A g \in Pusher \ {h} : pc'[g] = pc[g]
    BY <1>2, IdleFacts
  <2> QED
    BY <1>1, <2>1
<1>3. ASSUME NEW h \in Pusher, Look(h) PROVE PlansAreReady'
  <2>1. /\ plan' = [plan EXCEPT ![h] = plan'[h]]
        /\ \A p \in plan'[h] : p.path \in Now.ready /\ TasksAt(p.path) = {}
        /\ \A p, q \in plan'[h] : p.path = q.path => p = q
        /\ pc' = [pc EXCEPT ![h] = pc'[h]] /\ pc'[h] \in {"done", "looked"}
        /\ plan'[h] # {} => pc'[h] = "looked"
        /\ tree' = tree
    BY <1>3, LookFacts
  <2>2. \A g \in Pusher \ {h} : plan'[g] = plan[g] /\ pc'[g] = pc[g]
    BY <2>1 DEF TypeOK
  <2> QED
    BY <1>1, <2>1, <2>2
<1>4. ASSUME NEW h \in Pusher, SaveNodes(h) PROVE PlansAreReady'
  <2>1. /\ plan' = plan /\ pc[h] = "looked"
        /\ tree' = tree \cup UNION {{SubSeq(p.node, 1, k) : k \in 0..Len(p.node)} : p \in plan[h]}
    BY <1>4 DEF SaveNodes
  <2>2. pc'[h] = "noded" /\ \A g \in Pusher \ {h} : pc'[g] = pc[g]
    BY <1>4 DEF SaveNodes, TypeOK
  <2>3. ASSUME NEW p \in plan[h] PROVE p.node \in tree'
    <3>1. p.node \in Seq(Nat \X Pusher)
      BY DEF TypeOK, PlanRecord
    <3>2. SubSeq(p.node, 1, Len(p.node)) = p.node /\ Len(p.node) \in 0..Len(p.node)
      BY <3>1
    <3> QED
      BY <2>1, <3>2
  <2> QED
    BY <1>1, <2>1, <2>2, <2>3
<1>5. ASSUME NEW h \in Pusher, CreateTasks(h) \/ PusherDies(h) PROVE PlansAreReady'
  <2>1. plan'[h] = {} /\ tree' = tree /\ \A g \in Pusher \ {h} : plan'[g] = plan[g] /\ pc'[g] = pc[g]
    BY <1>5 DEF CreateTasks, PusherDies, TypeOK
  <2> QED
    BY <1>1, <2>1
<1>6. ASSUME NEW t \in tasks, Saves(t) PROVE PlansAreReady'
  <2>1. UNCHANGED <<pc, plan, tree>>
    BY <1>6, SavesFacts
  <2> QED
    BY <1>1, <2>1
<1>7. CASE UNCHANGED vars
  BY <1>1, <1>7 DEF vars
<1> QED
  BY <1>2, <1>3, <1>4, <1>5, <1>6, <1>7, StepCases

\* Rows keep their types; a task is made in a node that is there.
LEMMA TypeStep ==
  ASSUME TypeOK, PlansAreReady, TasksAreNumbered, PushesAreCounted, [Next]_vars
  PROVE  TypeOK'
<1> DEFINE PC == {"upstream", "arrived", "looked", "noded", "tasked", "done", "raised", "dead"}
           RUN == {"waiting", "running", "finished", "failed"}
<1>1. /\ shape \in DOMAIN Shapes /\ pc \in [Pusher -> PC] /\ plan \in [Pusher -> SUBSET PlanRecord]
      /\ tree \subseteq Nodes /\ (\A n \in tree : n # <<>> => Front(n) \in tree)
      /\ tasks \subseteq TaskRecord /\ (\A t \in tasks : t.node \in tree)
      /\ run \subseteq RUN /\ crashes \in 0..MaxCrashes
  BY DEF TypeOK, Nodes
<1> DEFINE Typed ==
             /\ pc' \in [Pusher -> PC] /\ plan' \in [Pusher -> SUBSET PlanRecord]
             /\ tree' \subseteq Nodes /\ (\A n \in tree' : n # <<>> => Front(n) \in tree')
             /\ tasks' \subseteq TaskRecord /\ (\A t \in tasks' : t.node \in tree')
             /\ run' \subseteq RUN /\ crashes' \in 0..MaxCrashes
<1>2. ASSUME NEW h \in Pusher, Idle(h) PROVE Typed
  BY <1>1, <1>2, IdleFacts
<1>3. ASSUME NEW h \in Pusher, Look(h) PROVE Typed
  <2>1. /\ plan' = [plan EXCEPT ![h] = plan'[h]] /\ plan'[h] \in SUBSET PlanRecord
        /\ pc' = [pc EXCEPT ![h] = pc'[h]] /\ pc'[h] \in {"done", "looked"}
        /\ UNCHANGED <<tree, tasks, run, crashes>>
    BY <1>3, LookFacts
  <2>2. plan' \in [Pusher -> SUBSET PlanRecord] /\ pc' \in [Pusher -> PC]
    BY <1>1, <2>1
  <2> QED
    BY <1>1, <2>1, <2>2
<1>4. ASSUME NEW h \in Pusher, SaveNodes(h) PROVE Typed
  <2>1. /\ tree' = tree \cup UNION {{SubSeq(p.node, 1, k) : k \in 0..Len(p.node)} : p \in plan[h]}
        /\ pc' = [pc EXCEPT ![h] = "noded"]
        /\ UNCHANGED <<shape, plan, tasks, run, crashes>>
    BY <1>4 DEF SaveNodes
  <2>2. \A p \in plan[h] : p.node \in Nodes
    BY <1>1 DEF PlanRecord, Nodes
  <2>3. ASSUME NEW p \in plan[h], NEW k \in 0..Len(p.node)
        PROVE  /\ SubSeq(p.node, 1, k) \in Nodes
               /\ SubSeq(p.node, 1, k) # <<>> => Front(SubSeq(p.node, 1, k)) \in tree'
    <3> DEFINE m == p.node
               s == SubSeq(m, 1, k)
    <3>1. m \in Nodes /\ k \in 0..Len(m)
      BY <2>2
    <3>20. m \in Seq(Nat \X Pusher)
      BY <3>1 DEF Nodes
    <3> HIDE DEF m
    <3>2. s \in Nodes /\ Len(s) = k /\ \A i \in 1..k : s[i] = m[i]
      BY <3>1, <3>20, SubSequence DEF Nodes
    <3> HIDE DEF s
    <3>3. ASSUME s # <<>> PROVE Front(s) \in tree'
      <4>1. s \in Seq(Nat \X Pusher) /\ k \in Nat /\ k # 0
        BY <3>1, <3>2, <3>3 DEF Nodes
      <4>2. k - 1 \in 0..Len(s) /\ k - 1 \in 0..Len(m)
        BY <3>1, <3>2, <3>20, <4>1
      <4>3. /\ SubSeq(s, 1, k - 1) \in Seq(Nat \X Pusher)
            /\ Len(SubSeq(s, 1, k - 1)) = k - 1
            /\ \A i \in 1..(k - 1) : SubSeq(s, 1, k - 1)[i] = s[i]
        BY <4>1, <4>2, SubSequence
      <4>4. /\ SubSeq(m, 1, k - 1) \in Seq(Nat \X Pusher)
            /\ Len(SubSeq(m, 1, k - 1)) = k - 1
            /\ \A i \in 1..(k - 1) : SubSeq(m, 1, k - 1)[i] = m[i]
        BY <3>20, <4>2, SubSequence
      <4>5. \A i \in 1..(k - 1) : SubSeq(s, 1, k - 1)[i] = SubSeq(m, 1, k - 1)[i]
        BY <3>2, <4>1, <4>3, <4>4
      <4>6. SubSeq(s, 1, k - 1) = SubSeq(m, 1, k - 1)
        BY <4>3, <4>4, <4>5, SameSequence
      <4>7. Front(s) = SubSeq(m, 1, k - 1)
        BY <3>2, <4>6 DEF Front
      <4> QED
        BY <2>1, <4>2, <4>7 DEF m
    <3> QED
      BY <3>2, <3>3 DEF s, m
  <2>4. tree' \subseteq Nodes /\ (\A n \in tree' : n # <<>> => Front(n) \in tree')
    <3>1. ASSUME NEW n \in tree' PROVE n \in Nodes /\ (n # <<>> => Front(n) \in tree')
      <4>1. CASE n \in tree
        BY <1>1, <2>1, <4>1
      <4>2. CASE \E p \in plan[h] : \E k \in 0..Len(p.node) : n = SubSeq(p.node, 1, k)
        BY <2>3, <4>2
      <4> QED
        BY <2>1, <4>1, <4>2
    <3> QED
      BY <3>1
  <2>5. pc' \in [Pusher -> PC]
    BY <1>1, <2>1
  <2> QED
    BY <1>1, <2>1, <2>4, <2>5
<1>5. ASSUME NEW h \in Pusher, CreateTasks(h) PROVE Typed
  <2>1. /\ tasks' = tasks \cup {Made(p, h) : p \in plan[h]} /\ pc[h] = "noded"
        /\ plan' = [plan EXCEPT ![h] = {}] /\ pc' = [pc EXCEPT ![h] = "tasked"]
        /\ UNCHANGED <<shape, tree, run, crashes>>
    BY <1>5 DEF CreateTasks, Made
  <2>2. ASSUME NEW p \in plan[h] PROVE Made(p, h) \in TaskRecord /\ Made(p, h).node \in tree'
    <3>1. p.path \in Seq(Nat \X Nat) /\ p.node \in Seq(Nat \X Pusher)
      BY <1>1 DEF PlanRecord
    <3>2. p.node \in tree /\ p.path \in Expected
      BY <1>1, <2>1, NowFacts DEF PlansAreReady
    <3>3. Cardinality(TasksAt(p.path)) \in Nat
      BY <3>2, FS_CardinalityType DEF PushesAreCounted
    <3> QED
      BY <2>1, <3>1, <3>2, <3>3 DEF Made, TaskRecord
  <2>3. tasks' \subseteq TaskRecord /\ (\A t \in tasks' : t.node \in tree')
    BY <1>1, <2>1, <2>2
  <2>4. pc' \in [Pusher -> PC] /\ plan' \in [Pusher -> SUBSET PlanRecord]
    BY <1>1, <2>1
  <2> QED
    BY <1>1, <2>1, <2>3, <2>4
<1>6. ASSUME NEW h \in Pusher, PusherDies(h) PROVE Typed
  <2>1. /\ plan' = [plan EXCEPT ![h] = {}] /\ pc' = [pc EXCEPT ![h] = "dead"]
        /\ UNCHANGED <<tree, tasks, run>> /\ crashes < MaxCrashes /\ crashes' = crashes + 1
    BY <1>6 DEF PusherDies
  <2>2. crashes' \in 0..MaxCrashes
    BY <1>1, <2>1, BoundsAssumption
  <2>3. pc' \in [Pusher -> PC] /\ plan' \in [Pusher -> SUBSET PlanRecord]
    BY <1>1, <2>1
  <2> QED
    BY <1>1, <2>1, <2>2, <2>3
<1>7. ASSUME NEW t \in tasks, Saves(t) PROVE Typed
  <2>1. /\ Save(t) /\ ~t.finished /\ UNCHANGED <<pc, plan, tree>>
        /\ run' = run \/ run' = (IF AreTasksFinished(tasks') THEN Ended("finished") ELSE run)
        /\ crashes' = crashes \/ (crashes < MaxCrashes /\ crashes' = crashes + 1)
    BY <1>7, SavesFacts
  <2>2. PICK u \in TaskRecord : u.node = t.node /\ tasks' = (tasks \ {t}) \cup {u}
    BY <2>1, SaveFacts
  <2>3. tasks' \subseteq TaskRecord /\ (\A x \in tasks' : x.node \in tree')
    BY <1>1, <2>1, <2>2
  <2>4. run' \subseteq RUN
    BY <1>1, <2>1 DEF Ended
  <2>5. crashes' \in 0..MaxCrashes
    BY <1>1, <2>1, BoundsAssumption
  <2> QED
    BY <1>1, <2>1, <2>3, <2>4, <2>5
<1>8. ASSUME UNCHANGED vars PROVE Typed
  BY <1>1, <1>8 DEF vars
<1>9. Typed
  <2> HIDE DEF Typed
  <2> QED
    BY <1>2, <1>3, <1>4, <1>5, <1>6, <1>7, <1>8, StepCases
<1>10. shape' \in DOMAIN Shapes
  BY ReadyStep
<1> QED
  BY <1>9, <1>10 DEF TypeOK, Nodes

\* The data paths of plans and tasks are expected, and have finitely many tasks.
LEMMA FiniteTasks ==
  ASSUME TypeOK, PlansAreReady, TasksAreNumbered, PushesAreCounted
  PROVE  /\ \A t \in tasks : t.path \in Expected
         /\ \A h \in Pusher : \A p \in plan[h] : p.path \in Expected /\ IsFiniteSet(TasksAt(p.path))
<1>1. Now.ready \subseteq Expected
  BY NowFacts DEF TypeOK
<1> QED
  BY <1>1 DEF PlansAreReady, TasksAreNumbered, PushesAreCounted

\* Only making and finishing tasks changes them.
LEMMA TasksUnchanged ==
  ASSUME TypeOK, NEW h \in Pusher, Idle(h) \/ Look(h) \/ SaveNodes(h) \/ PusherDies(h)
  PROVE  tasks' = tasks /\ ("finished" \in run' => "finished" \in run)
<1>1. CASE Idle(h)
  BY <1>1, IdleFacts
<1>2. CASE Look(h)
  BY <1>2, LookFacts
<1>3. CASE SaveNodes(h)
  BY <1>3 DEF SaveNodes
<1>4. CASE PusherDies(h)
  BY <1>4 DEF PusherDies
<1> QED
  BY <1>1, <1>2, <1>3, <1>4

\* Numbers of tasks are given in turn, since nobody else makes a task in the same step.
LEMMA NumberedStep ==
  ASSUME TypeOK, PlansAreReady, TasksAreNumbered, PushesAreCounted, [Next]_vars
  PROVE  TasksAreNumbered'
<1>1. Now.ready \subseteq Now'.ready
  BY ReadyStep
<1>2. ASSUME tasks' = tasks PROVE TasksAreNumbered'
  <2>1. \A path : TasksAt(path)' = TasksAt(path)
    BY <1>2 DEF TasksAt
  <2> QED
    BY <1>1, <1>2, <2>1 DEF TasksAreNumbered
<1>3. ASSUME NEW h \in Pusher, CreateTasks(h) PROVE TasksAreNumbered'
  <2>1. \A p \in plan[h] : IsFiniteSet(TasksAt(p.path))
    BY FiniteTasks
  <2>2. tasks' = tasks \cup {Made(p, h) : p \in plan[h]}
    BY <1>3, <2>1, CreateFacts
  <2>3. \A p, q \in plan[h] : p.path = q.path => p = q
    BY DEF PlansAreReady
  <2>4. ASSUME NEW t \in tasks PROVE t.path \in Now'.ready /\ t.nth < Cardinality(TasksAt(t.path))'
    <3>1. t.path \in Now.ready /\ t.nth < Cardinality(TasksAt(t.path)) /\ t.nth \in Nat
      BY DEF TasksAreNumbered, TypeOK, TaskRecord
    <3>2. IsFiniteSet(TasksAt(t.path))
      BY FiniteTasks DEF PushesAreCounted
    <3> DEFINE path == t.path
    <3> HIDE DEF path
    <3>3. IsFiniteSet(TasksAt(path))
      BY <3>2 DEF path
    <3>4. /\ Cardinality(TasksAt(path)) \in Nat /\ Cardinality(TasksAt(path)') \in Nat
          /\ Cardinality(TasksAt(path)') =
               Cardinality(TasksAt(path)) + (IF \E p \in plan[h] : p.path = path THEN 1 ELSE 0)
      BY <1>3, <2>1, <3>3, CreateCounts
    <3>5. t.nth < Cardinality(TasksAt(path)) => t.nth < Cardinality(TasksAt(path)')
      BY <3>1, <3>4
    <3> QED
      BY <1>1, <3>1, <3>5 DEF path, TasksAt
  <2>5. ASSUME NEW p \in plan[h], NEW t, t = Made(p, h)
        PROVE  t.path \in Now'.ready /\ t.nth < Cardinality(TasksAt(t.path))'
    <3>1. t.path = p.path /\ t.nth = Cardinality(TasksAt(p.path))
      BY <2>5, MadeFacts
    <3>2. p.path \in Now.ready
      BY DEF PlansAreReady
    <3> DEFINE path == p.path
    <3> HIDE DEF path
    <3>3. IsFiniteSet(TasksAt(path)) /\ \E q \in plan[h] : q.path = path
      BY <2>1 DEF path
    <3>4. /\ Cardinality(TasksAt(path)) \in Nat /\ Cardinality(TasksAt(path)') \in Nat
          /\ Cardinality(TasksAt(path)') =
               Cardinality(TasksAt(path)) + (IF \E q \in plan[h] : q.path = path THEN 1 ELSE 0)
      BY <1>3, <2>1, <3>3, CreateCounts
    <3>5. Cardinality(TasksAt(path)) < Cardinality(TasksAt(path)')
      BY <3>3, <3>4
    <3> QED
      BY <1>1, <3>1, <3>2, <3>5 DEF path, TasksAt
  <2>6. ASSUME NEW t \in tasks, NEW p \in plan[h] PROVE ~(t.path = p.path /\ t.nth = Made(p, h).nth)
    <3> SUFFICES ASSUME t.path = p.path, t.nth = Made(p, h).nth PROVE FALSE
      OBVIOUS
    <3>1. t.nth < Cardinality(TasksAt(t.path)) /\ t.nth \in Nat /\ t.nth = Cardinality(TasksAt(p.path))
      BY MadeFacts DEF TasksAreNumbered, TypeOK, TaskRecord
    <3>2. Cardinality(TasksAt(p.path)) < Cardinality(TasksAt(p.path)) /\ Cardinality(TasksAt(p.path)) \in Nat
      BY <3>1
    <3> QED
      BY <3>2
  <2>9. \A t \in tasks' : t \in tasks \/ \E q \in plan[h] : t = Made(q, h)
    BY <2>2
  <2>7. ASSUME NEW t \in tasks', NEW u \in tasks', t.path = u.path, t.nth = u.nth PROVE t = u
    <3>1. CASE t \in tasks /\ u \in tasks
      BY <2>7, <3>1 DEF TasksAreNumbered
    <3>2. ASSUME NEW p \in plan[h], t = Made(p, h) PROVE t = u
      <4>1. u \notin tasks
        <5>1. u.path = p.path /\ u.nth = Made(p, h).nth
          BY <2>7, <3>2, MadeFacts
        <5> QED
          BY <2>6, <5>1
      <4>2. PICK q \in plan[h] : u = Made(q, h)
        BY <2>9, <4>1
      <4>3. p.path = q.path
        BY <2>7, <3>2, <4>2, MadePath
      <4> QED
        BY <2>3, <3>2, <4>2, <4>3
    <3>3. ASSUME NEW p \in plan[h], u = Made(p, h) PROVE t = u
      <4>1. t \notin tasks
        <5>1. t.path = p.path /\ t.nth = Made(p, h).nth
          BY <2>7, <3>3, MadeFacts
        <5> QED
          BY <2>6, <5>1
      <4>2. PICK q \in plan[h] : t = Made(q, h)
        BY <2>9, <4>1
      <4>3. p.path = q.path
        BY <2>7, <3>3, <4>2, MadePath
      <4> QED
        BY <2>3, <3>3, <4>2, <4>3
    <3> QED
      BY <2>9, <3>1, <3>2, <3>3
  <2>8. \A t \in tasks' : t.path \in Now'.ready /\ t.nth < Cardinality(TasksAt(t.path))'
    <3> SUFFICES ASSUME NEW t \in tasks'
                 PROVE  t.path \in Now'.ready /\ t.nth < Cardinality(TasksAt(t.path))'
      OBVIOUS
    <3> QED
      BY <2>2, <2>4, <2>5
  <2> QED
    BY <2>7, <2>8 DEF TasksAreNumbered, TasksAt
<1>4. ASSUME NEW t \in tasks, Saves(t) PROVE TasksAreNumbered'
  <2>1. Save(t) /\ ~t.finished
    BY <1>4, SavesFacts
  <2>2. PICK u \in TaskRecord : /\ u.path = t.path /\ u.nth = t.nth
                                /\ tasks' = (tasks \ {t}) \cup {u}
    BY <2>1, SaveFacts
  <2>3. \A x \in tasks' : \E y \in tasks : /\ y.path = x.path /\ y.nth = x.nth
                                           /\ x = IF y = t THEN u ELSE y
    BY <2>2
  <2>4. \A x, y \in tasks' : x.path = y.path /\ x.nth = y.nth => x = y
    BY <2>3 DEF TasksAreNumbered
  <2>5. ASSUME NEW x \in tasks' PROVE x.path \in Now'.ready /\ x.nth < Cardinality(TasksAt(x.path))'
    <3>1. PICK y \in tasks : y.path = x.path /\ y.nth = x.nth
      BY <2>3
    <3>2. x.path \in Now.ready /\ x.nth < Cardinality(TasksAt(x.path))
      BY <3>1 DEF TasksAreNumbered
    <3> DEFINE path == x.path
    <3> HIDE DEF path
    <3>3. IsFiniteSet(TasksAt(path))
      BY <3>1, FiniteTasks DEF PushesAreCounted, path
    <3>4. Cardinality(TasksAt(path)') = Cardinality(TasksAt(path))
      BY <2>1, <3>3, SaveCounts
    <3> QED
      BY <1>1, <3>2, <3>4 DEF path, TasksAt
  <2> QED
    BY <2>4, <2>5 DEF TasksAreNumbered, TasksAt
<1>5. CASE UNCHANGED vars
  BY <1>2, <1>5 DEF vars
<1> QED
  BY <1>2, <1>3, <1>4, <1>5, StepCases, TasksUnchanged

\* A handler that looks plans for data paths without a task, while there is room for
\* its push beside the others; it makes its tasks once, or dies.
LEMMA CountedStep ==
  ASSUME TypeOK, PlansAreReady, TasksAreNumbered, PushesAreCounted, [Next]_vars
  PROVE  PushesAreCounted'
<1>1. Expected' = Expected
  BY ReadyStep
<1>2. SUFFICES ASSUME NEW path \in Expected
               PROVE  /\ IsFiniteSet(TasksAt(path)')
                      /\ Cardinality(TasksAt(path)') + Cardinality(Planners(path)') <= MaxPushing
  BY <1>1 DEF PushesAreCounted, TasksAt, Planners
<1> DEFINE T == TasksAt(path)
           P == Planners(path)
           Q == Planners(path)'
<1>3. IsFiniteSet(P) /\ IsFiniteSet(Q)
  <2>1. P \subseteq Pusher /\ Q \subseteq Pusher
    BY DEF Planners
  <2> QED
    BY <2>1, PusherAssumption, FS_Subset
<1>4. Cardinality(P) \in Nat /\ Cardinality(Q) \in Nat
  BY <1>3, FS_CardinalityType
<1>5. IsFiniteSet(T) /\ Cardinality(T) + Cardinality(P) <= MaxPushing /\ Cardinality(T) \in Nat
  BY <1>2, FS_CardinalityType DEF PushesAreCounted
<1>6. MaxPushing \in Nat
  BY BoundsAssumption
<1>7. ASSUME NEW h \in Pusher, Look(h)
      PROVE  IsFiniteSet(T') /\ Cardinality(T') + Cardinality(Q) <= MaxPushing
  <2>1. /\ plan' = [plan EXCEPT ![h] = plan'[h]] /\ tasks' = tasks
        /\ \A p \in plan'[h] : TasksAt(p.path) = {}
    BY <1>7, LookFacts
  <2>2. \A g \in Pusher \ {h} : plan'[g] = plan[g]
    BY <2>1 DEF TypeOK
  <2>3. T' = T
    BY <2>1 DEF TasksAt
  <2>4. pc[h] = "arrived" /\ Cardinality(Pushing) < MaxPushing
    BY <1>7 DEF Look, MayPush
  <2>5. CASE h \in Q
    <3>1. T = {}
      BY <2>1, <2>5 DEF Planners
    <3>2. Q \ {h} \subseteq Pushing
      BY <2>2 DEF Planners, Pushing, PlansAreReady
    <3>3. IsFiniteSet(Pushing)
      <4>1. Pushing \subseteq Pusher
        BY DEF Pushing
      <4> QED
        BY <4>1, PusherAssumption, FS_Subset
    <3>4. Cardinality(Q \ {h}) <= Cardinality(Pushing) /\ Cardinality(Pushing) \in Nat
      BY <3>2, <3>3, FS_Subset, FS_CardinalityType
    <3>5. Cardinality(Q \ {h}) = Cardinality(Q) - 1
      BY <1>3, <2>5, FS_RemoveElement
    <3>6. Cardinality(T) = 0
      BY <3>1, FS_EmptySet
    <3>7. Cardinality(T) + Cardinality(Q) <= MaxPushing
      <4> HIDE DEF T, Q
      <4> QED
        BY <1>4, <1>6, <2>4, <3>4, <3>5, <3>6
    <3> QED
      BY <1>5, <2>3, <3>7
  <2>6. CASE h \notin Q
    <3>1. Q \subseteq P
      BY <2>2, <2>6 DEF Planners
    <3>2. Cardinality(Q) <= Cardinality(P)
      BY <1>3, <3>1, FS_Subset
    <3>3. Cardinality(T) + Cardinality(Q) <= MaxPushing
      <4> HIDE DEF T, P, Q
      <4> QED
        BY <1>4, <1>5, <1>6, <3>2
    <3> QED
      BY <1>5, <2>3, <3>3
  <2> QED
    BY <2>5, <2>6
<1>8. ASSUME NEW h \in Pusher, CreateTasks(h)
      PROVE  IsFiniteSet(T') /\ Cardinality(T') + Cardinality(Q) <= MaxPushing
  <2>1. plan' = [plan EXCEPT ![h] = {}]
    BY <1>8 DEF CreateTasks
  <2>2. Q = P \ {h}
    BY <2>1 DEF Planners, TypeOK
  <2>3. \A p \in plan[h] : IsFiniteSet(TasksAt(p.path))
    BY FiniteTasks
  <2>4. /\ IsFiniteSet(TasksAt(path)') /\ Cardinality(TasksAt(path)') \in Nat
        /\ Cardinality(TasksAt(path)') =
             Cardinality(T) + (IF \E p \in plan[h] : p.path = path THEN 1 ELSE 0)
    BY <1>5, <1>8, <2>3, CreateCounts
  <2>5. (\E p \in plan[h] : p.path = path) <=> h \in P
    BY DEF Planners
  <2>6. Cardinality(Q) = IF h \in P THEN Cardinality(P) - 1 ELSE Cardinality(P)
    BY <1>3, <2>2, FS_RemoveElement
  <2>7. Cardinality(T') + Cardinality(Q) = Cardinality(T) + Cardinality(P)
    <3>1. Cardinality(T') = Cardinality(T) + (IF h \in P THEN 1 ELSE 0)
      BY <2>4, <2>5
    <3> HIDE DEF T, P, Q
    <3> QED
      BY <1>4, <1>5, <2>6, <3>1
  <2> QED
    BY <1>5, <2>4, <2>7
<1>9. ASSUME Q \subseteq P, IsFiniteSet(T'), Cardinality(T') = Cardinality(T)
      PROVE  IsFiniteSet(T') /\ Cardinality(T') + Cardinality(Q) <= MaxPushing
  <2>1. Cardinality(Q) <= Cardinality(P)
    BY <1>3, <1>9, FS_Subset
  <2>2. Cardinality(T) + Cardinality(Q) <= MaxPushing
    <3> HIDE DEF T, P, Q
    <3> QED
      BY <1>4, <1>5, <1>6, <2>1
  <2> QED
    BY <1>9, <2>2
<1>10. ASSUME NEW t \in tasks, Saves(t)
       PROVE  IsFiniteSet(T') /\ Cardinality(T') + Cardinality(Q) <= MaxPushing
  <2>1. Save(t) /\ ~t.finished /\ plan' = plan
    BY <1>10, SavesFacts
  <2>2. Q \subseteq P
    BY <2>1 DEF Planners
  <2>3. IsFiniteSet(TasksAt(path)') /\ Cardinality(TasksAt(path)') = Cardinality(TasksAt(path))
    BY <1>5, <2>1, SaveCounts
  <2> QED
    BY <1>9, <2>2, <2>3
<1>11. ASSUME tasks' = tasks, \A g \in Pusher : plan'[g] \subseteq plan[g]
       PROVE  IsFiniteSet(T') /\ Cardinality(T') + Cardinality(Q) <= MaxPushing
  <2>1. T' = T /\ Q \subseteq P
    BY <1>11 DEF TasksAt, Planners
  <2> QED
    BY <1>5, <1>9, <2>1
<1>12. ASSUME NEW h \in Pusher, Idle(h) \/ SaveNodes(h) \/ PusherDies(h)
       PROVE  tasks' = tasks /\ \A g \in Pusher : plan'[g] \subseteq plan[g]
  <2>1. CASE Idle(h)
    BY <2>1, IdleFacts
  <2>2. CASE SaveNodes(h)
    BY <2>2 DEF SaveNodes
  <2>3. CASE PusherDies(h)
    BY <2>3 DEF PusherDies, TypeOK
  <2> QED
    BY <1>12, <2>1, <2>2, <2>3
<1>13. CASE UNCHANGED vars
  BY <1>11, <1>13 DEF vars
<1>14. ASSUME NEW h \in Pusher, Idle(h) \/ SaveNodes(h) \/ PusherDies(h)
       PROVE  IsFiniteSet(T') /\ Cardinality(T') + Cardinality(Q) <= MaxPushing
  BY <1>11, <1>12, <1>14
<1>15. IsFiniteSet(T') /\ Cardinality(T') + Cardinality(Q) <= MaxPushing
  <2> HIDE DEF T, Q
  <2>1. CASE UNCHANGED vars
    BY <1>13, <2>1 DEF T, Q
  <2> QED
    BY <1>7, <1>8, <1>10, <1>14, <2>1, StepCases
<1> QED
  BY <1>15

\* A run is finished only when the paths of its tasks are all those expected, and the
\* last task of each is finished; tasks are then neither lost nor taken back.
LEMMA FinishedStep ==
  ASSUME TypeOK, PlansAreReady, TasksAreNumbered, PushesAreCounted, FinishedRunIsComplete,
         [Next]_vars
  PROVE  FinishedRunIsComplete'
<1>1. Expected' = Expected /\ TypeOK' /\ TasksAreNumbered' /\ PushesAreCounted'
  BY ReadyStep, TypeStep, NumberedStep, CountedStep
<1>2. ASSUME "finished" \in run, \A t \in tasks : t.finished => t \in tasks'
      PROVE  FinishedRunIsComplete'
  BY <1>1, <1>2 DEF FinishedRunIsComplete, TasksAt
<1>3. ASSUME NEW h \in Pusher, CreateTasks(h) PROVE FinishedRunIsComplete'
  <2>1. run' = run /\ tasks \subseteq tasks'
    BY <1>3 DEF CreateTasks
  <2> QED
    BY <1>2, <2>1 DEF FinishedRunIsComplete
<1>4. ASSUME NEW h \in Pusher, Idle(h) \/ Look(h) \/ SaveNodes(h) \/ PusherDies(h)
      PROVE  FinishedRunIsComplete'
  <2>1. tasks' = tasks /\ ("finished" \in run' => "finished" \in run)
    BY <1>4, TasksUnchanged
  <2> QED
    BY <1>2, <2>1 DEF FinishedRunIsComplete
<1>5. ASSUME AreTasksFinished(tasks') PROVE FinishedRunIsComplete'
  <2>1. ASSUME NEW path \in Expected PROVE \E t \in TasksAt(path)' : t.finished
    <3>1. \A t \in tasks' : t.path \in Expected
      <4>1. Now'.ready \subseteq Expected
        BY ReadyStep
      <4> QED
        BY <1>1, <4>1 DEF TasksAreNumbered
    <3>2. Expected \in SUBSET Paths /\ IsTree(Expected)
      BY NowFacts, ExpectedIsTree DEF TypeOK
    <3>3. PICK t \in tasks' : t.path = path
      <4> HIDE DEF AreTasksFinished
      <4> QED
        BY <1>5, <2>1, <3>1, <3>2, FinishedTreeIsComplete
    <3> DEFINE some == {u \in tasks' : u.path = path}
               N == Cardinality(some)
    <3>4. some = TasksAt(path)' /\ some # {}
      BY <3>3 DEF TasksAt
    <3>5. N \in Nat
      <4>1. IsFiniteSet(TasksAt(path)')
        BY <1>1, <2>1 DEF PushesAreCounted, TasksAt
      <4> QED
        BY <3>4, <4>1, FS_CardinalityType
    <3>6. \A u \in some : u.nth \in Nat /\ u.nth <= N
      <4>1. \A u \in some : u.nth < N /\ u.nth \in Nat
        <5> SUFFICES ASSUME NEW u \in some PROVE u.nth < N /\ u.nth \in Nat
          OBVIOUS
        <5>1. u \in tasks' /\ u.path = path
          OBVIOUS
        <5>2. u.nth < Cardinality({x \in tasks' : x.path = u.path})
          BY <1>1, <5>1 DEF TasksAreNumbered, TasksAt
        <5>3. u.nth \in Nat
          BY <1>1, <5>1 DEF TypeOK, TaskRecord
        <5> QED
          BY <5>1, <5>2, <5>3
      <4> HIDE DEF some, N
      <4> QED
        BY <3>5, <4>1
    <3>7. Latest(some) \in some
      <4> HIDE DEF some, N
      <4> QED
        BY <3>4, <3>5, <3>6, LatestFacts
    <3>8. Latest({u \in tasks' : u.path = t.path}).finished
      BY <1>5 DEF AreTasksFinished
    <3> QED
      BY <3>3, <3>4, <3>7, <3>8
  <2> QED
    BY <1>1, <2>1 DEF FinishedRunIsComplete
<1>6. ASSUME NEW t \in tasks, Saves(t) PROVE FinishedRunIsComplete'
  <2>1. /\ Save(t) /\ ~t.finished
        /\ run' = run \/ run' = (IF AreTasksFinished(tasks') THEN Ended("finished") ELSE run)
    BY <1>6, SavesFacts
  <2>2. \A u \in tasks : u.finished => u \in tasks'
    BY <2>1 DEF Save
  <2>3. CASE AreTasksFinished(tasks')
    BY <1>5, <2>3
  <2>4. CASE ~AreTasksFinished(tasks')
    <3>1. run' = run
      BY <2>1, <2>4
    <3> QED
      BY <1>2, <2>2, <3>1 DEF FinishedRunIsComplete
  <2> QED
    BY <2>3, <2>4
<1>7. CASE UNCHANGED vars
  BY <1>2, <1>7 DEF vars, FinishedRunIsComplete
<1> QED
  BY <1>3, <1>4, <1>6, <1>7, StepCases

\* In the beginning there are no plans and no tasks.
LEMMA InitIInv ==
  ASSUME Init
  PROVE  IInv
<1>1. TypeOK
  <2>1. pc \in [Pusher -> {"upstream", "arrived", "looked", "noded", "tasked", "done", "raised", "dead"}]
    BY DEF Init
  <2>2. tree \subseteq Seq(Nat \X Pusher)
    BY DEF Init
  <2>3. crashes \in 0..MaxCrashes
    BY BoundsAssumption DEF Init
  <2> QED
    BY <2>1, <2>2, <2>3 DEF Init, TypeOK
<1>2. PlansAreReady /\ TasksAreNumbered /\ FinishedRunIsComplete
  BY DEF Init, PlansAreReady, TasksAreNumbered, FinishedRunIsComplete
<1>3. PushesAreCounted
  <2>1. \A path : TasksAt(path) = {} /\ Planners(path) = {}
    BY DEF Init, TasksAt, Planners
  <2>2. IsFiniteSet({}) /\ Cardinality({}) = 0
    BY FS_EmptySet
  <2> QED
    BY <2>1, <2>2, BoundsAssumption DEF PushesAreCounted
<1> QED
  BY <1>1, <1>2, <1>3 DEF IInv

\* No step breaks the invariant.
LEMMA NextIInv ==
  ASSUME IInv, [Next]_vars
  PROVE  IInv'
<1>1. TypeOK /\ PlansAreReady /\ TasksAreNumbered /\ PushesAreCounted /\ FinishedRunIsComplete
  BY DEF IInv
<1>2. TypeOK' /\ PlansAreReady' /\ TasksAreNumbered' /\ PushesAreCounted' /\ FinishedRunIsComplete'
  BY <1>1, PlansStep, TypeStep, NumberedStep, CountedStep, FinishedStep
<1> QED
  BY <1>2 DEF IInv

\* The inductive invariant: what is planned and made is ready; tasks and the pushes about
\* to make them are together no more than pushes may be under way; and a run that is
\* finished is complete.
THEOREM PushInputsIInvHolds == Spec => []IInv
<1>1. Init => IInv
  BY InitIInv
<1>2. IInv /\ [Next]_vars => IInv'
  BY NextIInv
<1> QED
  BY <1>1, <1>2, PTL DEF Spec

\* The types of the rows, and that the node of a task and all nodes above it are saved.
THEOREM PushInputsTypeOK == Spec => []TypeOK
<1>1. IInv => TypeOK
  BY DEF IInv
<1> QED
  BY <1>1, PushInputsIInvHolds, PTL

\* The input sets calculated from partial data are those that are ready, whatever the
\* order of the inputs in a group.
THEOREM PushInputsInputSetsMatch == Spec => []InputSetsMatch
<1>1. IInv => InputSetsMatch
  BY NowFacts DEF IInv, TypeOK, InputSetsMatch
<1> QED
  BY <1>1, PushInputsIInvHolds, PTL

\* A run that finishes has a finished task for every combination of its inputs.
THEOREM PushInputsFinishedRunIsComplete == Spec => []FinishedRunIsComplete
<1>1. IInv => FinishedRunIsComplete
  BY DEF IInv
<1> QED
  BY <1>1, PushInputsIInvHolds, PTL

-----------------------------------------------------------------------------
(* The tasks of the leaf behave as TaskFlow says.                          *)

\* No data path has a task in the beginning.
LEMMA FlowInit ==
  ASSUME Init
  PROVE  Flow!Init
<1> DEFINE created == [path \in Expected |-> Cardinality(TasksAt(path))]
<1>1. \A path : TasksAt(path) = {}
  BY DEF Init, TasksAt
<1>2. Cardinality({}) = 0
  BY FS_EmptySet
<1>3. created = [path \in DOMAIN created |-> 0]
  BY <1>1, <1>2
<1> QED
  BY <1>3 DEF Flow!Init

\* Making tasks is Create, and all other steps are Arrive, if only to leave things as they are.
LEMMA FlowStep ==
  ASSUME IInv, [Next]_vars
  PROVE  Flow!Next
<1> DEFINE created == [path \in Expected |-> Cardinality(TasksAt(path))]
<1>1. TypeOK /\ PlansAreReady /\ TasksAreNumbered /\ PushesAreCounted
  BY DEF IInv
<1>2. Now.ready \subseteq Now'.ready /\ Expected' = Expected
  BY <1>1, ReadyStep
<1>3. created' = [path \in Expected |-> Cardinality(TasksAt(path)')]
  BY <1>2
<1>4. ASSUME \A path \in Expected : Cardinality(TasksAt(path)') = Cardinality(TasksAt(path))
      PROVE  Flow!Next
  <2>1. created' = created
    BY <1>3, <1>4
  <2> QED
    BY <1>2, <2>1 DEF Flow!Next, Flow!Arrive
<1>5. ASSUME tasks' = tasks PROVE Flow!Next
  <2>1. \A path : TasksAt(path)' = TasksAt(path)
    BY <1>5 DEF TasksAt
  <2> QED
    BY <1>4, <2>1
<1>6. ASSUME NEW t \in tasks, Saves(t) PROVE Flow!Next
  <2>1. Save(t) /\ ~t.finished
    BY <1>6, SavesFacts
  <2>2. ASSUME NEW path \in Expected PROVE Cardinality(TasksAt(path)') = Cardinality(TasksAt(path))
    BY <1>1, <2>1, SaveCounts DEF PushesAreCounted
  <2> QED
    BY <1>4, <2>2
<1>7. ASSUME NEW h \in Pusher, CreateTasks(h) PROVE Flow!Next
  <2>1. Now' = Now
    <3>1. Arrived' = Arrived /\ shape' = shape
      BY <1>1, <1>7 DEF CreateTasks, Arrived, TypeOK
    <3> QED
      BY <3>1 DEF Now, View
  <2>2. ASSUME NEW path \in Expected
        PROVE  \/ Cardinality(TasksAt(path)') = Cardinality(TasksAt(path))
               \/ /\ path \in Now.ready /\ Cardinality(TasksAt(path)) < MaxPushing
                  /\ Cardinality(TasksAt(path)') = Cardinality(TasksAt(path)) + 1
    <3>1. IsFiniteSet(TasksAt(path)) /\ Cardinality(TasksAt(path)) + Cardinality(Planners(path)) <= MaxPushing
      BY <1>1 DEF PushesAreCounted
    <3>2. \A p \in plan[h] : IsFiniteSet(TasksAt(p.path))
      BY <1>1, FiniteTasks
    <3>3. /\ Cardinality(TasksAt(path)) \in Nat
          /\ Cardinality(TasksAt(path)') =
               Cardinality(TasksAt(path)) + (IF \E p \in plan[h] : p.path = path THEN 1 ELSE 0)
      BY <1>1, <1>7, <3>1, <3>2, CreateCounts
    <3>4. CASE \E p \in plan[h] : p.path = path
      <4>1. path \in Now.ready /\ h \in Planners(path)
        BY <1>1, <3>4 DEF PlansAreReady, Planners
      <4>2. IsFiniteSet(Planners(path))
        <5>1. Planners(path) \subseteq Pusher
          BY DEF Planners
        <5> QED
          BY <5>1, PusherAssumption, FS_Subset
      <4>3. Cardinality(Planners(path)) \in Nat /\ Cardinality(Planners(path)) # 0
        BY <4>1, <4>2, FS_CardinalityType, FS_EmptySet
      <4>4. Cardinality(TasksAt(path)) < MaxPushing
        BY <3>1, <3>3, <4>3, BoundsAssumption
      <4> QED
        BY <3>3, <3>4, <4>1, <4>4
    <3>5. CASE ~(\E p \in plan[h] : p.path = path)
      BY <3>3, <3>5
    <3> QED
      BY <3>4, <3>5
  <2>3. DOMAIN created' = DOMAIN created /\ DOMAIN created = Expected
    BY <1>3
  <2>4. \A path \in Expected : /\ created[path] = Cardinality(TasksAt(path))
                               /\ created'[path] = Cardinality(TasksAt(path)')
    BY <1>3
  <2>5. \A path \in DOMAIN created :
          \/ created'[path] = created[path]
          \/ path \in Now.ready /\ created[path] < MaxPushing /\ created'[path] = created[path] + 1
    <3> HIDE DEF created
    <3> QED
      BY <2>2, <2>3, <2>4
  <2> QED
    BY <2>1, <2>3, <2>5 DEF Flow!Next, Flow!Create
<1>8. CASE UNCHANGED vars
  BY <1>5, <1>8 DEF vars
<1> QED
  BY <1>1, <1>5, <1>6, <1>7, <1>8, StepCases, TasksUnchanged

\* Overlapping pushes and deaths do not show in TaskFlow: tasks are made for ready data
\* paths only, and no more than one for each push under way.
THEOREM PushInputsTasksFlow == Spec => TasksFlow
<1>1. Init => Flow!Init
  BY FlowInit
<1>2. IInv /\ [Next]_vars =>
        [Flow!Next]_<<Now.ready, [path \in Expected |-> Cardinality(TasksAt(path))]>>
  BY FlowStep
<1> QED
  BY <1>1, <1>2, PushInputsIInvHolds, PTL DEF Spec, TasksFlow, Flow!Spec
=============================================================================
