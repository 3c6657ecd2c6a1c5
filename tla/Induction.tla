------------------------------ MODULE Induction ------------------------------
(***************************************************************************)
(* Induction and recursion over the numbers, as the proofs about recursive *)
(* functions, folds and sequences need them.  The induction theorems of    *)
(* the library take an operator for what is proved; here it is a set of    *)
(* numbers, and a recursion step is a function.                            *)
(***************************************************************************)
EXTENDS Naturals, FiniteSets, SequencesExt, FiniteSetTheorems, TLAPS

-----------------------------------------------------------------------------
(* Numbers.                                                                *)

\* Sets of numbers have a least one.
LEMMA LeastNumber ==
  ASSUME NEW T \in SUBSET Nat, T # {}
  PROVE  \E n \in T : \A m \in T : n <= m
<1> DEFINE R == OpToRel(<, Nat)
<1>1. IsWellFoundedOn(R, Nat)
  BY NatLessThanWellFounded
<1>2. \A m, n \in Nat : m < n => <<m, n>> \in R
  BY DEF OpToRel
<1> HIDE DEF R
<1>3. PICK n \in T : \A m \in T : ~(<<m, n>> \in R)
  BY <1>1, WFMin
<1>4. \A m \in T : n \in Nat /\ m \in Nat /\ ~(m < n)
  BY <1>2, <1>3
<1>5. \A m \in T : n <= m
  BY <1>4
<1> QED
  BY <1>5

\* Induction, over a set instead of a predicate.
LEMMA EveryNumber ==
  ASSUME NEW S, 0 \in S, \A n \in Nat : n \in S => n + 1 \in S
  PROVE  Nat \subseteq S
<1> SUFFICES ASSUME Nat \ S # {} PROVE FALSE
  OBVIOUS
<1>1. PICK n \in Nat \ S : \A m \in Nat \ S : n <= m
  BY LeastNumber
<1>2. n # 0 /\ n - 1 \in Nat /\ (n - 1) + 1 = n
  BY <1>1
<1>3. n - 1 \in S
  BY <1>1, <1>2
<1> QED
  BY <1>1, <1>2, <1>3

\* What is defined by recursion over the numbers up to n.
ByRecursion(n, base, step, f) ==
  /\ f[0] = base
  /\ \A k \in 1..n : f[k] = step[<<k, f[k - 1]>>]

\* A function that is defined by recursion over the numbers up to n exists.
LEMMA Recursion ==
  ASSUME NEW X, NEW base \in X, NEW step \in [(Nat \ {0}) \X X -> X]
  PROVE  \A n \in Nat : \E f \in [0..n -> X] : ByRecursion(n, base, step, f)
<1> DEFINE S == {n \in Nat : \E f \in [0..n -> X] : ByRecursion(n, base, step, f)}
<1>1. 0 \in S
  <2> DEFINE f == [k \in 0..0 |-> base]
  <2>1. f \in [0..0 -> X] /\ ByRecursion(0, base, step, f)
    BY DEF ByRecursion
  <2> HIDE DEF f
  <2> QED
    BY <2>1
<1>2. ASSUME NEW n \in Nat, n \in S PROVE n + 1 \in S
  <2>1. PICK f \in [0..n -> X] : ByRecursion(n, base, step, f)
    BY <1>2
  <2> DEFINE x == step[<<n + 1, f[n]>>]
             g == [k \in 0..(n + 1) |-> IF k = n + 1 THEN x ELSE f[k]]
  <2>2. f[n] \in X /\ n + 1 \in Nat \ {0} /\ x \in X
    OBVIOUS
  <2>3. g \in [0..(n + 1) -> X]
    BY <2>2
  <2>4. g[0] = base
    BY <2>1 DEF ByRecursion
  <2>5. ASSUME NEW k \in 1..(n + 1) PROVE g[k] = step[<<k, g[k - 1]>>]
    <3>1. CASE k = n + 1
      <4>1. g[k] = x /\ g[k - 1] = f[n] /\ k = n + 1
        BY <3>1
      <4> HIDE DEF g
      <4> QED
        BY <4>1
    <3>2. CASE k # n + 1
      <4>1. k \in 1..n /\ g[k] = f[k] /\ g[k - 1] = f[k - 1]
        BY <3>2
      <4> HIDE DEF g
      <4> QED
        BY <2>1, <4>1 DEF ByRecursion
    <3> QED
      BY <3>1, <3>2
  <2> HIDE DEF g
  <2>6. ByRecursion(n + 1, base, step, g)
    BY <2>4, <2>5 DEF ByRecursion
  <2> QED
    BY <2>3, <2>6
<1> HIDE DEF S
<1>3. Nat \subseteq S
  BY <1>1, <1>2, EveryNumber
<1> QED
  BY <1>3 DEF S

\* Sets of numbers up to a bound have a largest one.
LEMMA Largest ==
  ASSUME NEW n \in Nat, NEW s \in SUBSET (1..n), s # {}
  PROVE  Max(s) \in s /\ \A x \in s : x <= Max(s)
<1> DEFINE T == {n - x : x \in s}
<1>1. T \in SUBSET Nat /\ T # {}
  <2>1. \A x \in s : x \in 1..n /\ n - x \in Nat
    OBVIOUS
  <2> QED
    BY <2>1
<1>2. PICK t \in T : \A u \in T : t <= u
  BY <1>1, LeastNumber
<1>3. PICK x \in s : t = n - x
  BY <1>2
<1>4. \A y \in s : n - y \in T /\ t <= n - y
  BY <1>2
<1>5. \A y \in s : x >= y
  BY <1>3, <1>4
<1>6. \E z \in s : \A y \in s : z >= y
  BY <1>5
<1> QED
  BY <1>6 DEF Max

\* That of an interval is its end.
LEMMA LargestOfInterval ==
  ASSUME NEW n \in Nat, n # 0
  PROVE  1..n # {} /\ Max(1..n) = n /\ (1..n) \ {n} = 1..(n - 1)
<1>1. 1..n # {} /\ n \in 1..n /\ 1..n \in SUBSET (1..n)
  OBVIOUS
<1>2. Max(1..n) \in 1..n /\ n <= Max(1..n)
  BY <1>1, Largest
<1>3. Max(1..n) = n
  BY <1>2
<1> QED
  BY <1>1, <1>3

\* The folds of the community modules recur over sets of indexes and take the largest off.
FoldOver(n, base, step, f) ==
  \A s \in SUBSET (1..n) :
    f[s] = IF s = {} THEN base ELSE step[<<Max(s), f[s \ {Max(s)}]>>]

\* A function that is defined by recursion over sets of numbers exists too.
LEMMA FoldExists ==
  ASSUME NEW n \in Nat, NEW X, NEW base \in X, NEW step \in [(Nat \ {0}) \X X -> X]
  PROVE  \E f \in [SUBSET (1..n) -> X] : FoldOver(n, base, step, f)
<1> DEFINE Small(k) == {s \in SUBSET (1..n) : Cardinality(s) <= k}
           Good(k, f) == \A s \in Small(k) :
                           f[s] = IF s = {} THEN base ELSE step[<<Max(s), f[s \ {Max(s)}]>>]
           K == {k \in Nat : \E f \in [Small(k) -> X] : Good(k, f)}
<1>1. \A s \in SUBSET (1..n) : /\ IsFiniteSet(s) /\ Cardinality(s) \in Nat
                               /\ Cardinality(s) = 0 <=> s = {}
                               /\ Cardinality(s) <= n
  <2> SUFFICES ASSUME NEW s \in SUBSET (1..n)
               PROVE  /\ IsFiniteSet(s) /\ Cardinality(s) \in Nat
                      /\ Cardinality(s) = 0 <=> s = {}
                      /\ Cardinality(s) <= n
    OBVIOUS
  <2>1. 1 \in Int /\ n \in Int
    OBVIOUS
  <2>2. IsFiniteSet(1..n) /\ Cardinality(1..n) = n
    BY <2>1, FS_Interval
  <2>3. IsFiniteSet(s) /\ Cardinality(s) <= Cardinality(1..n)
    BY <2>2, FS_Subset
  <2> QED
    BY <2>2, <2>3, FS_EmptySet, FS_CardinalityType
<1>2. \A s \in SUBSET (1..n) : s # {} =>
        /\ Max(s) \in Nat \ {0}
        /\ s \ {Max(s)} \in SUBSET (1..n)
        /\ Cardinality(s \ {Max(s)}) = Cardinality(s) - 1
  <2> SUFFICES ASSUME NEW s \in SUBSET (1..n), s # {}
               PROVE  /\ Max(s) \in Nat \ {0}
                      /\ s \ {Max(s)} \in SUBSET (1..n)
                      /\ Cardinality(s \ {Max(s)}) = Cardinality(s) - 1
    OBVIOUS
  <2>1. Max(s) \in s
    BY Largest
  <2>2. IsFiniteSet(s)
    BY <1>1
  <2>3. Cardinality(s \ {Max(s)}) = Cardinality(s) - 1
    BY <2>1, <2>2, FS_RemoveElement
  <2>4. Max(s) \in Nat \ {0}
    <3>1. \A x \in 1..n : x \in Nat \ {0}
      OBVIOUS
    <3>2. Max(s) \in 1..n
      BY <2>1
    <3> QED
      BY <3>1, <3>2
  <2>5. s \ {Max(s)} \in SUBSET (1..n)
    OBVIOUS
  <2> QED
    BY <2>3, <2>4, <2>5
<1>3. 0 \in K
  <2> DEFINE f == [s \in Small(0) |-> base]
  <2>1. f \in [Small(0) -> X] /\ Good(0, f)
    BY <1>1
  <2> HIDE DEF f, Good
  <2> QED
    BY <2>1
<1>4. ASSUME NEW k \in Nat, k \in K PROVE k + 1 \in K
  <2>1. PICK f \in [Small(k) -> X] : Good(k, f)
    BY <1>4
  <2> DEFINE g == [s \in Small(k + 1) |-> IF s \in Small(k) THEN f[s]
                                           ELSE step[<<Max(s), f[s \ {Max(s)}]>>]]
  <2>2. \A s \in Small(k + 1) : s \notin Small(k) =>
          s # {} /\ s \ {Max(s)} \in Small(k) /\ s \ {Max(s)} \in Small(k + 1)
    <3> SUFFICES ASSUME NEW s \in SUBSET (1..n), Cardinality(s) <= k + 1, ~(Cardinality(s) <= k)
                 PROVE  /\ s # {}
                        /\ s \ {Max(s)} \in SUBSET (1..n)
                        /\ Cardinality(s \ {Max(s)}) <= k
                        /\ Cardinality(s \ {Max(s)}) <= k + 1
      OBVIOUS
    <3>1. Cardinality(s) \in Nat /\ (s = {} => Cardinality(s) = 0)
      BY <1>1
    <3>2. s # {}
      BY <3>1
    <3>3. s \ {Max(s)} \in SUBSET (1..n) /\ Cardinality(s \ {Max(s)}) = Cardinality(s) - 1
      BY <1>2, <3>2
    <3> QED
      BY <3>1, <3>2, <3>3
  <2>3. \A s \in Small(k) : s \in Small(k + 1) /\ (s # {} => s \ {Max(s)} \in Small(k))
    <3> SUFFICES ASSUME NEW s \in SUBSET (1..n), Cardinality(s) <= k
                 PROVE  Cardinality(s) <= k + 1
                        /\ (s # {} => s \ {Max(s)} \in SUBSET (1..n) /\ Cardinality(s \ {Max(s)}) <= k)
      OBVIOUS
    <3>1. Cardinality(s) \in Nat
      BY <1>1
    <3>2. s # {} => s \ {Max(s)} \in SUBSET (1..n) /\ Cardinality(s \ {Max(s)}) = Cardinality(s) - 1
      BY <1>2
    <3> QED
      BY <3>1, <3>2
  <2>4. \A s \in Small(k + 1) : s # {} => Max(s) \in Nat \ {0}
    BY <1>2
  <2> HIDE DEF Small
  <2>5. g \in [Small(k + 1) -> X]
    <3> SUFFICES ASSUME NEW s \in Small(k + 1), s \notin Small(k)
                 PROVE  step[<<Max(s), f[s \ {Max(s)}]>>] \in X
      OBVIOUS
    <3>1. f[s \ {Max(s)}] \in X /\ Max(s) \in Nat \ {0}
      BY <2>2, <2>4
    <3> QED
      BY <3>1
  <2>6. Good(k + 1, g)
    <3> SUFFICES ASSUME NEW s \in Small(k + 1)
                 PROVE  g[s] = IF s = {} THEN base ELSE step[<<Max(s), g[s \ {Max(s)}]>>]
      OBVIOUS
    <3>1. CASE s \in Small(k)
      <4>1. g[s] = f[s] /\ (s # {} => g[s \ {Max(s)}] = f[s \ {Max(s)}])
        BY <2>3, <3>1
      <4> QED
        BY <2>1, <3>1, <4>1
    <3>2. CASE s \notin Small(k)
      <4>1. g[s \ {Max(s)}] = f[s \ {Max(s)}] /\ s # {}
        BY <2>2, <3>2
      <4>2. g[s] = step[<<Max(s), f[s \ {Max(s)}]>>]
        BY <3>2
      <4> HIDE DEF g
      <4> QED
        BY <4>1, <4>2
    <3> QED
      BY <3>1, <3>2
  <2> HIDE DEF g, Good
  <2> QED
    BY <2>5, <2>6
<1> HIDE DEF K
<1>5. n \in K
  BY <1>3, <1>4, EveryNumber
<1>6. PICK f \in [Small(n) -> X] : Good(n, f)
  BY <1>5 DEF K
<1>7. Small(n) = SUBSET (1..n)
  BY <1>1
<1> HIDE DEF Small
<1> QED
  BY <1>6, <1>7 DEF FoldOver

-----------------------------------------------------------------------------
(* Sequences.                                                              *)

\* Sequences are equal if their elements are.
LEMMA SameSequence ==
  ASSUME NEW T, NEW s \in Seq(T), NEW t \in Seq(T), Len(s) = Len(t),
         \A i \in 1..Len(s) : s[i] = t[i]
  PROVE  s = t
OBVIOUS

\* The beginning of a sequence.
LEMMA SubSequence ==
  ASSUME NEW T, NEW s \in Seq(T), NEW k \in 0..Len(s)
  PROVE  /\ SubSeq(s, 1, k) \in Seq(T)
         /\ Len(SubSeq(s, 1, k)) = k
         /\ \A i \in 1..k : SubSeq(s, 1, k)[i] = s[i]
OBVIOUS

\* A sequence with one more element.
LEMMA Appended ==
  ASSUME NEW T, NEW s \in Seq(T), NEW x \in T
  PROVE  /\ Append(s, x) \in Seq(T)
         /\ Len(Append(s, x)) = Len(s) + 1
         /\ \A i \in 1..(Len(s) + 1) : Append(s, x)[i] = IF i = Len(s) + 1 THEN x ELSE s[i]
OBVIOUS

\* A function on an interval is a sequence.
LEMMA FunctionSequence ==
  ASSUME NEW T, NEW k \in Nat, NEW s \in [1..k -> T]
  PROVE  s \in Seq(T) /\ Len(s) = k
OBVIOUS

\* FlattenSeq is what concatenation of one sequence after the other arrives at.
LEMMA FlattenValue ==
  ASSUME NEW T, NEW c \in Seq(Seq(T)), NEW g \in [0..Len(c) -> Seq(T)],
         g[0] = <<>>, \A k \in 1..Len(c) : g[k] = g[k - 1] \o c[k]
  PROVE  FlattenSeq(c) = g[Len(c)]
<1> DEFINE n == Len(c)
           Rec(f) == [i \in 1..n |-> IF i = 1 THEN c[i] ELSE f[i - 1] \o c[i]]
           flatten == CHOOSE f : f = Rec(f)
<1>1. n \in Nat /\ \A i \in 1..n : c[i] \in Seq(T)
  OBVIOUS
<1>2. CASE n = 0
  <2>1. c = <<>> /\ FlattenSeq(c) = c
    BY <1>2 DEF FlattenSeq
  <2> QED
    BY <1>2, <2>1
<1>3. CASE n # 0
  <2>1. FlattenSeq(c) = flatten[n]
    BY <1>3 DEF FlattenSeq
  <2>2. 1 \in 1..n /\ 1 - 1 = 0
    BY <1>1, <1>3
  <2>3. g[1] = c[1]
    <3>1. c[1] \in Seq(T) /\ g[1] = <<>> \o c[1]
      BY <1>1, <2>2
    <3> QED
      BY <3>1
  <2> DEFINE f == [i \in 1..n |-> g[i]]
  <2>4. \A i \in 1..n : f[i] = IF i = 1 THEN c[i] ELSE f[i - 1] \o c[i]
    <3> SUFFICES ASSUME NEW i \in 1..n PROVE f[i] = IF i = 1 THEN c[i] ELSE f[i - 1] \o c[i]
      OBVIOUS
    <3>1. CASE i = 1
      BY <2>3, <3>1
    <3>2. CASE i # 1
      <4>1. i - 1 \in 1..n /\ f[i] = g[i] /\ f[i - 1] = g[i - 1]
        BY <1>1, <3>2
      <4>2. g[i] = g[i - 1] \o c[i]
        OBVIOUS
      <4> QED
        BY <3>2, <4>1, <4>2
    <3> QED
      BY <3>1, <3>2
  <2>5. f = Rec(f)
    BY <2>4
  <2>6. flatten = Rec(flatten)
    BY <2>5
  <2> HIDE DEF flatten, f
  <2> DEFINE S == {k \in Nat : k + 1 <= n => flatten[k + 1] = g[k + 1]}
  <2>7. 0 \in S
    BY <1>1, <2>2, <2>3, <2>6
  <2>8. ASSUME NEW k \in Nat, k \in S PROVE k + 1 \in S
    <3> SUFFICES ASSUME k + 2 <= n PROVE flatten[k + 2] = g[k + 2]
      OBVIOUS
    <3>1. k + 2 \in 1..n /\ k + 2 # 1 /\ (k + 2) - 1 = k + 1 /\ k + 1 <= n
      BY <1>1
    <3>2. flatten[k + 1] = g[k + 1]
      BY <2>8, <3>1
    <3>3. flatten[k + 2] = flatten[k + 1] \o c[k + 2]
      BY <2>6, <3>1
    <3>4. g[k + 2] = g[k + 1] \o c[k + 2]
      BY <3>1
    <3> QED
      BY <3>2, <3>3, <3>4
  <2> HIDE DEF S
  <2>9. n - 1 \in S /\ (n - 1) + 1 = n
    <3>1. Nat \subseteq S
      BY <2>7, <2>8, EveryNumber
    <3> QED
      BY <1>1, <1>3, <3>1
  <2>10. flatten[n] = g[n]
    BY <1>1, <2>9 DEF S
  <2> QED
    BY <2>1, <2>10
<1> QED
  BY <1>2, <1>3

\* One more sequence is concatenated at the end.
LEMMA FlattenStep ==
  ASSUME NEW T, NEW c \in Seq(Seq(T)), NEW x \in Seq(T)
  PROVE  /\ FlattenSeq(Append(c, x)) = FlattenSeq(c) \o x
         /\ FlattenSeq(c) \in Seq(T)
<1> DEFINE n == Len(c)
           d == Append(c, x)
           step == [ks \in (Nat \ {0}) \X Seq(T) |->
                      IF ks[1] \in 1..(n + 1) THEN ks[2] \o d[ks[1]] ELSE <<>>]
<1>1. n \in Nat /\ <<>> \in Seq(T)
  OBVIOUS
<1>2. d \in Seq(Seq(T)) /\ Len(d) = n + 1 /\ d[n + 1] = x /\ \A i \in 1..n : d[i] = c[i]
  OBVIOUS
<1>3. \A i \in 1..(n + 1) : d[i] \in Seq(T)
  BY <1>2
<1> HIDE DEF d, n
<1>4. step \in [(Nat \ {0}) \X Seq(T) -> Seq(T)]
  <2>1. \A i \in 1..(n + 1), s \in Seq(T) : s \o d[i] \in Seq(T)
    BY <1>3
  <2> QED
    BY <1>1, <2>1
<1>5. \A i \in 1..(n + 1), s \in Seq(T) : step[<<i, s>>] = s \o d[i]
  <2>1. \A i \in 1..(n + 1) : i \in Nat \ {0}
    BY <1>1
  <2> QED
    BY <2>1
<1> HIDE DEF step
<1>6. PICK g \in [0..(n + 1) -> Seq(T)] : ByRecursion(n + 1, <<>>, step, g)
  <2>1. n + 1 \in Nat
    BY <1>1
  <2> QED
    BY <1>1, <1>4, <2>1, Recursion
<1>7. g[0] = <<>> /\ \A k \in 1..(n + 1) : g[k] = g[k - 1] \o d[k]
  <2>1. \A k \in 1..(n + 1) : k - 1 \in 0..(n + 1) /\ g[k - 1] \in Seq(T)
    BY <1>1
  <2> QED
    BY <1>5, <1>6, <2>1 DEF ByRecursion
<1>8. FlattenSeq(d) = g[n + 1]
  BY <1>2, <1>7, FlattenValue
<1> DEFINE h == [k \in 0..n |-> g[k]]
<1>9. h \in [0..n -> Seq(T)] /\ h[0] = <<>> /\ \A k \in 1..n : h[k] = h[k - 1] \o c[k]
  <2>1. \A k \in 0..n : k \in 0..(n + 1) /\ h[k] = g[k]
    BY <1>1
  <2>2. \A k \in 1..n : k \in 1..(n + 1) /\ k \in 0..n /\ k - 1 \in 0..n
    BY <1>1
  <2>3. h[0] = <<>>
    BY <1>1, <1>7
  <2> HIDE DEF h
  <2>4. \A k \in 1..n : h[k] = h[k - 1] \o c[k]
    BY <1>2, <1>7, <2>1, <2>2
  <2>5. h \in [0..n -> Seq(T)]
    BY <2>1 DEF h
  <2> QED
    BY <2>3, <2>4, <2>5
<1>10. FlattenSeq(c) = h[n]
  <2> HIDE DEF h
  <2> QED
    BY <1>9, FlattenValue DEF n
<1>11. h[n] = g[n] /\ g[n] \in Seq(T) /\ g[n + 1] = g[n] \o x
  <2>1. n \in 0..n /\ n \in 0..(n + 1) /\ n + 1 \in 1..(n + 1) /\ (n + 1) - 1 = n
    BY <1>1
  <2> QED
    BY <1>2, <1>7, <2>1
<1> QED
  BY <1>8, <1>10, <1>11 DEF d

ByRecursionOverAll(base, step, f) ==
  /\ f[0] = base
  /\ \A k \in Nat : f[k + 1] = step[<<k + 1, f[k]>>]

\* A function that is defined by recursion over all numbers exists.
LEMMA RecursionOverAll ==
  ASSUME NEW X, NEW base \in X, NEW step \in [(Nat \ {0}) \X X -> X]
  PROVE  \E f \in [Nat -> X] : ByRecursionOverAll(base, step, f)
<1>1. ASSUME NEW n \in Nat, NEW f \in [0..n -> X], ByRecursion(n, base, step, f),
             NEW m \in Nat, NEW g \in [0..m -> X], ByRecursion(m, base, step, g)
      PROVE  \A k \in Nat : k <= n /\ k <= m => f[k] = g[k]
  <2> DEFINE S == {k \in Nat : k <= n /\ k <= m => f[k] = g[k]}
  <2>1. 0 \in S
    BY <1>1 DEF ByRecursion
  <2>2. ASSUME NEW k \in Nat, k \in S PROVE k + 1 \in S
    <3> SUFFICES ASSUME k + 1 <= n, k + 1 <= m PROVE f[k + 1] = g[k + 1]
      OBVIOUS
    <3>1. k + 1 \in 1..n /\ k + 1 \in 1..m /\ (k + 1) - 1 = k
      OBVIOUS
    <3>2. f[k + 1] = step[<<k + 1, f[k]>>] /\ g[k + 1] = step[<<k + 1, g[k]>>]
      BY <1>1, <3>1 DEF ByRecursion
    <3>3. f[k] = g[k]
      BY <2>2
    <3> QED
      BY <3>2, <3>3
  <2> HIDE DEF S
  <2>3. Nat \subseteq S
    BY <2>1, <2>2, EveryNumber
  <2> QED
    BY <2>3 DEF S
<1> DEFINE g(n) == CHOOSE f \in [0..n -> X] : ByRecursion(n, base, step, f)
           F == [n \in Nat |-> g(n)[n]]
<1>2. \A n \in Nat : g(n) \in [0..n -> X] /\ ByRecursion(n, base, step, g(n))
  BY Recursion
<1> HIDE DEF g
<1>3. F \in [Nat -> X]
  <2>1. \A n \in Nat : g(n)[n] \in X
    BY <1>2
  <2> QED
    BY <2>1
<1>4. F[0] = base
  BY <1>2 DEF ByRecursion
<1>5. ASSUME NEW k \in Nat PROVE F[k + 1] = step[<<k + 1, F[k]>>]
  <2>1. k + 1 \in Nat /\ k + 1 \in 1..(k + 1) /\ (k + 1) - 1 = k
    OBVIOUS
  <2>2. g(k + 1)[k + 1] = step[<<k + 1, g(k + 1)[k]>>]
    BY <1>2, <2>1 DEF ByRecursion
  <2>3. g(k + 1)[k] = g(k)[k]
    <3>1. k <= k + 1 /\ k <= k
      OBVIOUS
    <3> QED
      BY <1>1, <1>2, <2>1, <3>1
  <2> QED
    BY <2>1, <2>2, <2>3
<1> HIDE DEF F
<1>6. ByRecursionOverAll(base, step, F)
  BY <1>4, <1>5 DEF ByRecursionOverAll
<1> QED
  BY <1>3, <1>6

\* As many different values as there are places.
LEMMA DifferentValues ==
  ASSUME NEW n \in Nat, NEW f, \A i, j \in 1..n : f[i] = f[j] => i = j
  PROVE  Cardinality({f[i] : i \in 1..n}) = n
<1> DEFINE Values(k) == {f[i] : i \in 1..k}
           S == {k \in Nat : k <= n => IsFiniteSet(Values(k)) /\ Cardinality(Values(k)) = k}
<1>1. 0 \in S
  <2>1. Values(0) = {}
    OBVIOUS
  <2> HIDE DEF Values
  <2> QED
    BY <2>1, FS_EmptySet
<1>2. ASSUME NEW k \in Nat, k \in S PROVE k + 1 \in S
  <2> SUFFICES ASSUME k + 1 <= n
               PROVE  IsFiniteSet(Values(k + 1)) /\ Cardinality(Values(k + 1)) = k + 1
    OBVIOUS
  <2>1. k <= n /\ k + 1 \in 1..n /\ \A i \in 1..k : i \in 1..n /\ i # k + 1
    OBVIOUS
  <2>2. Values(k + 1) = Values(k) \cup {f[k + 1]}
    <3>1. \A i \in 1..(k + 1) : i = k + 1 \/ i \in 1..k
      OBVIOUS
    <3>2. k + 1 \in 1..(k + 1) /\ \A i \in 1..k : i \in 1..(k + 1)
      OBVIOUS
    <3> QED
      BY <3>1, <3>2
  <2>3. f[k + 1] \notin Values(k)
    BY <2>1
  <2>4. IsFiniteSet(Values(k)) /\ Cardinality(Values(k)) = k
    BY <1>2, <2>1
  <2> DEFINE V == Values(k)
             x == f[k + 1]
  <2>5. IsFiniteSet(V) /\ Cardinality(V) = k /\ x \notin V
    BY <2>3, <2>4
  <2> HIDE DEF V, x
  <2>6. IsFiniteSet(V \cup {x}) /\ Cardinality(V \cup {x}) = k + 1
    BY <2>5, FS_AddElement
  <2> QED
    BY <2>2, <2>6 DEF V, x
<1> HIDE DEF S
<1>3. Nat \subseteq S
  BY <1>1, <1>2, EveryNumber
<1>4. n \in Nat /\ n <= n
  OBVIOUS
<1> QED
  BY <1>3, <1>4 DEF S
=============================================================================
