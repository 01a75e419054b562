---------------------------- MODULE DataInduction ----------------------------
(***************************************************************************)
(* Induction over naturals and over the folds of the community modules,    *)
(* stated with sets and functions: a set of naturals stands for the        *)
(* property, a function for the step.                                      *)
(***************************************************************************)
EXTENDS ListLoops, FiniteSetTheorems, WellFoundedInduction, TLAPS

\* Every set of naturals that is not empty has a least element.
LEMMA LeastNatural ==
    ASSUME NEW T \in SUBSET Nat, T # {}
    PROVE  \E x \in T : \A y \in T : x <= y
<1> DEFINE R == OpToRel(<, Nat)
<1>1. IsWellFoundedOn(R, Nat)
  BY NatLessThanWellFounded
<1>2. \E x \in T : \A y \in T : ~(<<y, x>> \in R)
  <2> HIDE DEF R
  <2> QED
    BY <1>1, WFMin
<1>3. \A x, y \in Nat : <<y, x>> \in R <=> y < x
  BY DEF OpToRel
<1> HIDE DEF R
<1>4. PICK x \in T : \A y \in T : ~(<<y, x>> \in R)
  BY <1>2
<1>5. \A y \in T : x <= y
  <2> SUFFICES ASSUME NEW y \in T PROVE x <= y
    OBVIOUS
  <2>1. ~(y < x)
    BY <1>3, <1>4
  <2> QED
    BY <2>1
<1> QED
  BY <1>5

\* Induction up to n, the property given as the set of numbers that have it.
LEMMA InductionUpTo ==
    ASSUME NEW n \in Nat, NEW S, 0 \in S,
           \A m \in 0..(n - 1) : m \in S => m + 1 \in S
    PROVE  \A m \in 0..n : m \in S
<1> DEFINE T == {m \in 0..n : m \notin S}
<1> SUFFICES ASSUME T # {} PROVE FALSE
  OBVIOUS
<1>1. T \in SUBSET Nat
  OBVIOUS
<1>2. PICK x \in T : \A y \in T : x <= y
  <2> HIDE DEF T
  <2> QED
    BY <1>1, LeastNatural
<1>3. x \in 0..n /\ x \notin S /\ x # 0
  OBVIOUS
<1>4. x - 1 \in 0..(n - 1) /\ x - 1 \in 0..n /\ ~(x <= x - 1)
  BY <1>3
<1>5. x - 1 \in S
  BY <1>2, <1>4
<1>6. x - 1 + 1 \in S
  BY <1>4, <1>5
<1>7. x - 1 + 1 = x
  BY <1>3
<1> QED
  BY <1>3, <1>6, <1>7

\* A set of numbers up to n that is not empty has a greatest one.
LEMMA GreatestUpTo ==
    ASSUME NEW n \in Nat, NEW T \in SUBSET (1..n), T # {}
    PROVE  \E x \in T : \A y \in T : y <= x
<1> DEFINE U == {n - y : y \in T}
<1>1. U \in SUBSET Nat /\ U # {}
  <2>1. \A y \in T : n - y \in Nat
    OBVIOUS
  <2> QED
    BY <2>1
<1>2. PICK u \in U : \A v \in U : u <= v
  <2> HIDE DEF U
  <2> QED
    BY <1>1, LeastNatural
<1>3. PICK x \in T : u = n - x
  OBVIOUS
<1>4. \A y \in T : y <= x
  <2> SUFFICES ASSUME NEW y \in T PROVE y <= x
    OBVIOUS
  <2>1. n - x <= n - y
    BY <1>2, <1>3
  <2>2. x \in 1..n /\ y \in 1..n
    OBVIOUS
  <2> QED
    BY <2>1, <2>2
<1> QED
  BY <1>4

Greatest(s) == CHOOSE x \in s : \A y \in s : x >= y

\* The greatest of a set of numbers up to n is one of them.
LEMMA GreatestIsOne ==
    ASSUME NEW n \in Nat, NEW s \in SUBSET (1..n), s # {}
    PROVE  Greatest(s) \in s /\ \A y \in s : y <= Greatest(s)
<1>1. \E x \in s : \A y \in s : x >= y
  <2>1. PICK x \in s : \A y \in s : y <= x
    BY GreatestUpTo
  <2>2. \A y \in s : x >= y
    BY <2>1
  <2> QED
    BY <2>2
<1> QED
  BY <1>1 DEF Greatest

\* The greatest number itself.
LEMMA GreatestOfAll ==
    ASSUME NEW n \in Nat, NEW s \in SUBSET (1..n), NEW m \in s, \A y \in s : y <= m
    PROVE  Greatest(s) = m
<1>1. Greatest(s) \in s /\ m <= Greatest(s) /\ Greatest(s) <= m
  BY GreatestIsOne
<1> DEFINE g == Greatest(s)
<1>2. g \in s /\ m <= g /\ g <= m
  BY <1>1
<1> HIDE DEF g
<1>3. g \in Int /\ m \in Int
  BY <1>2
<1>4. g = m
  BY <1>2, <1>3
<1> QED
  BY <1>4 DEF g

\* The steps of a fold over n elements with accumulators in V.
FoldStepsOn(n, V) == [1..n -> [V -> V]]

\* Folds of the community modules go through the subsets of the numbers up to
\* n, the greatest number of a set last.
FoldsSubsets(f, n, base, G) ==
    \A s \in SUBSET (1..n) :
      f[s] = IF s = {} THEN base ELSE G[Greatest(s)][f[s \ {Greatest(s)}]]

\* Such a function exists.
LEMMA FoldsUpTo ==
    ASSUME NEW n \in Nat, NEW V, NEW base \in V, NEW G \in FoldStepsOn(n, V)
    PROVE  \E f \in [SUBSET (1..n) -> V] : FoldsSubsets(f, n, base, G)
<1> USE DEF FoldStepsOn, FoldsSubsets
<1> DEFINE Fold(m, f) == \A s \in SUBSET (1..m) :
             f[s] = IF s = {} THEN base ELSE G[Greatest(s)][f[s \ {Greatest(s)}]]
           S == {m \in 0..n : \E f \in [SUBSET (1..m) -> V] : Fold(m, f)}
<1>1. 0 \in S
  <2> DEFINE f == [s \in SUBSET (1..0) |-> base]
  <2>1. f \in [SUBSET (1..0) -> V] /\ Fold(0, f)
    OBVIOUS
  <2>2. \E g \in [SUBSET (1..0) -> V] : Fold(0, g)
    <3> HIDE DEF f
    <3> QED
      BY <2>1
  <2>3. 0 \in 0..n
    OBVIOUS
  <2> QED
    BY <2>2, <2>3
<1>2. ASSUME NEW m \in 0..(n - 1), m \in S PROVE m + 1 \in S
  <2>1. PICK f \in [SUBSET (1..m) -> V] : Fold(m, f)
    BY <1>2
  <2> DEFINE h == [s \in SUBSET (1..(m + 1)) |->
                     IF m + 1 \in s THEN G[m + 1][f[s \ {m + 1}]] ELSE f[s]]
  <2>0. m + 1 \in 1..n /\ m \in Nat /\ m + 1 \in Nat
    OBVIOUS
  <2>2. ASSUME NEW s \in SUBSET (1..(m + 1))
        PROVE  /\ h[s] \in V
               /\ h[s] = IF s = {} THEN base ELSE G[Greatest(s)][h[s \ {Greatest(s)}]]
    <3>1. CASE m + 1 \in s
      <4>1. Greatest(s) = m + 1
        <5>1. \A y \in s : y <= m + 1
          BY <2>0
        <5> QED
          BY <2>0, <3>1, <5>1, GreatestOfAll
      <4>2. s \ {m + 1} \in SUBSET (1..m) /\ s \ {m + 1} \in SUBSET (1..(m + 1))
        BY <2>0
      <4>3. /\ h[s \ {m + 1}] = f[s \ {m + 1}] /\ f[s \ {m + 1}] \in V
            /\ h[s] = G[m + 1][f[s \ {m + 1}]]
        BY <3>1, <4>2
      <4>4. h[s] \in V
        BY <2>0, <4>3
      <4> HIDE DEF h
      <4> QED
        BY <3>1, <4>1, <4>3, <4>4
    <3>2. CASE m + 1 \notin s
      <4>1. s \in SUBSET (1..m)
        BY <2>0, <3>2
      <4>2. h[s] = f[s] /\ f[s] \in V
        BY <3>2, <4>1
      <4>3. CASE s = {}
        BY <2>1, <4>1, <4>2, <4>3
      <4>4. CASE s # {}
        <5> DEFINE g == Greatest(s)
        <5>1. g \in s
          BY <2>0, <4>1, <4>4, GreatestIsOne
        <5> HIDE DEF g
        <5>2. s \ {g} \in SUBSET (1..m) /\ s \ {g} \in SUBSET (1..(m + 1)) /\ m + 1 \notin s \ {g}
          BY <2>0, <3>2, <4>1
        <5>3. h[s \ {g}] = f[s \ {g}]
          BY <5>2
        <5>4. f[s] = G[g][f[s \ {g}]]
          BY <2>1, <4>1, <4>4 DEF g
        <5> HIDE DEF h
        <5> QED
          BY <4>2, <4>4, <5>3, <5>4 DEF g
      <4> QED
        BY <4>3, <4>4
    <3> QED
      BY <3>1, <3>2
  <2>3. h \in [SUBSET (1..(m + 1)) -> V] /\ Fold(m + 1, h)
    BY <2>2
  <2> HIDE DEF h, Fold
  <2> QED
    BY <2>0, <2>3
<1> HIDE DEF Fold
<1>3. n \in S
  <2>1. \A m \in 0..(n - 1) : m \in S => m + 1 \in S
    BY <1>2
  <2>2. n \in 0..n
    OBVIOUS
  <2> HIDE DEF S
  <2>3. \A m \in 0..n : m \in S
    BY <1>1, <2>1, InductionUpTo
  <2> QED
    BY <2>2, <2>3
<1> QED
  BY <1>3 DEF Fold

\* The numbers up to k: the greatest of them is k.
LEMMA InitialSegment ==
    ASSUME NEW k \in Nat, k # 0
    PROVE  /\ 1..k \in SUBSET (1..k) /\ 1..k # {}
           /\ Greatest(1..k) = k /\ (1..k) \ {k} = 1..(k - 1)
<1>1. 1..k \in SUBSET (1..k) /\ k \in 1..k /\ \A y \in 1..k : y <= k
  OBVIOUS
<1>2. Greatest(1..k) = k
  BY <1>1, GreatestOfAll
<1>3. (1..k) \ {k} = 1..(k - 1)
  OBVIOUS
<1> QED
  BY <1>1, <1>2, <1>3

\* A function that goes along 1..1, 1..2, ... as a fold does.
FoldsSegments(iter, n, V, base, G) ==
    /\ iter[{}] = base
    /\ \A k \in 1..n : iter[1..(k - 1)] \in V => iter[1..k] = G[k][iter[1..(k - 1)]]

\* What a fold has after its first k elements.
FoldsAlong(f, n, base, G) ==
    f[0] = base /\ \A k \in 1..n : f[k] = G[k][f[k - 1]]

\* The values of a fold one element after the other.
LEMMA FoldSteps ==
    ASSUME NEW n \in Nat, NEW V, NEW base \in V, NEW G \in FoldStepsOn(n, V),
           NEW iter, FoldsSegments(iter, n, V, base, G)
    PROVE  \E f \in [0..n -> V] : FoldsAlong(f, n, base, G) /\ f[n] = iter[1..n]
<1> DEFINE f == [k \in 0..n |-> iter[1..k]]
           D == {k \in 0..n : iter[1..k] \in V}
<1>1. 1..0 = {} /\ 0 \in 0..n /\ n \in 0..n
  OBVIOUS
<1>2. 0 \in D
  BY <1>1 DEF FoldsSegments
<1>3. ASSUME NEW m \in 0..(n - 1), m \in D PROVE m + 1 \in D
  <2>1. m + 1 \in 1..n /\ m + 1 - 1 = m /\ m + 1 \in 0..n
    OBVIOUS
  <2>2. iter[1..m] \in V
    BY <1>3
  <2>3. iter[1..(m + 1)] = G[m + 1][iter[1..m]]
    BY <2>1, <2>2 DEF FoldsSegments
  <2>4. G[m + 1][iter[1..m]] \in V
    BY <2>1, <2>2 DEF FoldStepsOn
  <2> QED
    BY <2>1, <2>3, <2>4
<1>4. \A k \in 0..n : k \in D
  <2>1. \A m \in 0..(n - 1) : m \in D => m + 1 \in D
    BY <1>3
  <2> HIDE DEF D
  <2> QED
    BY <1>2, <2>1, InductionUpTo
<1>5. f \in [0..n -> V]
  BY <1>4
<1>6. f[0] = base /\ f[n] = iter[1..n]
  BY <1>1 DEF FoldsSegments
<1>7. ASSUME NEW k \in 1..n PROVE f[k] = G[k][f[k - 1]]
  <2>1. k \in 0..n /\ k - 1 \in 0..n
    OBVIOUS
  <2>2. f[k] = iter[1..k] /\ f[k - 1] = iter[1..(k - 1)] /\ iter[1..(k - 1)] \in V
    BY <1>4, <2>1
  <2> HIDE DEF f, D
  <2> QED
    BY <2>2 DEF FoldsSegments
<1> HIDE DEF f, D
<1> QED
  BY <1>5, <1>6, <1>7 DEF FoldsAlong

(***************************************************************************)
(* Loops that keep some elements of a list.                                *)
(***************************************************************************)

\* A loop over a list, one element after the other.
SelectsAlong(f, list, kept) ==
    /\ f[0] = <<>> /\ f[Len(list)] = Selected(list, kept)
    /\ \A k \in 1..Len(list) :
         f[k] = IF list[k] \in kept THEN Append(f[k - 1], list[k]) ELSE f[k - 1]

\* The fold is such a loop.
LEMMA SelectedSteps ==
    ASSUME NEW E, NEW list \in Seq(E), NEW kept
    PROVE  \E f \in [0..Len(list) -> Seq(E)] : SelectsAlong(f, list, kept)
<1> DEFINE n == Len(list)
           V == Seq(E)
           base == <<>>
           Rule(f) == f = [s \in SUBSET (DOMAIN list) |-> IF s = {} THEN <<>> ELSE
               IF list[Max(s)] \in kept THEN Append(f[s \ {Max(s)}], list[Max(s)])
               ELSE f[s \ {Max(s)}]]
           iter == CHOOSE f : Rule(f)
           G == [k \in 1..n |-> [acc \in V |->
                   IF list[k] \in kept THEN Append(acc, list[k]) ELSE acc]]
<1>1. n \in Nat /\ DOMAIN list = 1..n /\ \A k \in 1..n : list[k] \in E
  OBVIOUS
<1>2. Selected(list, kept) = iter[DOMAIN list]
  BY DEF Selected, FoldLeft, MapThenFoldSet
<1>3. \A s : Max(s) = Greatest(s)
  BY DEF Max, Greatest
<1>4. ASSUME NEW k \in 1..n, NEW acc \in V
      PROVE  G[k][acc] = IF list[k] \in kept THEN Append(acc, list[k]) ELSE acc
  OBVIOUS
<1>5. n \in Nat /\ base \in V
  BY <1>1
<1>6. \A acc \in V, e \in E : Append(acc, e) \in V
  OBVIOUS
<1>7. G \in FoldStepsOn(n, V)
  <2>1. ASSUME NEW k \in 1..n, NEW acc \in V
        PROVE  (IF list[k] \in kept THEN Append(acc, list[k]) ELSE acc) \in V
    <3>1. list[k] \in E
      BY <1>1
    <3>2. Append(acc, list[k]) \in V
      BY <3>1, <1>6
    <3> HIDE DEF G, V
    <3> QED
      BY <3>2
  <2> HIDE DEF V
  <2> QED
    BY <2>1 DEF FoldStepsOn
<1> HIDE DEF G, Rule, n, V, base, iter
<1>8. PICK h \in [SUBSET (1..n) -> V] : FoldsSubsets(h, n, base, G)
  BY <1>7, <1>5, FoldsUpTo
<1>9. \A s \in SUBSET (1..n) :
        h[s] = IF s = {} THEN base ELSE G[Greatest(s)][h[s \ {Greatest(s)}]]
  BY <1>8 DEF FoldsSubsets
<1>10. Rule(h)
  <2> SUFFICES ASSUME NEW s \in SUBSET (1..n)
               PROVE  h[s] = IF s = {} THEN base ELSE
                        IF list[Max(s)] \in kept THEN Append(h[s \ {Max(s)}], list[Max(s)])
                        ELSE h[s \ {Max(s)}]
    BY <1>1 DEF Rule, base
  <2>1. CASE s = {}
    BY <1>9, <2>1
  <2>2. CASE s # {}
    <3> DEFINE g == Greatest(s)
    <3>1. g \in s
      BY <1>1, <2>2, GreatestIsOne
    <3>2. h[s] = G[g][h[s \ {g}]] /\ Max(s) = g
      BY <1>3, <1>9, <2>2
    <3> HIDE DEF g
    <3>3. g \in 1..n /\ h[s \ {g}] \in V
      BY <3>1
    <3> QED
      BY <1>4, <2>2, <3>2, <3>3
  <2> QED
    BY <2>1, <2>2
<1>11. Rule(iter)
  BY <1>10 DEF iter
<1>12. \A s \in SUBSET (1..n) : iter[s] = IF s = {} THEN base ELSE
               IF list[Max(s)] \in kept THEN Append(iter[s \ {Max(s)}], list[Max(s)])
               ELSE iter[s \ {Max(s)}]
  BY <1>1, <1>11 DEF Rule, base
<1>13. iter[{}] = base
  BY <1>12
<1>14. ASSUME NEW k \in 1..n, iter[1..(k - 1)] \in V
       PROVE  iter[1..k] = G[k][iter[1..(k - 1)]]
  <2>1. k \in Nat /\ k # 0 /\ 1..k \in SUBSET (1..n)
    BY <1>1
  <2>2. Max(1..k) = k /\ 1..k # {} /\ (1..k) \ {k} = 1..(k - 1)
    BY <1>3, <2>1, InitialSegment
  <2> QED
    BY <1>4, <1>12, <1>14, <2>1, <2>2
<1>15. FoldsSegments(iter, n, V, base, G)
  BY <1>13, <1>14 DEF FoldsSegments
<1>16. \E f \in [0..n -> V] : FoldsAlong(f, n, base, G) /\ f[n] = iter[1..n]
  BY <1>7, <1>5, <1>15, FoldSteps
<1>17. PICK f \in [0..n -> V] : /\ f[0] = base /\ f[n] = iter[1..n]
                                     /\ \A k \in 1..n : f[k] = G[k][f[k - 1]]
  BY <1>16 DEF FoldsAlong
<1>18. ASSUME NEW k \in 1..n
       PROVE  f[k] = IF list[k] \in kept THEN Append(f[k - 1], list[k]) ELSE f[k - 1]
  <2>1. k - 1 \in 0..n
    BY <1>1
  <2> QED
    BY <1>4, <1>17, <2>1
<1> QED
  BY <1>1, <1>2, <1>17, <1>18 DEF n, V, base, SelectsAlong

\* What an appended element adds to a list.
LEMMA RangeOfAppend ==
    ASSUME NEW E, NEW s \in Seq(E), NEW e \in E
    PROVE  Range(Append(s, e)) = Range(s) \cup {e} /\ Len(Append(s, e)) = Len(s) + 1
<1> DEFINE t == Append(s, e)
<1>1. Len(t) = Len(s) + 1 /\ Len(s) \in Nat /\ t[Len(s) + 1] = e
  OBVIOUS
<1>2. \A i \in 1..Len(s) : t[i] = s[i]
  OBVIOUS
<1>3. DOMAIN t = 1..(Len(s) + 1) /\ DOMAIN s = 1..Len(s)
  OBVIOUS
<1> HIDE DEF t
<1>4. ASSUME NEW x \in Range(t) PROVE x \in Range(s) \cup {e}
  <2>1. PICK i \in 1..(Len(s) + 1) : x = t[i]
    BY <1>3 DEF Range
  <2>2. i \in 1..Len(s) \/ i = Len(s) + 1
    BY <1>1
  <2> QED
    BY <1>1, <1>2, <1>3, <2>1, <2>2 DEF Range
<1>5. ASSUME NEW x \in Range(s) \cup {e} PROVE x \in Range(t)
  <2>1. CASE x = e
    <3>1. Len(s) + 1 \in DOMAIN t
      BY <1>1, <1>3
    <3> QED
      BY <1>1, <2>1, <3>1 DEF Range
  <2>2. CASE x \in Range(s)
    <3>1. PICK i \in 1..Len(s) : x = s[i]
      BY <1>3, <2>2 DEF Range
    <3>2. i \in DOMAIN t
      BY <1>1, <1>3
    <3> QED
      BY <1>2, <3>1, <3>2 DEF Range
  <2> QED
    BY <2>1, <2>2
<1>6. Range(t) = Range(s) \cup {e}
  BY <1>4, <1>5
<1> QED
  BY <1>1, <1>6 DEF t

\* A loop keeps exactly the elements of the list that are in the set.
LEMMA SelectionKeeps ==
    ASSUME NEW E, NEW list \in Seq(E), NEW kept
    PROVE  /\ Selected(list, kept) \in Seq(E)
           /\ Range(Selected(list, kept)) = Range(list) \cap kept
<1> DEFINE n == Len(list)
<1>1. n \in Nat /\ DOMAIN list = 1..n /\ n \in 0..n /\ \A k \in 1..n : list[k] \in E
  OBVIOUS
<1>2a. PICK f \in [0..n -> Seq(E)] : SelectsAlong(f, list, kept)
  BY SelectedSteps
<1>2. /\ f[0] = <<>> /\ f[n] = Selected(list, kept)
      /\ \A k \in 1..n :
           f[k] = IF list[k] \in kept THEN Append(f[k - 1], list[k]) ELSE f[k - 1]
  BY <1>2a DEF SelectsAlong
<1> DEFINE Upto(k) == {x \in kept : \E i \in 1..k : x = list[i]}
           D == {k \in 0..n : Range(f[k]) = Upto(k)}
<1> HIDE DEF n
<1>3. 0 \in D
  <2>1. Range(<<>>) = {}
    BY DEF Range
  <2>2. Upto(0) = {}
    OBVIOUS
  <2> QED
    BY <1>1, <1>2, <2>1, <2>2
<1>4. ASSUME NEW m \in 0..(n - 1), m \in D PROVE m + 1 \in D
  <2>1. m + 1 \in 1..n /\ m + 1 \in 0..n /\ m + 1 - 1 = m /\ m \in 0..n
    BY <1>1
  <2>2. \A i : i \in 1..(m + 1) <=> i \in 1..m \/ i = m + 1
    BY <2>1
  <2>3. f[m] \in Seq(E) /\ list[m + 1] \in E /\ Range(f[m]) = Upto(m)
    BY <1>1, <1>4, <2>1
  <2>4. f[m + 1] = IF list[m + 1] \in kept THEN Append(f[m], list[m + 1]) ELSE f[m]
    BY <1>2, <2>1
  <2>5. Range(f[m + 1]) = Upto(m) \cup {x \in kept : x = list[m + 1]}
    <3>1. CASE list[m + 1] \in kept
      BY <2>3, <2>4, <3>1, RangeOfAppend
    <3>2. CASE list[m + 1] \notin kept
      BY <2>3, <2>4, <3>2
    <3> QED
      BY <3>1, <3>2
  <2>6. Upto(m + 1) = Upto(m) \cup {x \in kept : x = list[m + 1]}
    BY <2>2
  <2> QED
    BY <2>1, <2>5, <2>6
<1>5. n \in D
  <2>1. \A m \in 0..(n - 1) : m \in D => m + 1 \in D
    BY <1>4
  <2> HIDE DEF D
  <2>2. \A m \in 0..n : m \in D
    BY <1>1, <1>3, <2>1, InductionUpTo
  <2> QED
    BY <1>1, <2>2
<1>6. Range(list) \cap kept = Upto(n)
  BY <1>1 DEF Range
<1> QED
  BY <1>1, <1>2, <1>5, <1>6

\* Two loops that share the elements of a list between them lose none and take
\* none twice.
LEMMA SelectionsPart ==
    ASSUME NEW E, NEW list \in Seq(E), NEW kept, NEW other,
           \A e \in Range(list) : e \in kept <=> e \notin other
    PROVE  /\ Len(Selected(list, kept)) + Len(Selected(list, other)) = Len(list)
           /\ Range(Selected(list, kept)) \cup Range(Selected(list, other)) = Range(list)
<1> DEFINE n == Len(list)
<1>1. n \in Nat /\ DOMAIN list = 1..n /\ n \in 0..n /\ \A k \in 1..n : list[k] \in E
  OBVIOUS
<1>2a. PICK f \in [0..n -> Seq(E)] : SelectsAlong(f, list, kept)
  BY SelectedSteps
<1>2. /\ f[0] = <<>> /\ f[n] = Selected(list, kept)
      /\ \A k \in 1..n :
           f[k] = IF list[k] \in kept THEN Append(f[k - 1], list[k]) ELSE f[k - 1]
  BY <1>2a DEF SelectsAlong
<1>3a. PICK g \in [0..n -> Seq(E)] : SelectsAlong(g, list, other)
  BY SelectedSteps
<1>3. /\ g[0] = <<>> /\ g[n] = Selected(list, other)
      /\ \A k \in 1..n :
           g[k] = IF list[k] \in other THEN Append(g[k - 1], list[k]) ELSE g[k - 1]
  BY <1>3a DEF SelectsAlong
<1> DEFINE D == {k \in 0..n : Len(f[k]) + Len(g[k]) = k}
<1> HIDE DEF n
<1>4. 0 \in D
  <2>1. Len(<<>>) = 0 /\ 0 \in 0..n
    BY <1>1
  <2> QED
    BY <1>2, <1>3, <2>1
<1>5. ASSUME NEW m \in 0..(n - 1), m \in D PROVE m + 1 \in D
  <2>1. m + 1 \in 1..n /\ m + 1 \in 0..n /\ m + 1 - 1 = m /\ m \in 0..n
    BY <1>1
  <2>2. /\ f[m] \in Seq(E) /\ g[m] \in Seq(E) /\ list[m + 1] \in E
        /\ Len(f[m]) + Len(g[m]) = m
    BY <1>1, <1>5, <2>1
  <2>3. list[m + 1] \in kept <=> list[m + 1] \notin other
    BY <1>1, <2>1 DEF Range
  <2>4. /\ f[m + 1] = IF list[m + 1] \in kept THEN Append(f[m], list[m + 1]) ELSE f[m]
        /\ g[m + 1] = IF list[m + 1] \in other THEN Append(g[m], list[m + 1]) ELSE g[m]
    BY <1>2, <1>3, <2>1
  <2>5. /\ Len(Append(f[m], list[m + 1])) = Len(f[m]) + 1
        /\ Len(Append(g[m], list[m + 1])) = Len(g[m]) + 1
        /\ Len(f[m]) \in Nat /\ Len(g[m]) \in Nat
    BY <2>2, RangeOfAppend
  <2>6. Len(f[m + 1]) + Len(g[m + 1]) = m + 1
    <3> DEFINE F == Len(f[m]) G == Len(g[m])
    <3>1. F \in Nat /\ G \in Nat /\ F + G = m
      BY <2>2, <2>5
    <3>2. \/ Len(f[m + 1]) = F + 1 /\ Len(g[m + 1]) = G
          \/ Len(f[m + 1]) = F /\ Len(g[m + 1]) = G + 1
      BY <2>3, <2>4, <2>5
    <3> HIDE DEF F, G
    <3> QED
      BY <3>1, <3>2
  <2> QED
    BY <2>1, <2>6
<1>6. n \in D
  <2>1. \A m \in 0..(n - 1) : m \in D => m + 1 \in D
    BY <1>5
  <2> HIDE DEF D
  <2>2. \A m \in 0..n : m \in D
    BY <1>1, <1>4, <2>1, InductionUpTo
  <2> QED
    BY <1>1, <2>2
<1>7. /\ Range(Selected(list, kept)) = Range(list) \cap kept
      /\ Range(Selected(list, other)) = Range(list) \cap other
  BY SelectionKeeps
<1>8. Range(Selected(list, kept)) \cup Range(Selected(list, other)) = Range(list)
  BY <1>7
<1> QED
  BY <1>2, <1>3, <1>6, <1>8 DEF n

\* The elements of two lists put one after the other.
LEMMA RangeOfConcat ==
    ASSUME NEW E, NEW s \in Seq(E), NEW t \in Seq(E)
    PROVE  /\ s \o t \in Seq(E) /\ Len(s \o t) = Len(s) + Len(t)
           /\ Range(s \o t) = Range(s) \cup Range(t)
<1> DEFINE u == s \o t
<1>1. /\ u \in Seq(E) /\ Len(u) = Len(s) + Len(t) /\ Len(s) \in Nat /\ Len(t) \in Nat
      /\ \A i \in 1..Len(s) : u[i] = s[i]
      /\ \A i \in 1..Len(t) : u[Len(s) + i] = t[i]
  OBVIOUS
<1>2. DOMAIN u = 1..(Len(s) + Len(t)) /\ DOMAIN s = 1..Len(s) /\ DOMAIN t = 1..Len(t)
  BY <1>1
<1> HIDE DEF u
<1>3. ASSUME NEW x \in Range(u) PROVE x \in Range(s) \cup Range(t)
  <2>1. PICK i \in 1..(Len(s) + Len(t)) : x = u[i]
    BY <1>2 DEF Range
  <2>2. CASE i \in 1..Len(s)
    BY <1>1, <1>2, <2>1, <2>2 DEF Range
  <2>3. CASE i \notin 1..Len(s)
    <3>1. i - Len(s) \in 1..Len(t) /\ Len(s) + (i - Len(s)) = i
      BY <1>1, <2>3
    <3> QED
      BY <1>1, <1>2, <2>1, <3>1 DEF Range
  <2> QED
    BY <2>2, <2>3
<1>4. ASSUME NEW x \in Range(s) PROVE x \in Range(u)
  <2>1. PICK i \in 1..Len(s) : x = s[i]
    BY <1>2 DEF Range
  <2>2. i \in DOMAIN u /\ u[i] = x
    BY <1>1, <1>2, <2>1
  <2> QED
    BY <2>2 DEF Range
<1>5. ASSUME NEW x \in Range(t) PROVE x \in Range(u)
  <2>1. PICK i \in 1..Len(t) : x = t[i]
    BY <1>2 DEF Range
  <2>2. Len(s) + i \in DOMAIN u /\ u[Len(s) + i] = x
    BY <1>1, <1>2, <2>1
  <2> QED
    BY <2>2 DEF Range
<1>6. Range(u) = Range(s) \cup Range(t)
  BY <1>3, <1>4, <1>5
<1> QED
  BY <1>1, <1>6 DEF u

\* Appending to two lists appends to the second.
AppendsLast(p, q, e) == Append(p \o q, e) = p \o Append(q, e)

\* Appending commutes with putting a list in front.
LEMMA AppendGoesLast ==
    ASSUME NEW E, NEW p \in Seq(E), NEW q \in Seq(E), NEW e \in E
    PROVE  AppendsLast(p, q, e)
BY DEF AppendsLast

\* A list turned over has the same elements.
LEMMA RangeOfReverse ==
    ASSUME NEW E, NEW s \in Seq(E)
    PROVE  /\ Reverse(s) \in Seq(E) /\ Len(Reverse(s)) = Len(s)
           /\ Range(Reverse(s)) = Range(s)
<1> DEFINE n == Len(s)
           r == [i \in 1..n |-> s[(n - i) + 1]]
<1>1. n \in Nat /\ DOMAIN s = 1..n /\ \A i \in 1..n : s[i] \in E
  OBVIOUS
<1>2. \A i \in 1..n : (n - i) + 1 \in 1..n /\ (n - ((n - i) + 1)) + 1 = i
  BY <1>1
<1>3. r \in [1..n -> E]
  <2> HIDE DEF n
  <2> QED
    BY <1>1, <1>2
<1>4. r \in Seq(E) /\ Len(r) = n /\ DOMAIN r = 1..n
  BY <1>1, <1>3
<1>5. Reverse(s) = r
  BY DEF Reverse
<1>6. \A i \in 1..n : r[i] = s[(n - i) + 1]
  OBVIOUS
<1> HIDE DEF n, r
<1>7. ASSUME NEW x \in Range(s) PROVE x \in Range(r)
  <2>1. PICK i \in 1..n : x = s[i]
    BY <1>1, <1>7 DEF Range
  <2>2. (n - i) + 1 \in 1..n /\ r[(n - i) + 1] = x
    BY <1>2, <1>6, <2>1
  <2> QED
    BY <1>4, <2>2 DEF Range
<1>8. ASSUME NEW x \in Range(r) PROVE x \in Range(s)
  <2>1. PICK i \in 1..n : x = r[i]
    BY <1>4, <1>8 DEF Range
  <2>2. (n - i) + 1 \in 1..n /\ s[(n - i) + 1] = x
    BY <1>2, <1>6, <2>1
  <2> QED
    BY <1>1, <2>2 DEF Range
<1>9. Range(r) = Range(s)
  BY <1>7, <1>8
<1> QED
  BY <1>4, <1>5, <1>9 DEF n

\* A loop that keeps everything.
LEMMA SelectedAll ==
    ASSUME NEW E, NEW list \in Seq(E), NEW kept, Range(list) \subseteq kept
    PROVE  Selected(list, kept) = list
<1> DEFINE n == Len(list)
<1>1. /\ n \in Nat /\ DOMAIN list = 1..n /\ n \in 0..n
      /\ \A k \in 1..n : list[k] \in E
  OBVIOUS
<1>2. PICK f \in [0..n -> Seq(E)] : SelectsAlong(f, list, kept)
  BY SelectedSteps
<1>3. /\ f[0] = <<>> /\ f[n] = Selected(list, kept)
      /\ \A k \in 1..n :
           f[k] = IF list[k] \in kept THEN Append(f[k - 1], list[k]) ELSE f[k - 1]
  BY <1>2 DEF SelectsAlong
<1> DEFINE D == {k \in 0..n : Len(f[k]) = k /\ \A i \in 1..k : f[k][i] = list[i]}
<1> HIDE DEF n
<1>4. 0 \in D
  <2>1. Len(<<>>) = 0 /\ 0 \in 0..n
    BY <1>1
  <2> QED
    BY <1>3, <2>1
<1>5. ASSUME NEW m \in 0..(n - 1), m \in D PROVE m + 1 \in D
  <2>1. m + 1 \in 1..n /\ m + 1 \in 0..n /\ m + 1 - 1 = m /\ m \in 0..n
    BY <1>1
  <2>2. list[m + 1] \in kept /\ list[m + 1] \in E
    BY <1>1, <2>1 DEF Range
  <2>3. f[m + 1] = Append(f[m], list[m + 1])
    <3> DEFINE k == m + 1
    <3>1. k \in 1..n /\ k - 1 = m
      BY <2>1
    <3> HIDE DEF k
    <3>2. f[k] = IF list[k] \in kept THEN Append(f[k - 1], list[k]) ELSE f[k - 1]
      BY <1>3, <3>1
    <3>3. f[k] = Append(f[m], list[k])
      BY <2>2, <3>1, <3>2 DEF k
    <3> QED
      BY <3>3 DEF k
  <2>4. f[m] \in Seq(E) /\ Len(f[m]) = m /\ \A i \in 1..m : f[m][i] = list[i]
    BY <1>5, <2>1
  <2> DEFINE p == f[m] q == f[m + 1] e == list[m + 1]
  <2>5. p \in Seq(E) /\ Len(p) = m /\ q = Append(p, e) /\ m \in Nat
    BY <2>1, <2>3, <2>4
  <2> HIDE DEF p, q, e
  <2>6. Len(q) = m + 1 /\ q[m + 1] = e /\ \A i \in 1..m : q[i] = p[i]
    BY <2>5
  <2>7. \A i \in 1..(m + 1) : i \in 1..m \/ i = m + 1
    BY <2>5
  <2>8. \A i \in 1..(m + 1) : q[i] = list[i]
    BY <2>4, <2>6, <2>7 DEF p, e
  <2> QED
    BY <2>1, <2>6, <2>8 DEF q
<1>6. n \in D
  <2>1. \A m \in 0..(n - 1) : m \in D => m + 1 \in D
    BY <1>5
  <2> HIDE DEF D
  <2>2. \A m \in 0..n : m \in D
    BY <1>1, <1>4, <2>1, InductionUpTo
  <2> QED
    BY <1>1, <2>2
<1> DEFINE q == f[n]
<1>7. q \in Seq(E) /\ Len(q) = n /\ \A i \in 1..n : q[i] = list[i]
  BY <1>1, <1>6
<1> HIDE DEF q
<1>8. Len(list) = n
  BY DEF n
<1>9. q = list
  BY <1>7, <1>8
<1> QED
  BY <1>3, <1>9 DEF q

\* A loop that keeps nothing.
LEMMA SelectedNone ==
    ASSUME NEW E, NEW list \in Seq(E), NEW kept, \A e \in Range(list) : e \notin kept
    PROVE  Selected(list, kept) = <<>>
<1> DEFINE q == Selected(list, kept)
<1>1. q \in Seq(E) /\ Range(q) = {}
  <2>1. q \in Seq(E) /\ Range(q) = Range(list) \cap kept
    BY SelectionKeeps
  <2> QED
    BY <2>1
<1> HIDE DEF q
<1>2. Len(q) = 0
  <2> SUFFICES ASSUME Len(q) # 0 PROVE FALSE
    OBVIOUS
  <2>1. 1 \in DOMAIN q
    BY <1>1
  <2> QED
    BY <1>1, <2>1 DEF Range
<1>3. q = <<>>
  BY <1>1, <1>2
<1> QED
  BY <1>3 DEF q

\* A loop over two lists one after the other.
LEMMA SelectedConcat ==
    ASSUME NEW E, NEW s \in Seq(E), NEW t \in Seq(E), NEW kept
    PROVE  Selected(s \o t, kept) = Selected(s, kept) \o Selected(t, kept)
<1> DEFINE u == s \o t  m == Len(s)  n == Len(t)
<1>1. /\ u \in Seq(E) /\ Len(u) = m + n /\ m \in Nat /\ n \in Nat /\ m \in 0..m /\ n \in 0..n
      /\ \A i \in 1..m : u[i] = s[i]
      /\ \A i \in 1..n : u[m + i] = t[i]
  OBVIOUS
<1>2. (\A i \in 1..m : s[i] \in E) /\ (\A i \in 1..n : t[i] \in E)
  OBVIOUS
<1> HIDE DEF u
<1>3. PICK h \in [0..Len(u) -> Seq(E)] : SelectsAlong(h, u, kept)
  BY <1>1, SelectedSteps
<1>4. PICK f \in [0..m -> Seq(E)] : SelectsAlong(f, s, kept)
  BY SelectedSteps
<1>5. PICK g \in [0..n -> Seq(E)] : SelectsAlong(g, t, kept)
  BY SelectedSteps
<1>6. /\ h[0] = <<>> /\ h[m + n] = Selected(u, kept)
      /\ \A k \in 1..(m + n) :
           h[k] = IF u[k] \in kept THEN Append(h[k - 1], u[k]) ELSE h[k - 1]
  BY <1>1, <1>3 DEF SelectsAlong
<1>7. /\ f[0] = <<>> /\ f[m] = Selected(s, kept)
      /\ \A k \in 1..m :
           f[k] = IF s[k] \in kept THEN Append(f[k - 1], s[k]) ELSE f[k - 1]
  BY <1>4 DEF SelectsAlong
<1>8. /\ g[0] = <<>> /\ g[n] = Selected(t, kept)
      /\ \A k \in 1..n :
           g[k] = IF t[k] \in kept THEN Append(g[k - 1], t[k]) ELSE g[k - 1]
  BY <1>5 DEF SelectsAlong
<1> HIDE DEF m, n
<1>9. h[m] = f[m]
  <2> DEFINE D == {k \in 0..m : h[k] = f[k]}
  <2>1. 0 \in D
    BY <1>1, <1>6, <1>7
  <2>2. ASSUME NEW k \in 0..(m - 1), k \in D PROVE k + 1 \in D
    <3> DEFINE j == k + 1
    <3>1. j \in 1..m /\ j \in 1..(m + n) /\ j - 1 = k /\ j \in 0..m
      BY <1>1
    <3>2. h[k] = f[k]
      BY <2>2
    <3> HIDE DEF j, D
    <3>3. /\ h[j] = IF u[j] \in kept THEN Append(h[k], u[j]) ELSE h[k]
          /\ f[j] = IF s[j] \in kept THEN Append(f[k], s[j]) ELSE f[k]
      BY <1>6, <1>7, <3>1
    <3>4. u[j] = s[j]
      BY <1>1, <3>1
    <3>5. h[j] = f[j]
      BY <3>2, <3>3, <3>4
    <3> QED
      BY <3>1, <3>5 DEF j, D
  <2>3. \A k \in 0..(m - 1) : k \in D => k + 1 \in D
    BY <2>2
  <2> HIDE DEF D
  <2>4. \A k \in 0..m : k \in D
    BY <1>1, <2>1, <2>3, InductionUpTo
  <2> QED
    BY <1>1, <2>4 DEF D
<1>10. h[m + n] = f[m] \o g[n]
  <2> DEFINE D == {k \in 0..n : h[m + k] = f[m] \o g[k]}
             p == f[m]
  <2>1. p \in Seq(E)
    BY <1>1, <1>4
  <2>2. 0 \in D
    <3>1. p \o <<>> = p /\ m + 0 = m /\ 0 \in 0..n
      BY <1>1, <2>1
    <3> QED
      BY <1>8, <1>9, <3>1
  <2> HIDE DEF p
  <2>3. ASSUME NEW k \in 0..(n - 1), h[m + k] = p \o g[k]
        PROVE  h[m + (k + 1)] = p \o g[k + 1]
    <3>1. /\ k + 1 \in 1..n /\ m + (k + 1) \in 1..(m + n) /\ m + (k + 1) - 1 = m + k
          /\ k + 1 - 1 = k /\ k \in 0..n
      BY <1>1
    <3> DEFINE e == t[k + 1] q == g[k]
    <3>2. /\ h[m + (k + 1)] = IF e \in kept THEN Append(p \o q, e) ELSE p \o q
          /\ g[k + 1] = IF e \in kept THEN Append(q, e) ELSE q
      <4>1. h[m + (k + 1)] = IF u[m + (k + 1)] \in kept
                             THEN Append(h[m + k], u[m + (k + 1)]) ELSE h[m + k]
        <5> DEFINE j == m + (k + 1) i == m + k
        <5>1. j \in 1..(m + n) /\ j - 1 = i
          BY <1>1
        <5> HIDE DEF i, j
        <5>2. h[j] = IF u[j] \in kept THEN Append(h[i], u[j]) ELSE h[i]
          BY <1>6, <5>1
        <5> QED
          BY <5>2 DEF i, j
      <4>2. u[m + (k + 1)] = e
        BY <1>1, <3>1
      <4>3. g[k + 1] = IF e \in kept THEN Append(q, e) ELSE q
        BY <1>8, <3>1
      <4> HIDE DEF e
      <4> QED
        BY <2>3, <4>1, <4>2, <4>3
    <3>3. q \in Seq(E) /\ e \in E
      BY <1>2, <1>5, <3>1
    <3> HIDE DEF e, q
    <3>4. AppendsLast(p, q, e)
      BY <2>1, <3>3, AppendGoesLast
    <3> QED
      BY <3>2, <3>4 DEF AppendsLast
  <2>4. \A k \in 0..(n - 1) : k \in D => k + 1 \in D
    <3> SUFFICES ASSUME NEW k \in 0..(n - 1), k \in D PROVE k + 1 \in D
      OBVIOUS
    <3>1. k + 1 \in 0..n
      BY <1>1
    <3> QED
      BY <2>3, <3>1 DEF p
  <2> HIDE DEF D
  <2>5. \A k \in 0..n : k \in D
    BY <1>1, <2>2, <2>4, InductionUpTo
  <2> QED
    BY <1>1, <2>5 DEF D
<1> QED
  BY <1>6, <1>7, <1>8, <1>10 DEF u

\* A relation that puts the elements of a set in an order.
Orders(before, set) ==
    /\ \A x \in set : <<x, x>> \notin before
    /\ \A x, y \in set : x # y => <<x, y>> \in before \/ <<y, x>> \in before
    /\ \A x, y, z \in set : <<x, y>> \in before /\ <<y, z>> \in before => <<x, z>> \in before

\* The sorted list of a set of numbers has exactly its elements: std::sort
\* returns for every order.
LEMMA SortedHasTheElements ==
    ASSUME NEW n \in Nat, NEW set \in SUBSET (1..n), NEW before, Orders(before, set)
    PROVE  SortedBy(set, before) \in Seq(set)
<1> DEFINE earlier(x) == {y \in set : <<y, x>> \in before}
           c == Cardinality(set)
           size(x) == Cardinality(earlier(x))
           rank == [x \in set |-> size(x) + 1]
<1>1. IsFiniteSet(set) /\ c \in Nat
  <2>1. IsFiniteSet(1..n)
    BY FS_Interval
  <2>2. IsFiniteSet(set)
    BY <2>1, FS_Subset
  <2> QED
    BY <2>2, FS_CardinalityType
<1>2. ASSUME NEW x \in set PROVE IsFiniteSet(earlier(x)) /\ size(x) \in Nat /\ size(x) + 1 \in 1..c
  <2> DEFINE T == earlier(x)
  <2>1. T \in SUBSET set /\ x \notin T
    BY DEF Orders
  <2> HIDE DEF T
  <2>2. IsFiniteSet(T) /\ Cardinality(T) <= c /\ T # set
    BY <1>1, <2>1, FS_Subset
  <2>3. Cardinality(T) # c /\ Cardinality(T) \in Nat
    BY <1>1, <2>1, <2>2, FS_Subset, FS_CardinalityType
  <2> DEFINE k == Cardinality(T)
  <2>4. k \in Nat /\ k <= c /\ k # c
    BY <2>2, <2>3
  <2> HIDE DEF k
  <2>5. k + 1 \in 1..c
    BY <1>1, <2>4
  <2> QED
    BY <2>2, <2>3, <2>5 DEF T, k
<1>3. ASSUME NEW x \in set, NEW y \in set, <<x, y>> \in before PROVE size(x) < size(y)
  <2> DEFINE S == earlier(x)  T == earlier(y)
  <2>1. S \in SUBSET T /\ S # T
    <3>1. \A z \in S : z \in T
      BY <1>3 DEF Orders
    <3>2. x \in T /\ x \notin S
      BY <1>3 DEF Orders
    <3> HIDE DEF S, T
    <3> QED
      BY <3>1, <3>2
  <2>2. IsFiniteSet(T) /\ IsFiniteSet(S) /\ size(x) \in Nat /\ size(y) \in Nat
    BY <1>2
  <2> HIDE DEF S, T
  <2>3. Cardinality(S) <= Cardinality(T) /\ Cardinality(S) # Cardinality(T)
    BY <2>1, <2>2, FS_Subset
  <2> QED
    BY <2>2, <2>3 DEF S, T
<1> HIDE DEF c, size
<1>4. rank \in [set -> 1..c] /\ \A x \in set : rank[x] = size(x) + 1
  BY <1>2
<1> HIDE DEF rank
<1>5. ASSUME NEW x \in set, NEW y \in set, <<x, y>> \in before PROVE rank[x] < rank[y]
  <2>1. size(x) < size(y) /\ size(x) \in Nat /\ size(y) \in Nat
    BY <1>2, <1>3, <1>5
  <2>2. rank[x] = size(x) + 1 /\ rank[y] = size(y) + 1
    BY <1>4
  <2> DEFINE p == size(x) q == size(y)
  <2>3. p < q /\ p \in Nat /\ q \in Nat /\ rank[x] = p + 1 /\ rank[y] = q + 1
    BY <2>1, <2>2
  <2> HIDE DEF p, q
  <2> QED
    BY <2>3
<1>6. \A x, y \in set : rank[x] = rank[y] => x = y
  <2> SUFFICES ASSUME NEW x \in set, NEW y \in set, rank[x] = rank[y], x # y PROVE FALSE
    OBVIOUS
  <2>1. rank[x] \in Int /\ rank[y] \in Int
    BY <1>4
  <2>2. rank[x] < rank[y] \/ rank[y] < rank[x]
    BY <1>5 DEF Orders
  <2> QED
    BY <2>1, <2>2
<1>7. rank \in Surjection(set, 1..c)
  <2>1. rank \in Injection(set, 1..c)
    BY <1>4, <1>6 DEF Injection, IsInjective
  <2>2. IsFiniteSet(1..c) /\ Cardinality(1..c) = c
    BY <1>1, FS_Interval
  <2>3. Cardinality(set) = Cardinality(1..c)
    BY <2>2 DEF c
  <2> QED
    BY <2>1, <2>2, <2>3, FS_Injection
<1>8. \A k \in 1..c : \E x \in set : rank[x] = k
  BY <1>7 DEF Surjection
<1> DEFINE list == [k \in 1..c |-> CHOOSE x \in set : rank[x] = k]
<1>9. list \in [1..c -> set] /\ \A k \in 1..c : rank[list[k]] = k
  BY <1>8
<1> HIDE DEF list
<1>10. \A i, j \in DOMAIN list : i < j => <<list[i], list[j]>> \in before
  <2> SUFFICES ASSUME NEW i \in 1..c, NEW j \in 1..c, i < j PROVE <<list[i], list[j]>> \in before
    BY <1>9
  <2>1. rank[list[i]] = i /\ rank[list[j]] = j /\ list[i] \in set /\ list[j] \in set
    BY <1>9
  <2>2. ~(j < i) /\ i # j
    BY <1>1
  <2>3. list[i] # list[j]
    BY <2>1, <2>2
  <2>4. ~(<<list[j], list[i]>> \in before)
    BY <1>5, <2>1, <2>2
  <2> QED
    BY <2>1, <2>3, <2>4 DEF Orders
<1>11. SortedBy(set, before) \in [1..c -> set]
  BY <1>9, <1>10 DEF SortedBy, c
<1> QED
  BY <1>1, <1>11

\* What a fold has after each of its elements, whatever defines it.
LEMMA FoldExists ==
    ASSUME NEW n \in Nat, NEW V, NEW base \in V, NEW G \in FoldStepsOn(n, V)
    PROVE  \E f \in [0..n -> V] : FoldsAlong(f, n, base, G)
<1>1. PICK iter \in [SUBSET (1..n) -> V] : FoldsSubsets(iter, n, base, G)
  BY FoldsUpTo
<1>2. iter[{}] = base
  BY <1>1 DEF FoldsSubsets
<1>3. ASSUME NEW k \in 1..n PROVE iter[1..k] = G[k][iter[1..(k - 1)]]
  <2>1. k \in Nat /\ k # 0 /\ 1..k \in SUBSET (1..n)
    OBVIOUS
  <2>2. 1..k # {} /\ Greatest(1..k) = k /\ (1..k) \ {k} = 1..(k - 1)
    BY <2>1, InitialSegment
  <2> DEFINE s == 1..k
  <2>3. iter[s] = IF s = {} THEN base ELSE G[Greatest(s)][iter[s \ {Greatest(s)}]]
    BY <1>1, <2>1 DEF FoldsSubsets
  <2> QED
    BY ONLY <2>2, <2>3
<1>4. FoldsSegments(iter, n, V, base, G)
  BY <1>2, <1>3 DEF FoldsSegments
<1> QED
  BY <1>4, FoldSteps
=============================================================================
