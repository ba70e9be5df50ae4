------------------------------- MODULE Iteration -------------------------------
(***************************************************************************)
(* Lemmas shared by the proofs: least and greatest elements, induction     *)
(* over the initial part of the naturals as a fact about a set, and the    *)
(* values of a recursion.  A step is a function here, for the provers take *)
(* no operator as a parameter; FoldLeft of SequencesExt recurs over the    *)
(* subsets of a sequence's domain by their greatest element, which is what *)
(* FoldExists and FoldRuns are about.                                      *)
(***************************************************************************)
EXTENDS Selection, FiniteSetTheorems, SequenceTheorems, WellFoundedInduction, TLAPS

\* A set of naturals that is not empty has a least element: the order is
\* well-founded.
LEMMA LeastOf ==
    ASSUME NEW S \in SUBSET Nat, S # {}
    PROVE  \E m \in S : \A n \in S : m <= n
<1> DEFINE R == OpToRel(<, Nat)
<1>1. IsWellFoundedOn(R, Nat)
  BY NatLessThanWellFounded
<1>2. \A m, n \in Nat : n < m => <<n, m>> \in R
  BY DEF OpToRel
<1> HIDE DEF R
<1>3. PICK m \in S : \A n \in S : <<n, m>> \notin R
  BY <1>1, WFMin
<1>4. \A n \in S : n \in Nat /\ m \in Nat /\ ~(n < m)
  BY <1>2, <1>3
<1> QED BY <1>4

\* A set of positions that is not empty has a greatest one.
LEMMA GreatestOf ==
    ASSUME NEW n \in Nat, NEW S \in SUBSET (1 .. n), S # {}
    PROVE  \E m \in S : \A k \in S : m >= k
<1> DEFINE B == {b \in Nat : \A k \in S : b >= k}
<1>1. n \in B
  OBVIOUS
<1>2. PICK b \in B : \A c \in B : b <= c
  BY <1>1, LeastOf
<1>3. b \in S
  <2> SUFFICES ASSUME b \notin S PROVE FALSE
    OBVIOUS
  <2>1. PICK k \in S : TRUE
    OBVIOUS
  <2>2. b >= 1 /\ \A j \in S : b - 1 >= j
    BY <2>1
  <2>3. b - 1 \in B
    BY <2>2
  <2> QED BY <1>2, <2>3
<1> QED BY <1>3

\* Induction up to n: a set with 0 and, with any number below n, the next one.
LEMMA UpTo ==
    ASSUME NEW n \in Nat, NEW S, 0 \in S, \A k \in 1 .. n : k - 1 \in S => k \in S
    PROVE  \A k \in 0 .. n : k \in S
<1> DEFINE Missing == {k \in 0 .. n : k \notin S}
<1> SUFFICES ASSUME Missing # {} PROVE FALSE
  OBVIOUS
<1>1. PICK m \in Missing : \A k \in Missing : m <= k
  <2>1. Missing \in SUBSET Nat
    OBVIOUS
  <2> HIDE DEF Missing
  <2> QED BY <2>1, LeastOf
<1>2. m \in 1 .. n /\ m - 1 \in 0 .. n /\ m - 1 \notin Missing
  BY <1>1
<1>3. m - 1 \in S
  BY <1>2
<1> QED BY <1>1, <1>2, <1>3

\* The steps of a recursion over 1 .. n, on values of D, and its values.
StepsOn(n, D) == [1 .. n -> [D -> D]]
RunOf(f, n, D, base, step) ==
    f \in [0 .. n -> D] /\ f[0] = base /\ \A i \in 1 .. n : f[i] = step[i][f[i - 1]]

\* A recursion has values.
LEMMA RecursionExists ==
    ASSUME NEW n \in Nat, NEW D, NEW base \in D, NEW step \in StepsOn(n, D)
    PROVE  \E f : RunOf(f, n, D, base, step)
<1> USE DEF StepsOn
<1> DEFINE Runs(k, f) == f[0] = base /\ \A i \in 1 .. k : f[i] = step[i][f[i - 1]]
           S == {k \in 0 .. n : \E f \in [0 .. k -> D] : Runs(k, f)}
<1>1. 0 \in S
  <2> DEFINE f == [i \in 0 .. 0 |-> base]
  <2>1. f \in [0 .. 0 -> D]
    OBVIOUS
  <2>2. f[0] = base
    OBVIOUS
  <2>3. \A i \in 1 .. 0 : FALSE
    OBVIOUS
  <2>4. Runs(0, f)
    BY <2>2, <2>3
  <2>5. \E e \in [0 .. 0 -> D] : Runs(0, e)
    BY <2>1, <2>4
  <2>6. 0 \in 0 .. n
    OBVIOUS
  <2> QED BY <2>5, <2>6
<1>2. ASSUME NEW k \in 1 .. n, k - 1 \in S PROVE k \in S
  <2>1. PICK f \in [0 .. k - 1 -> D] : Runs(k - 1, f)
    BY <1>2
  <2> DEFINE g == [i \in 0 .. k |-> IF i = k THEN step[k][f[k - 1]] ELSE f[i]]
  <2>2. f[k - 1] \in D /\ step[k] \in [D -> D]
    BY <2>1
  <2>3. g \in [0 .. k -> D]
    BY <2>1, <2>2
  <2>4. g[0] = base
    <3>1. 0 \in 0 .. k /\ 0 # k
      OBVIOUS
    <3> QED BY <2>1, <3>1
  <2>5. ASSUME NEW i \in 1 .. k - 1 PROVE g[i] = f[i] /\ g[i - 1] = f[i - 1]
    <3>1. i \in 0 .. k /\ i - 1 \in 0 .. k /\ i # k /\ i - 1 # k
      OBVIOUS
    <3> QED BY <3>1
  <2>6. g[k] = step[k][g[k - 1]]
    <3>1. k \in 0 .. k /\ k - 1 \in 0 .. k /\ k - 1 # k
      OBVIOUS
    <3> QED BY <3>1
  <2>7. ASSUME NEW i \in 1 .. k PROVE g[i] = step[i][g[i - 1]]
    <3>1. CASE i = k
      BY <2>6, <3>1
    <3>2. CASE i # k
      <4>1. i \in 1 .. k - 1
        BY <3>2
      <4>2. f[i] = step[i][f[i - 1]]
        BY <2>1, <4>1
      <4> HIDE DEF g
      <4> QED BY <2>5, <4>1, <4>2
    <3> QED BY <3>1, <3>2
  <2>8. \A i \in 1 .. k : g[i] = step[i][g[i - 1]]
    BY <2>7
  <2> HIDE DEF g
  <2>9. Runs(k, g)
    BY <2>4, <2>8
  <2> HIDE DEF Runs
  <2>10. \E e \in [0 .. k -> D] : Runs(k, e)
    BY <2>3, <2>9
  <2>11. k \in 0 .. n
    OBVIOUS
  <2> QED BY <2>10, <2>11
<1> HIDE DEF S, Runs
<1>3. \A k \in 0 .. n : k \in S
  BY <1>1, <1>2, UpTo
<1>4. n \in S
  BY <1>3
<1> QED BY <1>4 DEF S, Runs, RunOf

\* A recursion over the subsets of 1 .. n that takes out the greatest element.
FoldOf(g, n, D, base, step) ==
    /\ g \in [SUBSET (1 .. n) -> D]
    /\ g[{}] = base
    /\ \A s \in SUBSET (1 .. n) : \A m \in s :
         (\A k \in s : m >= k) => g[s] = step[m][g[s \ {m}]]

\* The same, as far as its values are known to be in D.
FoldsOn(g, n, D, base, step) ==
    /\ g[{}] = base
    /\ \A s \in SUBSET (1 .. n) : \A m \in s :
         ((\A k \in s : m >= k) /\ g[s \ {m}] \in D) => g[s] = step[m][g[s \ {m}]]

\* It has values.
LEMMA FoldExists ==
    ASSUME NEW n \in Nat, NEW D, NEW base \in D, NEW step \in StepsOn(n, D)
    PROVE  \E g : FoldOf(g, n, D, base, step)
<1> USE DEF StepsOn
<1> DEFINE P == SUBSET (1 .. n)
           E == [P -> D]
           base2 == [s \in P |-> base]
           step2 == [k \in 1 .. n |-> [h \in E |-> [s \in P |-> IF k \in s THEN step[k][h[s]] ELSE h[s]]]]
<1>1. base2 \in E
  OBVIOUS
<1>2. step2 \in [1 .. n -> [E -> E]]
  <2>1. ASSUME NEW k \in 1 .. n, NEW h \in E
        PROVE  [s \in P |-> IF k \in s THEN step[k][h[s]] ELSE h[s]] \in E
    <3>1. step[k] \in [D -> D]
      OBVIOUS
    <3>2. \A s \in P : h[s] \in D /\ step[k][h[s]] \in D
      BY <3>1
    <3> HIDE DEF P
    <3> QED BY <3>2
  <2> HIDE DEF P, E
  <2> QED BY <2>1
<1> HIDE DEF P
<1>3. PICK h : RunOf(h, n, E, base2, step2)
  <2>1. step2 \in StepsOn(n, E)
    BY <1>2
  <2> HIDE DEF StepsOn, E, base2, step2
  <2> QED BY <1>1, <2>1, RecursionExists
<1> USE <1>3 DEF RunOf
<1>4. \A k \in 1 .. n, s \in P :
        h[k][s] = IF k \in s THEN step[k][h[k - 1][s]] ELSE h[k - 1][s]
  <2> SUFFICES ASSUME NEW k \in 1 .. n, NEW s \in P
               PROVE  h[k][s] = IF k \in s THEN step[k][h[k - 1][s]] ELSE h[k - 1][s]
    OBVIOUS
  <2>1. h[k - 1] \in E
    BY <1>3
  <2>2. h[k] = [t \in P |-> IF k \in t THEN step[k][h[k - 1][t]] ELSE h[k - 1][t]]
    BY <1>3, <2>1
  <2> QED BY <2>2
<1>5. \A s \in P : h[0][s] = base
  BY <1>3
<1>6. {} \in P
  BY DEF P
\* What is not above k does not depend on what is.
<1>7. \A k \in 0 .. n : \A s, t \in P :
        (\A x \in 1 .. k : x \in s <=> x \in t) => h[k][s] = h[k][t]
  <2> DEFINE S == {k \in 0 .. n : \A s, t \in P :
                     (\A x \in 1 .. k : x \in s <=> x \in t) => h[k][s] = h[k][t]}
  <2>1. 0 \in S
    BY <1>5
  <2>2. ASSUME NEW k \in 1 .. n, k - 1 \in S PROVE k \in S
    <3> SUFFICES ASSUME NEW s \in P, NEW t \in P, \A x \in 1 .. k : x \in s <=> x \in t
                 PROVE  h[k][s] = h[k][t]
      OBVIOUS
    <3>1. h[k - 1][s] = h[k - 1][t]
      BY <2>2
    <3>2. k \in s <=> k \in t
      OBVIOUS
    <3> QED BY <1>4, <3>1, <3>2
  <2> HIDE DEF S
  <2>3. \A k \in 0 .. n : k \in S
    BY <2>1, <2>2, UpTo
  <2> QED BY <2>3 DEF S
<1>8. ASSUME NEW j \in 0 .. n, NEW s \in P, \A x \in s : x <= j
      PROVE  h[n][s] = h[j][s]
  <2> DEFINE S == {k \in 0 .. n : k >= j => h[k][s] = h[j][s]}
  <2>1. 0 \in S
    OBVIOUS
  <2>2. ASSUME NEW k \in 1 .. n, k - 1 \in S PROVE k \in S
    <3>1. CASE k <= j
      BY <3>1
    <3>2. CASE k > j
      <4>1. k \notin s /\ h[k - 1][s] = h[j][s]
        BY <1>8, <2>2, <3>2
      <4>2. h[k][s] = h[k - 1][s]
        BY <1>4, <4>1
      <4> QED BY <4>1, <4>2
    <3> QED BY <3>1, <3>2
  <2> HIDE DEF S
  <2>3. \A k \in 0 .. n : k \in S
    BY <2>1, <2>2, UpTo
  <2>4. n \in S
    BY <2>3
  <2> QED BY <2>4 DEF S
<1>9. h[n] \in [P -> D]
  BY <1>3
<1>10. h[n][{}] = base
  <2>1. h[n][{}] = h[0][{}]
    BY <1>6, <1>8
  <2> QED BY <1>5, <1>6, <2>1
<1>11. ASSUME NEW s \in P, NEW m \in s, \A k \in s : m >= k
       PROVE  h[n][s] = step[m][h[n][s \ {m}]]
  <2>1. m \in 1 .. n /\ s \ {m} \in P /\ m - 1 \in 0 .. n
    BY DEF P
  <2>2. \A x \in s : x \in 1 .. n
    BY DEF P
  <2>3. h[n][s] = h[m][s]
    <3>1. m \in 0 .. n /\ \A x \in s : x <= m
      BY <1>11, <2>1, <2>2
    <3> HIDE DEF E, P
    <3> QED BY <1>8, <3>1
  <2>4. h[m][s] = step[m][h[m - 1][s]]
    BY <1>4, <2>1
  <2>5. h[m - 1][s] = h[m - 1][s \ {m}]
    <3>1. \A x \in 1 .. m - 1 : x \in s <=> x \in s \ {m}
      BY <2>1
    <3> HIDE DEF E, P
    <3> QED BY <1>7, <2>1, <3>1
  <2>6. h[n][s \ {m}] = h[m - 1][s \ {m}]
    <3>1. \A x \in s \ {m} : x <= m - 1
      BY <1>11, <2>1, <2>2
    <3> HIDE DEF E
    <3> QED BY <1>8, <2>1, <3>1
  <2> QED BY <2>3, <2>4, <2>5, <2>6
<1> DEFINE g == h[n]
<1>12. g \in [SUBSET (1 .. n) -> D]
  BY <1>9 DEF P
<1>13. g[{}] = base
  BY <1>10
<1>14. \A s \in SUBSET (1 .. n) : \A m \in s :
         (\A k \in s : m >= k) => g[s] = step[m][g[s \ {m}]]
  BY <1>11 DEF P
<1> HIDE DEF g, E, P, StepsOn
<1>15. FoldOf(g, n, D, base, step)
  BY <1>12, <1>13, <1>14 DEF FoldOf
<1> HIDE DEF FoldOf
<1> QED BY <1>15

\* The value of such a fold is the last of a recursion over the positions.
LEMMA FoldRuns ==
    ASSUME NEW n \in Nat, NEW D, NEW base \in D, NEW step \in StepsOn(n, D),
           NEW iter, FoldsOn(iter, n, D, base, step)
    PROVE  \E f : RunOf(f, n, D, base, step) /\ f[n] = iter[1 .. n]
<1> USE DEF StepsOn, FoldsOn
<1> DEFINE f == [i \in 0 .. n |-> iter[1 .. i]]
           S == {k \in 0 .. n : iter[1 .. k] \in D /\ (k # 0 => iter[1 .. k] = step[k][iter[1 .. k - 1]])}
<1>1. 0 \in S
  <2>1. 1 .. 0 = {}
    OBVIOUS
  <2> QED BY <2>1
<1>2. ASSUME NEW k \in 1 .. n, k - 1 \in S PROVE k \in S
  <2>1. (1 .. k) \ {k} = 1 .. k - 1 /\ 1 .. k \in SUBSET (1 .. n) /\ k \in 1 .. k
    OBVIOUS
  <2>2. iter[1 .. k - 1] \in D
    BY <1>2
  <2>3. \A j \in 1 .. k : k >= j
    OBVIOUS
  <2>4. iter[1 .. k] = step[k][iter[1 .. k - 1]]
    BY <2>1, <2>2, <2>3
  <2> QED BY <2>2, <2>4
<1> HIDE DEF S
<1>3. \A k \in 0 .. n : k \in S
  BY <1>1, <1>2, UpTo
<1>4. f \in [0 .. n -> D] /\ \A i \in 1 .. n : f[i] = step[i][f[i - 1]]
  BY <1>3 DEF S
<1>5. f[0] = base /\ f[n] = iter[1 .. n]
  <2>1. 1 .. 0 = {}
    OBVIOUS
  <2> QED BY <2>1
<1>6. RunOf(f, n, D, base, step)
  BY <1>4, <1>5 DEF RunOf
<1> HIDE DEF f, RunOf, FoldsOn, StepsOn
<1> QED BY <1>5, <1>6

-----------------------------------------------------------------------------
(* The same over the subsets of a finite set, an element picked from each. *)

Picks(pick, X) == \A S \in SUBSET X : S # {} => pick[S] \in S

\* Induction over the subsets of a finite set: a collection with the empty one
\* and, with a subset less what is picked from it, the subset.
LEMMA OverSubsets ==
    ASSUME NEW X, IsFiniteSet(X), NEW pick, Picks(pick, X), NEW G, {} \in G,
           \A S \in SUBSET X : S # {} /\ S \ {pick[S]} \in G => S \in G
    PROVE  SUBSET X \subseteq G
<1> DEFINE n == Cardinality(X)
           K == {k \in 0 .. n : \A S \in SUBSET X : Cardinality(S) = k => S \in G}
<1>1. n \in Nat /\ \A S \in SUBSET X : IsFiniteSet(S) /\ Cardinality(S) \in 0 .. n
  <2>1. n \in Nat
    BY FS_CardinalityType
  <2>2. ASSUME NEW S \in SUBSET X PROVE IsFiniteSet(S) /\ Cardinality(S) \in 0 .. n
    <3>1. IsFiniteSet(S) /\ Cardinality(S) <= Cardinality(X)
      BY FS_Subset
    <3>2. Cardinality(S) \in Nat
      BY <3>1, FS_CardinalityType
    <3> QED BY <2>1, <3>1, <3>2
  <2> QED BY <2>1, <2>2
<1> HIDE DEF n
<1>2. 0 \in K
  <2>1. \A S \in SUBSET X : Cardinality(S) = 0 => S = {}
    BY <1>1, FS_EmptySet
  <2>2. 0 \in 0 .. n
    BY <1>1
  <2> QED BY <2>1, <2>2
<1>3. ASSUME NEW k \in 1 .. n, k - 1 \in K PROVE k \in K
  <2> SUFFICES ASSUME NEW S \in SUBSET X, Cardinality(S) = k PROVE S \in G
    BY <1>1
  <2>1. IsFiniteSet(S) /\ S # {}
    BY <1>1, FS_EmptySet
  <2>2. pick[S] \in S
    BY <2>1 DEF Picks
  <2>3. Cardinality(S \ {pick[S]}) = k - 1
    BY <2>1, <2>2, FS_RemoveElement
  <2>4. S \ {pick[S]} \in G
    BY <1>3, <2>3
  <2> QED BY <2>1, <2>4
<1> HIDE DEF K
<1>4. \A k \in 0 .. n : k \in K
  BY <1>1, <1>2, <1>3, UpTo
<1> QED BY <1>1, <1>4 DEF K

\* The same when every smaller subset may be needed.
LEMMA OverSmaller ==
    ASSUME NEW X, IsFiniteSet(X), NEW G,
           \A S \in SUBSET X : (\A x \in S : S \ {x} \in G) => S \in G
    PROVE  SUBSET X \subseteq G
<1> DEFINE n == Cardinality(X)
           K == {k \in 0 .. n : \A S \in SUBSET X : Cardinality(S) = k => S \in G}
<1>1. n \in Nat
  BY FS_CardinalityType
<1>2. ASSUME NEW S \in SUBSET X
      PROVE  /\ Cardinality(S) \in 0 .. n /\ (Cardinality(S) = 0 => S = {})
             /\ \A x \in S : S \ {x} \in SUBSET X /\ Cardinality(S \ {x}) = Cardinality(S) - 1
  <2>1. IsFiniteSet(S) /\ Cardinality(S) <= n
    BY FS_Subset
  <2>2. \A x \in S : Cardinality(S \ {x}) = Cardinality(S) - 1
    BY <2>1, FS_RemoveElement
  <2>3. Cardinality(S) \in Nat /\ (Cardinality(S) = 0 => S = {})
    BY <2>1, FS_CardinalityType, FS_EmptySet
  <2> QED BY <1>1, <2>1, <2>2, <2>3
<1> HIDE DEF n
<1>3. 0 \in K
  BY <1>1, <1>2
<1>4. ASSUME NEW k \in 1 .. n, k - 1 \in K PROVE k \in K
  BY <1>1, <1>2, <1>4
<1> HIDE DEF K
<1>5. \A k \in 0 .. n : k \in K
  BY <1>1, <1>3, <1>4, UpTo
<1> QED BY <1>2, <1>5 DEF K

\* A fold over a finite set, in the order of the picks.
SetFoldOf(g, X, D, base, step, pick) ==
    /\ g \in [SUBSET X -> D]
    /\ g[{}] = base
    /\ \A S \in SUBSET X : S # {} => g[S] = step[pick[S]][g[S \ {pick[S]}]]

\* It has values.
LEMMA SetFoldExists ==
    ASSUME NEW X, IsFiniteSet(X), NEW pick, Picks(pick, X),
           NEW D, NEW base \in D, NEW step \in [X -> [D -> D]]
    PROVE  \E g : SetFoldOf(g, X, D, base, step, pick)
<1> DEFINE n == Cardinality(X)
           Sized(k) == {S \in SUBSET X : Cardinality(S) <= k}
           Folds(g, k) == /\ g \in [Sized(k) -> D] /\ g[{}] = base
                          /\ \A S \in Sized(k) :
                               S # {} => g[S] = step[pick[S]][g[S \ {pick[S]}]]
           K == {k \in 0 .. n : \E g : Folds(g, k)}
<1>1. n \in Nat
  BY FS_CardinalityType
<1>2. \A S \in SUBSET X : IsFiniteSet(S) /\ Cardinality(S) \in Nat /\ Cardinality(S) <= n
  <2>1. ASSUME NEW S \in SUBSET X
        PROVE  IsFiniteSet(S) /\ Cardinality(S) \in Nat /\ Cardinality(S) <= n
    <3>1. IsFiniteSet(S) /\ Cardinality(S) <= Cardinality(X)
      BY FS_Subset
    <3> QED BY <3>1, FS_CardinalityType
  <2> QED BY <2>1
<1> HIDE DEF n
<1>3. {} \in SUBSET X /\ Cardinality({}) = 0
  BY FS_EmptySet
\* What is picked from a set leaves a smaller one.
<1>4. ASSUME NEW k \in 0 .. n, NEW S \in Sized(k), S # {}
      PROVE  /\ pick[S] \in X /\ S \ {pick[S]} \in SUBSET X
             /\ Cardinality(S \ {pick[S]}) = Cardinality(S) - 1
             /\ Cardinality(S) # 0
  <2>1. S \in SUBSET X /\ pick[S] \in S /\ IsFiniteSet(S)
    BY <1>2, <1>4 DEF Picks
  <2>2. Cardinality(S \ {pick[S]}) = Cardinality(S) - 1
    BY <2>1, FS_RemoveElement
  <2> QED BY <1>4, <2>1, <2>2, FS_EmptySet
<1>5. 0 \in K
  <2> DEFINE g == [S \in Sized(0) |-> base]
  <2>1. g \in [Sized(0) -> D] /\ g[{}] = base
    BY <1>3
  <2>2. \A S \in Sized(0) : S = {}
    BY <1>1, <1>2, FS_EmptySet
  <2> HIDE DEF g, Sized
  <2>3. Folds(g, 0)
    BY <2>1, <2>2
  <2> HIDE DEF Folds
  <2> QED BY <1>1, <2>3
<1>6. ASSUME NEW k \in 1 .. n, k - 1 \in K PROVE k \in K
  <2>1. PICK g : Folds(g, k - 1)
    BY <1>6
  <2>2. k \in 0 .. n /\ k - 1 \in 0 .. n
    BY <1>1
  <2> DEFINE Next(S) == step[pick[S]][g[S \ {pick[S]}]]
             h == [S \in Sized(k) |-> IF S \in Sized(k - 1) THEN g[S] ELSE Next(S)]
  <2>3. ASSUME NEW S \in Sized(k), S # {} PROVE S \ {pick[S]} \in Sized(k - 1) /\ pick[S] \in X
    <3>1. Cardinality(S) \in Nat /\ Cardinality(S) <= k
      BY <1>2
    <3>2. /\ pick[S] \in X /\ S \ {pick[S]} \in SUBSET X
          /\ Cardinality(S \ {pick[S]}) = Cardinality(S) - 1
      BY <1>4, <2>2, <2>3
    <3> QED BY <3>1, <3>2
  <2>4. {} \in Sized(k - 1) /\ {} \in Sized(k) /\ Sized(k - 1) \subseteq Sized(k)
    <3>1. \A S \in SUBSET X : Cardinality(S) <= k - 1 => Cardinality(S) <= k
      BY <1>2
    <3>2. Cardinality({}) <= k - 1 /\ Cardinality({}) <= k
      BY <1>3
    <3> QED BY <1>3, <3>1, <3>2
  <2> HIDE DEF Sized
  <2>5. ASSUME NEW S \in Sized(k), S # {} PROVE Next(S) \in D
    <3>1. g[S \ {pick[S]}] \in D /\ step[pick[S]] \in [D -> D]
      BY <2>1, <2>3, <2>5
    <3> QED BY <3>1
  <2>6. h \in [Sized(k) -> D] /\ h[{}] = base
    <3> HIDE DEF Next
    <3> QED BY <2>1, <2>4, <2>5
  <2>7. \A S \in Sized(k - 1) : h[S] = g[S]
    BY <2>4
  <2>8. ASSUME NEW S \in Sized(k), S # {} PROVE h[S] = step[pick[S]][h[S \ {pick[S]}]]
    <3>1. h[S] = Next(S)
      <4>1. CASE S \in Sized(k - 1)
        BY <2>1, <2>7, <2>8, <4>1
      <4>2. CASE S \notin Sized(k - 1)
        BY <4>2
      <4> QED BY <4>1, <4>2
    <3>2. h[S \ {pick[S]}] = g[S \ {pick[S]}]
      BY <2>3, <2>7, <2>8
    <3> HIDE DEF h
    <3> QED BY <3>1, <3>2
  <2> HIDE DEF h
  <2>9. Folds(h, k)
    BY <2>6, <2>8
  <2> HIDE DEF Folds
  <2> QED BY <2>2, <2>9
<1> HIDE DEF K
<1>7. \A k \in 0 .. n : k \in K
  BY <1>1, <1>5, <1>6, UpTo
<1>8. PICK g : Folds(g, n)
  <2> HIDE DEF Folds
  <2>1. n \in K
    BY <1>1, <1>7
  <2> QED BY <2>1 DEF K
<1>9. Sized(n) = SUBSET X
  BY <1>2
<1> HIDE DEF Sized
<1>10. SetFoldOf(g, X, D, base, step, pick)
  BY <1>8, <1>9 DEF SetFoldOf
<1> QED BY <1>10

-----------------------------------------------------------------------------
(* Selections in order. *)

\* In a finite set whose members' predecessors form a chain, every rank is
\* some member's.
LEMMA EveryRankIsTaken ==
    ASSUME NEW K, IsFiniteSet(K), NEW upto \in [K -> SUBSET K],
           \A p \in K : p \in upto[p],
           \A p, q \in K : p # q => /\ upto[p] # upto[q]
                                    /\ upto[p] \subseteq upto[q] \/ upto[q] \subseteq upto[p],
           NEW n \in 1 .. Cardinality(K)
    PROVE  \E p \in K : Cardinality(upto[p]) = n
<1> DEFINE N == Cardinality(K)
           ranks == [p \in K |-> Cardinality(upto[p])]
<1>1. N \in Nat
  BY FS_CardinalityType
<1>2. ASSUME NEW p \in K
      PROVE  IsFiniteSet(upto[p]) /\ Cardinality(upto[p]) \in 1 .. N
  <2>1. IsFiniteSet(upto[p]) /\ Cardinality(upto[p]) <= N
    BY FS_Subset
  <2>2. Cardinality(upto[p]) \in Nat /\ Cardinality(upto[p]) # 0
    BY <2>1, FS_CardinalityType, FS_EmptySet
  <2> QED BY <1>1, <2>1, <2>2
<1>3. ASSUME NEW p \in K, NEW q \in K, p # q, Cardinality(upto[p]) = Cardinality(upto[q])
      PROVE  FALSE
  <2>1. CASE upto[p] \subseteq upto[q]
    BY <1>2, <1>3, <2>1, FS_Subset
  <2>2. CASE upto[q] \subseteq upto[p]
    BY <1>2, <1>3, <2>2, FS_Subset
  <2> QED BY <1>3, <2>1, <2>2
<1>4. IsFiniteSet(1 .. N) /\ Cardinality(1 .. N) = N
  BY <1>1, FS_Interval
<1>5. ranks \in Injection(K, 1 .. N)
  BY <1>2, <1>3 DEF Injection, IsInjective
<1>6. ranks \in Surjection(K, 1 .. N)
  <2> HIDE DEF ranks
  <2> QED BY <1>4, <1>5, FS_Injection
<1> QED BY <1>6 DEF Surjection

\* Each member once, none before those ahead of it.
Lists(L, S, upto) ==
    /\ L \in Seq(S) /\ Len(L) = Cardinality(S)
    /\ \A i \in S : \E n \in DOMAIN L : L[n] = i
    /\ \A m, n \in DOMAIN L : m < n => L[m] # L[n] /\ L[m] \in upto[L[n]]
    /\ \A m, n \in DOMAIN L : L[m] = L[n] => m = n

\* Such a set is listed rank by rank.
LEMMA RankedLists ==
    ASSUME NEW S, IsFiniteSet(S), NEW upto \in [S -> SUBSET S],
           \A i \in S : i \in upto[i],
           \A i, j \in S : i # j => /\ upto[i] # upto[j]
                                    /\ upto[i] \subseteq upto[j] \/ upto[j] \subseteq upto[i]
    PROVE  Lists(Ranked(S, upto), S, upto)
<1> DEFINE N == Cardinality(S)
           L == Ranked(S, upto)
<1>1. N \in Nat
  BY FS_CardinalityType
<1>2. \A n \in 1 .. N : \E i \in S : Cardinality(upto[i]) = n
  BY EveryRankIsTaken, Zenon
<1>3. \A i \in S : IsFiniteSet(upto[i]) /\ Cardinality(upto[i]) \in 1 .. N
  <2> SUFFICES ASSUME NEW i \in S PROVE IsFiniteSet(upto[i]) /\ Cardinality(upto[i]) \in 1 .. N
    OBVIOUS
  <2>1. IsFiniteSet(upto[i]) /\ Cardinality(upto[i]) <= N
    BY FS_Subset
  <2>2. Cardinality(upto[i]) \in Nat /\ Cardinality(upto[i]) # 0
    BY <2>1, FS_CardinalityType, FS_EmptySet
  <2> QED BY <1>1, <2>1, <2>2
<1>4. ASSUME NEW i \in S, NEW j \in S, i # j, upto[i] \subseteq upto[j]
      PROVE  Cardinality(upto[i]) < Cardinality(upto[j])
  <2>1. Cardinality(upto[i]) <= Cardinality(upto[j]) /\ Cardinality(upto[i]) # Cardinality(upto[j])
    BY <1>3, <1>4, FS_Subset
  <2> QED BY <1>1, <1>3, <2>1
<1>5. DOMAIN L = 1 .. N
  BY DEF Ranked
<1>6. \A n \in 1 .. N : L[n] \in S /\ Cardinality(upto[L[n]]) = n
  <2> SUFFICES ASSUME NEW n \in 1 .. N PROVE L[n] \in S /\ Cardinality(upto[L[n]]) = n
    OBVIOUS
  <2>1. L[n] = CHOOSE i \in S : Cardinality(upto[i]) = n
    BY DEF Ranked
  <2> QED BY <1>2, <2>1, Zenon
<1>7. L \in Seq(S) /\ Len(L) = N
  <2>1. \E f : L = [n \in 1 .. N |-> f[n]]
    <3> DEFINE e(n) == CHOOSE i \in S : Cardinality(upto[i]) = n
               f == [n \in 1 .. N |-> e(n)]
    <3>1. L = f
      BY DEF Ranked
    <3> HIDE DEF e
    <3>2. f = [n \in 1 .. N |-> f[n]]
      OBVIOUS
    <3> QED BY <3>1, <3>2, Zenon
  <2> HIDE DEF L, N
  <2>2. L \in [1 .. N -> S]
    BY <1>6, <2>1
  <2>3. L \in Seq(S)
    BY <1>1, <2>2
  <2> QED BY <1>1, <1>5, <2>3, LenProperties
<1> HIDE DEF L
<1>8. \A m, n \in DOMAIN L : L[m] = L[n] => m = n
  BY <1>5, <1>6
<1>9. ASSUME NEW i \in S PROVE \E n \in DOMAIN L : L[n] = i
  <2> DEFINE n == Cardinality(upto[i])
             k == L[n]
  <2>1. n \in 1 .. N /\ k \in S /\ Cardinality(upto[k]) = n
    BY <1>3, <1>6
  <2> HIDE DEF k
  <2>2. ~(Cardinality(upto[k]) < n) /\ ~(n < Cardinality(upto[k]))
    BY <2>1
  <2>3. k = i
    BY <1>4, <2>1, <2>2
  <2> HIDE DEF n
  <2> QED BY <1>5, <2>1, <2>3 DEF k
<1>10. ASSUME NEW m \in DOMAIN L, NEW n \in DOMAIN L, m < n
       PROVE  L[m] # L[n] /\ L[m] \in upto[L[n]]
  <2> DEFINE a == L[m]
             b == L[n]
  <2>1. /\ a \in S /\ b \in S /\ Cardinality(upto[a]) = m /\ Cardinality(upto[b]) = n
        /\ m \in Nat /\ n \in Nat
    BY <1>1, <1>5, <1>6
  <2> HIDE DEF a, b
  <2>2. a # b
    BY <1>10, <2>1
  <2>3. ~(upto[b] \subseteq upto[a])
    BY <1>4, <1>10, <2>1, <2>2
  <2>4. a \in upto[b]
    BY <2>1, <2>2, <2>3
  <2> QED BY <2>2, <2>4 DEF a, b
<1>11. L = Ranked(S, upto)
  BY DEF L
<1> QED BY <1>7, <1>8, <1>9, <1>10, <1>11 DEF Lists

\* Ascending lists each member of a finite set of integers once, in order.
LEMMA AscendingLists ==
    ASSUME NEW S \in SUBSET Int, IsFiniteSet(S)
    PROVE  /\ Ascending(S) \in Seq(S)
           /\ Len(Ascending(S)) = Cardinality(S)
           /\ \A i \in S : \E n \in DOMAIN Ascending(S) : Ascending(S)[n] = i
           /\ \A m, n \in DOMAIN Ascending(S) : m < n => Ascending(S)[m] < Ascending(S)[n]
           /\ \A m, n \in DOMAIN Ascending(S) : Ascending(S)[m] = Ascending(S)[n] => m = n
<1> DEFINE upto == [i \in S |-> {j \in S : j <= i}]
<1>1. upto \in [S -> SUBSET S] /\ \A i \in S : i \in upto[i]
  OBVIOUS
<1>2. \A i, j \in S : i < j => upto[i] \subseteq upto[j] /\ j \notin upto[i]
  <2> SUFFICES ASSUME NEW i \in S, NEW j \in S, i < j
               PROVE  upto[i] \subseteq upto[j] /\ j \notin upto[i]
    BY Zenon
  <2>1. i \in Int /\ j \in Int /\ \A k \in S : k \in Int
    OBVIOUS
  <2>2. \A k \in S : k <= i => k <= j
    BY <2>1
  <2>3. ~(j <= i)
    BY <2>1
  <2> QED BY <2>2, <2>3
<1>3. \A i, j \in S : i # j => /\ upto[i] # upto[j]
                             /\ (upto[i] \subseteq upto[j] \/ upto[j] \subseteq upto[i])
  <2> SUFFICES ASSUME NEW i \in S, NEW j \in S, i # j
               PROVE  /\ upto[i] # upto[j]
                      /\ (upto[i] \subseteq upto[j] \/ upto[j] \subseteq upto[i])
    BY Zenon
  <2> HIDE DEF upto
  <2>1. i < j \/ j < i
    OBVIOUS
  <2> QED BY <1>1, <1>2, <2>1
<1>4. Ascending(S) = Ranked(S, upto)
  BY DEF Ascending
<1>5. \A i, j \in S : i \in upto[j] => i <= j
  OBVIOUS
<1> HIDE DEF upto
<1> DEFINE L == Ranked(S, upto)
<1>6. Lists(L, S, upto)
  <2>1. upto \in [S -> SUBSET S]
    BY <1>1
  <2>2. \A i \in S : i \in upto[i]
    BY <1>1
  <2> QED BY <2>1, <2>2, <1>3, RankedLists
<1> HIDE DEF L
<1>7. \A m, n \in DOMAIN L : m < n => L[m] < L[n]
  <2> SUFFICES ASSUME NEW m \in DOMAIN L, NEW n \in DOMAIN L, m < n PROVE L[m] < L[n]
    OBVIOUS
  <2>1. L[m] \in S /\ L[n] \in S
    BY <1>6 DEF Lists
  <2>2. L[m] # L[n] /\ L[m] <= L[n]
    BY <1>5, <1>6, <2>1 DEF Lists
  <2>3. L[m] \in Int /\ L[n] \in Int
    BY <2>1
  <2> QED BY <2>2, <2>3
<1>8. Ascending(S) = L
  BY <1>4 DEF L
<1> QED BY <1>6, <1>7, <1>8 DEF Lists
=============================================================================
