----------------------------- MODULE DataFacts ------------------------------
(***************************************************************************)
(* Facts about data that the proofs of the components need.  Sums, minima  *)
(* and lists of finite sets: MapThenSumSet, Min and FoldSet of the         *)
(* community modules; induction over a finite set is by a smallest         *)
(* counterexample.  Medians: what MedianPrice returns.  Chain readers:     *)
(* what the two LogsInRange of ChainReader return.                         *)
(***************************************************************************)
EXTENDS Integers, Functions, FiniteSetsExt, MedianPrice, ChainReader,
        FiniteSetTheorems, SequenceTheorems, WellFoundedInduction, TLAPS

SomeOf(s) == CHOOSE x \in s : TRUE

(* The function that MapThenSumSet unfolds to, for the summands F.         *)
Adds(g, F, S) ==
  g = [s \in SUBSET S |-> IF s = {} THEN 0
                          ELSE F[SomeOf(s)] + g[s \ {SomeOf(s)}]]

Sum(F, S) == (CHOOSE g : Adds(g, F, S))[S]

(* Among finite sets there is a smallest one.                              *)
LEMMA SmallestSet ==
  ASSUME NEW T, T # {}, \A X \in T : IsFiniteSet(X)
  PROVE  \E X \in T : \A Y \in T : Y \subseteq X => Y = X
<1> DEFINE S == UNION T
<1>1. T \subseteq FiniteSubsetsOf(S)
  BY DEF FiniteSubsetsOf
<1>2. \E X \in T : \A Y \in T : <<Y, X>> \notin StrictSubsetOrdering(S)
  <2> HIDE DEF S
  <2> QED
    BY <1>1, FS_StrictSubsetOrderingWellFounded, WFMin
<1>3. PICK X \in T : \A Y \in T : <<Y, X>> \notin StrictSubsetOrdering(S)
  BY <1>2
<1>4. ASSUME NEW Y \in T, Y \subseteq X, Y # X PROVE FALSE
  BY <1>1, <1>3, <1>4 DEF StrictSubsetOrdering, FiniteSubsetsOf
<1> QED
  BY <1>3, <1>4

LEMMA SomeOfIn == ASSUME NEW s, s # {} PROVE SomeOf(s) \in s
BY DEF SomeOf

(* The lowest of a set of numbers is one of them and at most each of them. *)
LEMMA LowestIsLeast ==
  ASSUME NEW S \in SUBSET Nat, NEW x \in S
  PROVE  Min(S) \in Nat /\ Min(S) \in S /\ Min(S) <= x
<1> DEFINE Below(y) == {z \in S : z < y}
           T == {Below(y) : y \in S}
<1>1. ASSUME NEW y \in S PROVE Below(y) \in FiniteSubsetsOf(S)
  <2> HIDE DEF T
  <2>1. y \in Nat
    OBVIOUS
  <2>2. Below(y) \in SUBSET Nat
    OBVIOUS
  <2>3. \A z \in Below(y) : z <= y
    BY <2>1, <2>2
  <2>4. IsFiniteSet(Below(y))
    BY <2>1, <2>2, <2>3, FS_BoundedSetOfNaturals
  <2> QED
    BY <2>4 DEF FiniteSubsetsOf
<1>2. T \subseteq FiniteSubsetsOf(S) /\ T # {}
  BY <1>1
<1>3. \E X \in T : \A Y \in T : <<Y, X>> \notin StrictSubsetOrdering(S)
  <2> HIDE DEF T
  <2> QED
    BY <1>2, FS_StrictSubsetOrderingWellFounded, WFMin
<1>4. PICK m \in S : \A y \in S :
        <<Below(y), Below(m)>> \notin StrictSubsetOrdering(S)
  BY <1>3
<1>5. ASSUME NEW y \in S PROVE m <= y
  <2> HIDE DEF T
  <2> SUFFICES ASSUME y < m PROVE FALSE
    OBVIOUS
  <2>1. Below(y) \subseteq Below(m) /\ y \in Below(m) /\ y \notin Below(y)
    <3>1. y \in Nat /\ m \in Nat
      OBVIOUS
    <3>2. \A z \in S : z \in Nat
      OBVIOUS
    <3>3. \A z \in S : z < y => z < m
      BY <3>1, <3>2
    <3>4. ~ (y < y)
      BY <3>1
    <3> QED
      BY <3>3, <3>4, Zenon
  <2>2. <<Below(y), Below(m)>> \in StrictSubsetOrdering(S)
    BY <1>1, <2>1 DEF StrictSubsetOrdering, FiniteSubsetsOf
  <2> QED
    BY <1>4, <2>2
<1> QED
  BY <1>5 DEF Min

(* Adding up gives one number, whatever set it is done in.                 *)
LEMMA AddsAgree ==
  ASSUME NEW F, NEW S, NEW R, NEW g, NEW h, NEW t,
         Adds(g, F, S), Adds(h, F, R), t \subseteq S, t \subseteq R,
         IsFiniteSet(t)
  PROVE  g[t] = h[t]
<1> DEFINE T == {s \in SUBSET t : g[s] # h[s]}
<1>1. SUFFICES ASSUME T # {} PROVE FALSE
  OBVIOUS
<1>2. \A X \in T : IsFiniteSet(X)
  BY FS_Subset
<1>3. PICK X \in T : \A Y \in T : Y \subseteq X => Y = X
  <2> HIDE DEF T
  <2> QED BY <1>1, <1>2, SmallestSet
<1> DEFINE c == SomeOf(X)
<1>4. X # {} => c \in X
  BY SomeOfIn
<1>5. g[X] = IF X = {} THEN 0 ELSE F[c] + g[X \ {c}]
  BY <1>3 DEF Adds
<1>6. h[X] = IF X = {} THEN 0 ELSE F[c] + h[X \ {c}]
  BY <1>3 DEF Adds
<1>7. X # {} => g[X \ {c}] = h[X \ {c}]
  BY <1>3, <1>4
<1> QED
  BY <1>3, <1>5, <1>6, <1>7

LEMMA AddsExists ==
  ASSUME NEW F, NEW S, IsFiniteSet(S)
  PROVE  \E g : Adds(g, F, S)
<1> DEFINE T == {s \in SUBSET S : ~ \E g : Adds(g, F, s)}
<1>1. SUFFICES ASSUME T # {} PROVE FALSE
  OBVIOUS
<1>2. \A X \in T : IsFiniteSet(X)
  BY FS_Subset
<1>3. PICK X \in T : \A Y \in T : Y \subseteq X => Y = X
  <2> HIDE DEF T
  <2> QED BY <1>1, <1>2, SmallestSet
<1>4. \A Y \in SUBSET X : Y # X => Adds(CHOOSE g : Adds(g, F, Y), F, Y)
  BY <1>3
<1> DEFINE Rest(s) == s \ {SomeOf(s)}
           k == [s \in SUBSET X |-> IF s = {} THEN 0 ELSE F[SomeOf(s)] + Sum(F, Rest(s))]
<1>5. ASSUME NEW s \in SUBSET X, s # {} PROVE k[Rest(s)] = Sum(F, Rest(s))
  <2> DEFINE r == Rest(s)
             h == CHOOSE g : Adds(g, F, r)
  <2>1. r \in SUBSET X /\ r # X /\ IsFiniteSet(r)
    BY <1>2, <1>5, SomeOfIn, FS_Subset
  <2>2. Adds(h, F, r)
    BY <1>4, <2>1
  <2>3. Sum(F, r) = h[r]
    BY DEF Sum
  <2> HIDE DEF h
  <2>4. CASE r = {}
    <3>1. h[r] = 0
      BY <2>2, <2>4 DEF Adds
    <3> QED BY <2>1, <2>4, <3>1, <2>3
  <2>5. CASE r # {}
    <3> DEFINE q == Rest(r)
    <3> HIDE DEF r
    <3>1. q \subseteq r /\ q \in SUBSET X /\ q # X /\ IsFiniteSet(q)
      BY <2>1, <2>5, SomeOfIn, FS_Subset
    <3>2. h[r] = F[SomeOf(r)] + h[q]
      BY <2>2, <2>5 DEF Adds
    <3>3. h[q] = Sum(F, q)
      <4>1. Adds(CHOOSE g : Adds(g, F, q), F, q)
        BY <1>4, <3>1
      <4> QED
        BY <4>1, <2>2, <3>1, AddsAgree DEF Sum
    <3>4. k[r] = F[SomeOf(r)] + Sum(F, q)
      BY <2>1, <2>5
    <3> QED
      BY <3>2, <3>3, <3>4, <2>3 DEF r
  <2> QED
    BY <2>4, <2>5
<1>6. Adds(k, F, X)
  <2>1. \A s \in SUBSET X : k[s] = IF s = {} THEN 0 ELSE F[SomeOf(s)] + k[Rest(s)]
    BY <1>5
  <2> HIDE DEF k
  <2>2. k = [s \in SUBSET X |-> k[s]]
    BY DEF k
  <2> QED
    BY <2>1, <2>2 DEF Adds
<1> QED
  BY <1>3, <1>6

LEMMA SumStep ==
  ASSUME NEW F, NEW S, IsFiniteSet(S)
  PROVE  /\ S = {} => Sum(F, S) = 0
         /\ S # {} => Sum(F, S) = F[SomeOf(S)] + Sum(F, S \ {SomeOf(S)})
<1> DEFINE g == CHOOSE g : Adds(g, F, S)
           r == S \ {SomeOf(S)}
           h == CHOOSE h : Adds(h, F, r)
<1>1. Adds(g, F, S)
  BY AddsExists
<1>2. IsFiniteSet(r) /\ r \subseteq S
  BY FS_Subset
<1>3. Adds(h, F, r)
  BY <1>2, AddsExists
<1>4. Sum(F, S) = g[S] /\ Sum(F, r) = h[r]
  BY DEF Sum
<1> HIDE DEF g, h, r
<1>5. g[r] = h[r]
  BY <1>1, <1>2, <1>3, AddsAgree
<1>6. g[S] = IF S = {} THEN 0 ELSE F[SomeOf(S)] + g[r]
  BY <1>1 DEF Adds, r
<1> QED
  BY <1>4, <1>5, <1>6 DEF r

(* The community modules' sums are such sums.                              *)
LEMMA FunctionSum ==
  ASSUME NEW F, NEW S, IsFiniteSet(S)
  PROVE  SumFunctionOnSet(F, S) = Sum(F, S)
BY DEF SumFunctionOnSet, FoldFunctionOnSet, MapThenFoldSet, Sum, Adds, SomeOf

LEMMA MapIsSum ==
  ASSUME NEW F, NEW S, IsFiniteSet(S)
  PROVE  MapThenSumSet(LAMBDA x : F[x], S) = Sum(F, S)
BY DEF MapThenSumSet, MapThenFoldSet, Sum, Adds, SomeOf

(* Functions that agree on a set have the same sum over it.                *)
LEMMA SumAgree ==
  ASSUME NEW F, NEW G, NEW S, IsFiniteSet(S), \A x \in S : F[x] = G[x]
  PROVE  Sum(F, S) = Sum(G, S)
<1>1. PICK g : Adds(g, F, S)
  BY AddsExists
<1>2. Adds(g, G, S)
  <2>1. \A s \in SUBSET S : s # {} => F[SomeOf(s)] = G[SomeOf(s)]
    BY SomeOfIn
  <2> QED
    BY <1>1, <2>1 DEF Adds
<1>3. g[S] = Sum(F, S)
  BY <1>1, AddsAgree DEF Sum
<1>4. g[S] = Sum(G, S)
  BY <1>2, AddsAgree DEF Sum
<1> QED
  BY <1>3, <1>4

LEMMA SumIsNat ==
  ASSUME NEW F, NEW S, IsFiniteSet(S), \A x \in S : F[x] \in Nat
  PROVE  Sum(F, S) \in Nat
<1> DEFINE T == {s \in SUBSET S : Sum(F, s) \notin Nat}
<1>1. SUFFICES ASSUME T # {} PROVE FALSE
  OBVIOUS
<1>2. \A X \in T : IsFiniteSet(X)
  BY FS_Subset
<1>3. PICK X \in T : \A Y \in T : Y \subseteq X => Y = X
  <2> HIDE DEF T
  <2> QED BY <1>1, <1>2, SmallestSet
<1> DEFINE c == SomeOf(X)
<1>4. X # {} => c \in X
  BY SomeOfIn
<1>5. /\ X = {} => Sum(F, X) = 0
      /\ X # {} => Sum(F, X) = F[c] + Sum(F, X \ {c})
  BY <1>2, SumStep
<1>6. X # {} => F[c] \in Nat /\ Sum(F, X \ {c}) \in Nat
  BY <1>3, <1>4
<1> QED
  BY <1>3, <1>5, <1>6

LEMMA SumOfZeros ==
  ASSUME NEW F, NEW S, IsFiniteSet(S), \A x \in S : F[x] = 0
  PROVE  Sum(F, S) = 0
<1> DEFINE g == [s \in SUBSET S |-> 0]
<1>1. \A s \in SUBSET S : s # {} =>
        F[SomeOf(s)] = 0 /\ s \ {SomeOf(s)} \in SUBSET S
  BY SomeOfIn
<1>2. Adds(g, F, S)
  BY <1>1 DEF Adds
<1>3. g[S] = 0
  OBVIOUS
<1> HIDE DEF g
<1>4. Adds(CHOOSE h : Adds(h, F, S), F, S)
  BY <1>2
<1> QED
  BY <1>2, <1>3, <1>4, AddsAgree DEF Sum

(* Any element may be taken out first.                                     *)
LEMMA SumRemove ==
  ASSUME NEW F, NEW S, NEW x \in S, IsFiniteSet(S), \A y \in S : F[y] \in Nat
  PROVE  Sum(F, S) = F[x] + Sum(F, S \ {x})
<1> DEFINE T == {s \in SUBSET S : \E y \in s : Sum(F, s) # F[y] + Sum(F, s \ {y})}
<1>1. SUFFICES ASSUME T # {} PROVE FALSE
  OBVIOUS
<1>2. \A X \in SUBSET S : IsFiniteSet(X)
  BY FS_Subset
<1>3. PICK X \in T : \A Y \in T : Y \subseteq X => Y = X
  <2>1. \A X \in T : IsFiniteSet(X)
    BY <1>2
  <2> HIDE DEF T
  <2> QED BY <1>1, <2>1, SmallestSet
<1>12. \A Y \in SUBSET X : Y # X =>
          \A z \in Y : Sum(F, Y) = F[z] + Sum(F, Y \ {z})
  BY <1>3
<1>4. X \in SUBSET S /\ \E y \in X : Sum(F, X) # F[y] + Sum(F, X \ {y})
  BY <1>3
<1> HIDE DEF T
<1> DEFINE c == SomeOf(X)
<1>13. PICK y \in X : Sum(F, X) # F[y] + Sum(F, X \ {y})
  BY <1>4
<1>5. c \in X
  BY SomeOfIn
<1> HIDE DEF c
<1>6. Sum(F, X) = F[c] + Sum(F, X \ {c})
  <2>1. X # {} /\ IsFiniteSet(X)
    BY <1>2, <1>4
  <2> QED
    BY <2>1, SumStep DEF c
<1>7. c # y
  BY <1>6, <1>13
<1>8. Sum(F, X \ {c}) = F[y] + Sum(F, (X \ {c}) \ {y})
  <2>1. X \ {c} \in SUBSET X /\ X \ {c} # X /\ y \in X \ {c}
    BY <1>5, <1>7
  <2> QED
    BY <1>12, <2>1
<1>9. Sum(F, X \ {y}) = F[c] + Sum(F, (X \ {y}) \ {c})
  <2>1. X \ {y} \in SUBSET X /\ X \ {y} # X /\ c \in X \ {y}
    BY <1>5, <1>7
  <2> QED
    BY <1>12, <2>1
<1>10. (X \ {c}) \ {y} = (X \ {y}) \ {c}
  OBVIOUS
<1>11. /\ F[c] \in Nat /\ F[y] \in Nat
       /\ Sum(F, (X \ {y}) \ {c}) \in Nat
  <2>1. \A z \in (X \ {y}) \ {c} : F[z] \in Nat
    BY <1>4
  <2>2. (X \ {y}) \ {c} \in SUBSET S
    BY <1>4
  <2>3. IsFiniteSet((X \ {y}) \ {c})
    BY <1>2, <2>2
  <2>4. Sum(F, (X \ {y}) \ {c}) \in Nat
    BY <2>1, <2>3, SumIsNat
  <2> QED
    BY <2>4, <1>4, <1>5
<1>14. ASSUME NEW a \in Nat, NEW b \in Nat, NEW t \in Nat
       PROVE  a + (b + t) = b + (a + t)
  OBVIOUS
<1>15. F[c] + (F[y] + Sum(F, (X \ {y}) \ {c}))
         = F[y] + (F[c] + Sum(F, (X \ {y}) \ {c}))
  BY ONLY <1>11, <1>14
<1> QED
  BY <1>6, <1>8, <1>9, <1>10, <1>13, <1>15

(* The same for citing: a sum, with one of its summands taken out.         *)
CountsOn(F, S) == IsFiniteSet(S) /\ \A y \in S : F[y] \in Nat
SplitsAt(F, S, x) == Sum(F, S) = F[x] + Sum(F, S \ {x})

LEMMA SumSplits ==
  ASSUME NEW F, NEW S, NEW x \in S, CountsOn(F, S)
  PROVE  SplitsAt(F, S, x)
BY SumRemove DEF CountsOn, SplitsAt

LEMMA SumDisjoint ==
  ASSUME NEW F, NEW A, NEW B, IsFiniteSet(A), IsFiniteSet(B), A \cap B = {},
         \A y \in A \cup B : F[y] \in Nat
  PROVE  /\ Sum(F, A \cup B) = Sum(F, A) + Sum(F, B)
         /\ Sum(F, A) \in Nat /\ Sum(F, B) \in Nat
<1> DEFINE T == {s \in SUBSET B : Sum(F, A \cup s) # Sum(F, A) + Sum(F, s)}
<1>1. Sum(F, A) \in Nat /\ \A s \in SUBSET B : Sum(F, s) \in Nat
  <2>1. \A s \in SUBSET B : IsFiniteSet(s)
    BY FS_Subset
  <2> QED
    BY <2>1, SumIsNat
<1>2. ASSUME T # {} PROVE FALSE
  <2>1. PICK X \in T : \A Y \in T : Y \subseteq X => Y = X
    <3>1. \A X \in T : IsFiniteSet(X)
      BY FS_Subset
    <3> HIDE DEF T
    <3> QED BY <1>2, <3>1, SmallestSet
  <2>2. X \in SUBSET B /\ Sum(F, A \cup X) # Sum(F, A) + Sum(F, X)
    BY <2>1
  <2>3. \A Y \in SUBSET X : Y # X =>
          Sum(F, A \cup Y) = Sum(F, A) + Sum(F, Y)
    BY <2>1
  <2> HIDE DEF T
  <2>4. X # {}
    <3> SUFFICES ASSUME X = {} PROVE FALSE
      OBVIOUS
    <3>1. A \cup X = A /\ Sum(F, {}) = 0
      BY FS_EmptySet, SumStep
    <3> QED
      BY <1>1, <2>2, <3>1
  <2>5. PICK x \in X : TRUE
    BY <2>4
  <2> DEFINE W == X \ {x}
  <2>6. /\ IsFiniteSet(X) /\ x \in B /\ x \in A \cup X
        /\ \A y \in X : F[y] \in Nat
        /\ (A \cup X) \ {x} = A \cup W
        /\ W \in SUBSET X /\ W # X
    BY <2>2, FS_Subset
  <2>7. IsFiniteSet(A \cup X) /\ \A y \in A \cup X : F[y] \in Nat
    BY <2>2, <2>6, FS_Union
  <2>8. Sum(F, X) = F[x] + Sum(F, W)
    BY ONLY <2>6, x \in X, SumRemove
  <2>9. Sum(F, A \cup X) = F[x] + Sum(F, A \cup W)
    <3> DEFINE U == A \cup X
    <3>1. x \in U /\ IsFiniteSet(U) /\ \A y \in U : F[y] \in Nat
      BY <2>6, <2>7
    <3> HIDE DEF U, W
    <3>2. Sum(F, U) = F[x] + Sum(F, U \ {x})
      BY ONLY <3>1, SumRemove
    <3> QED
      BY <2>6, <3>2 DEF U
  <2>10. Sum(F, A \cup W) = Sum(F, A) + Sum(F, W)
    BY <2>3, <2>6
  <2>11. F[x] \in Nat /\ Sum(F, W) \in Nat
    BY <1>1, <2>2, <2>6
  <2> HIDE DEF W
  <2> QED
    BY <1>1, <2>2, <2>8, <2>9, <2>10, <2>11
<1> QED
  BY <1>1, <1>2

(* Changing one summand changes the sum by as much.                        *)
LEMMA SumUpdate ==
  ASSUME NEW F, NEW G, NEW S, NEW x \in S, IsFiniteSet(S),
         \A y \in S : F[y] \in Nat /\ G[y] \in Nat,
         \A y \in S \ {x} : F[y] = G[y]
  PROVE  /\ Sum(G, S) = Sum(F, S) - F[x] + G[x]
         /\ Sum(F, S) \in Nat /\ Sum(G, S) \in Nat
<1>1. IsFiniteSet(S \ {x})
  BY FS_Subset
<1>2. Sum(F, S \ {x}) = Sum(G, S \ {x}) /\ Sum(F, S \ {x}) \in Nat
  BY <1>1, SumAgree, SumIsNat
<1>3. /\ Sum(F, S) = F[x] + Sum(F, S \ {x})
      /\ Sum(G, S) = G[x] + Sum(G, S \ {x})
  BY SumRemove
<1>4. Sum(F, S) \in Nat /\ Sum(G, S) \in Nat
  BY SumIsNat
<1> HIDE DEF Sum
<1> QED
  BY <1>2, <1>3, <1>4

(* A part adds up to no more than the whole.                               *)
LEMMA SumPart ==
  ASSUME NEW F, NEW S, NEW R \in SUBSET S, IsFiniteSet(S),
         \A y \in S : F[y] \in Nat
  PROVE  /\ Sum(F, S) \in Nat /\ Sum(F, R) \in Nat
         /\ Sum(F, R) <= Sum(F, S)
<1> DEFINE T == {s \in SUBSET S : R \subseteq s /\ ~ (Sum(F, R) <= Sum(F, s))}
<1>1. /\ \A X \in SUBSET S : Sum(F, X) \in Nat
      /\ \A X \in SUBSET S : IsFiniteSet(X)
  BY FS_Subset, SumIsNat
<1>2. SUFFICES ASSUME T # {} PROVE FALSE
  BY <1>1
<1>3. PICK X \in T : \A Y \in T : Y \subseteq X => Y = X
  <2>1. \A X \in T : IsFiniteSet(X)
    BY <1>1
  <2> HIDE DEF T
  <2> QED BY <1>2, <2>1, SmallestSet
<1>4. X # R
  BY <1>1, <1>3
<1>5. PICK x \in X : x \notin R
  BY <1>4
<1>6. Sum(F, R) <= Sum(F, X \ {x})
  BY <1>3, <1>5
<1>7. Sum(F, X) = F[x] + Sum(F, X \ {x})
  <2>1. X \in SUBSET S /\ IsFiniteSet(X) /\ \A y \in X : F[y] \in Nat
    BY <1>1, <1>3
  <2> HIDE DEF T
  <2> QED
    <3>1. CountsOn(F, X)
      BY <2>1 DEF CountsOn
    <3>2. SplitsAt(F, X, x)
      BY ONLY <1>5, <3>1, SumSplits
    <3> QED
      BY <3>2 DEF SplitsAt
<1>8. /\ F[x] \in Nat /\ Sum(F, X \ {x}) \in Nat
      /\ Sum(F, R) \in Nat /\ Sum(F, X) \in Nat
  BY <1>1, <1>3
<1>9. ~ (Sum(F, R) <= Sum(F, X))
  BY <1>3
<1> QED
  BY <1>6, <1>7, <1>8, <1>9

(* Summands that are matched one to one add up to the same.                *)
LEMMA SumMatched ==
  ASSUME NEW F, NEW G, NEW A, NEW B, NEW h \in [A -> B],
         IsFiniteSet(A), IsFiniteSet(B),
         \A x, y \in A : h[x] = h[y] => x = y,
         \A y \in B : G[y] \in Nat,
         \A x \in A : F[x] = G[h[x]]
  PROVE  /\ Sum(F, A) \in Nat /\ Sum(G, B) \in Nat
         /\ Sum(F, A) <= Sum(G, B)
<1> DEFINE Image(s) == {h[x] : x \in s}
           T == {s \in SUBSET A : Sum(F, s) # Sum(G, Image(s))}
<1>1. /\ \A s \in SUBSET A : IsFiniteSet(s)
      /\ \A s \in SUBSET B : IsFiniteSet(s)
      /\ \A s \in SUBSET A : Image(s) \in SUBSET B
      /\ \A x \in A : F[x] \in Nat
  BY FS_Subset
<1>2. ASSUME T # {} PROVE FALSE
  <2>1. PICK X \in T : \A Y \in T : Y \subseteq X => Y = X
    <3>1. \A X \in T : IsFiniteSet(X)
      BY <1>1
    <3> HIDE DEF T
    <3> QED BY <1>2, <3>1, SmallestSet
  <2>2. X \in SUBSET A /\ Sum(F, X) # Sum(G, Image(X))
    BY <2>1
  <2>3. \A Y \in SUBSET X : Y # X => Sum(F, Y) = Sum(G, Image(Y))
    BY <2>1
  <2> HIDE DEF T
  <2>4. X # {}
    <3> SUFFICES ASSUME X = {} PROVE FALSE
      OBVIOUS
    <3>1. Image(X) = {}
      OBVIOUS
    <3>2. Sum(F, {}) = 0 /\ Sum(G, {}) = 0
      BY FS_EmptySet, SumStep
    <3> QED
      BY <2>2, <3>1, <3>2
  <2>5. PICK x \in X : TRUE
    BY <2>4
  <2>6. Image(X \ {x}) = Image(X) \ {h[x]} /\ h[x] \in Image(X)
    BY <2>2
  <2>7. Sum(F, X) = F[x] + Sum(F, X \ {x})
    <3>1. IsFiniteSet(X) /\ \A y \in X : F[y] \in Nat
      BY <1>1, <2>2
    <3> HIDE DEF Image
    <3> QED
      BY ONLY x \in X, <3>1, SumRemove
  <2>8. Sum(G, Image(X)) = G[h[x]] + Sum(G, Image(X) \ {h[x]})
    <3> DEFINE I == Image(X)
               z == h[x]
    <3>1. I \in SUBSET B /\ z \in I
      BY <1>1, <2>2, <2>6
    <3> HIDE DEF Image, I, z
    <3>2. IsFiniteSet(I) /\ \A y \in I : G[y] \in Nat
      BY <1>1, <3>1
    <3>3. Sum(G, I) = G[z] + Sum(G, I \ {z})
      <4>1. CountsOn(G, I)
        BY <3>2 DEF CountsOn
      <4>2. SplitsAt(G, I, z)
        BY ONLY <3>1, <4>1, SumSplits
      <4> QED
        BY <4>2 DEF SplitsAt
    <3> QED
      BY <3>3 DEF I, z
  <2>9. Sum(F, X \ {x}) = Sum(G, Image(X \ {x}))
    BY <2>3
  <2>10. F[x] = G[h[x]]
    BY <2>2
  <2> QED
    BY <2>2, <2>6, <2>7, <2>8, <2>9, <2>10
<1>3. Sum(F, A) = Sum(G, Image(A))
  BY <1>2
<1>4. Image(A) \in SUBSET B
  BY <1>1
<1> HIDE DEF Image
<1> QED
  BY <1>1, <1>3, <1>4, SumPart, SumIsNat

-----------------------------------------------------------------------------
(* Lists: FoldSet of the community modules, appending.                     *)

Lists(g, F, S) ==
  g = [s \in SUBSET S |-> IF s = {} THEN <<>>
                          ELSE Append(g[s \ {SomeOf(s)}], F[SomeOf(s)])]

Listing(F, S) == (CHOOSE g : Lists(g, F, S))[S]

LEMMA FoldIsListing ==
  ASSUME NEW F, NEW S
  PROVE  FoldSet(LAMBDA s, seq : Append(seq, F[s]), <<>>, S) = Listing(F, S)
BY DEF FoldSet, MapThenFoldSet, Listing, Lists, SomeOf

LEMMA ListsAgree ==
  ASSUME NEW F, NEW S, NEW R, NEW g, NEW h, NEW t,
         Lists(g, F, S), Lists(h, F, R), t \subseteq S, t \subseteq R,
         IsFiniteSet(t)
  PROVE  g[t] = h[t]
<1> DEFINE T == {s \in SUBSET t : g[s] # h[s]}
<1>1. SUFFICES ASSUME T # {} PROVE FALSE
  OBVIOUS
<1>2. \A X \in T : IsFiniteSet(X)
  BY FS_Subset
<1>3. PICK X \in T : \A Y \in T : Y \subseteq X => Y = X
  <2> HIDE DEF T
  <2> QED BY <1>1, <1>2, SmallestSet
<1> DEFINE c == SomeOf(X)
<1>4. X # {} => c \in X
  BY SomeOfIn
<1>5. g[X] = IF X = {} THEN <<>> ELSE Append(g[X \ {c}], F[c])
  BY <1>3 DEF Lists
<1>6. h[X] = IF X = {} THEN <<>> ELSE Append(h[X \ {c}], F[c])
  BY <1>3 DEF Lists
<1>7. X # {} => g[X \ {c}] = h[X \ {c}]
  BY <1>3, <1>4
<1> QED
  BY <1>3, <1>5, <1>6, <1>7

LEMMA ListsExists ==
  ASSUME NEW F, NEW S, IsFiniteSet(S)
  PROVE  \E g : Lists(g, F, S)
<1> DEFINE T == {s \in SUBSET S : ~ \E g : Lists(g, F, s)}
<1>1. SUFFICES ASSUME T # {} PROVE FALSE
  OBVIOUS
<1>2. \A X \in T : IsFiniteSet(X)
  BY FS_Subset
<1>3. PICK X \in T : \A Y \in T : Y \subseteq X => Y = X
  <2> HIDE DEF T
  <2> QED BY <1>1, <1>2, SmallestSet
<1>4. \A Y \in SUBSET X : Y # X => Lists(CHOOSE g : Lists(g, F, Y), F, Y)
  BY <1>3
<1> DEFINE Rest(s) == s \ {SomeOf(s)}
           k == [s \in SUBSET X |->
                   IF s = {} THEN <<>>
                   ELSE Append(Listing(F, Rest(s)), F[SomeOf(s)])]
<1>5. ASSUME NEW s \in SUBSET X, s # {}
      PROVE  k[Rest(s)] = Listing(F, Rest(s))
  <2> DEFINE r == Rest(s)
             h == CHOOSE g : Lists(g, F, r)
  <2>1. r \in SUBSET X /\ r # X /\ IsFiniteSet(r)
    BY <1>2, <1>5, SomeOfIn, FS_Subset
  <2>2. Lists(h, F, r)
    BY <1>4, <2>1
  <2>3. Listing(F, r) = h[r]
    BY DEF Listing
  <2> HIDE DEF h
  <2>4. CASE r = {}
    <3>1. h[r] = <<>>
      BY <2>2, <2>4 DEF Lists
    <3> QED BY <2>1, <2>4, <3>1, <2>3
  <2>5. CASE r # {}
    <3> DEFINE q == Rest(r)
    <3> HIDE DEF r
    <3>1. q \subseteq r /\ q \in SUBSET X /\ q # X /\ IsFiniteSet(q)
      BY <2>1, <2>5, SomeOfIn, FS_Subset
    <3>2. h[r] = Append(h[q], F[SomeOf(r)])
      BY <2>2, <2>5 DEF Lists
    <3>3. h[q] = Listing(F, q)
      <4>1. Lists(CHOOSE g : Lists(g, F, q), F, q)
        BY <1>4, <3>1
      <4> QED
        BY <4>1, <2>2, <3>1, ListsAgree DEF Listing
    <3>4. k[r] = Append(Listing(F, q), F[SomeOf(r)])
      BY <2>1, <2>5
    <3> QED
      BY <3>2, <3>3, <3>4, <2>3 DEF r
  <2> QED
    BY <2>4, <2>5
<1>6. Lists(k, F, X)
  <2>1. \A s \in SUBSET X :
          k[s] = IF s = {} THEN <<>> ELSE Append(k[Rest(s)], F[SomeOf(s)])
    BY <1>5
  <2> HIDE DEF k
  <2>2. k = [s \in SUBSET X |-> k[s]]
    BY DEF k
  <2> QED
    BY <2>1, <2>2 DEF Lists
<1> QED
  BY <1>3, <1>6

LEMMA ListingStep ==
  ASSUME NEW F, NEW S, IsFiniteSet(S)
  PROVE  /\ S = {} => Listing(F, S) = <<>>
         /\ S # {} => Listing(F, S) = Append(Listing(F, S \ {SomeOf(S)}),
                                             F[SomeOf(S)])
<1> DEFINE g == CHOOSE g : Lists(g, F, S)
           r == S \ {SomeOf(S)}
           h == CHOOSE h : Lists(h, F, r)
<1>1. Lists(g, F, S)
  BY ListsExists
<1>2. IsFiniteSet(r) /\ r \subseteq S
  BY FS_Subset
<1>3. Lists(h, F, r)
  BY <1>2, ListsExists
<1>4. Listing(F, S) = g[S] /\ Listing(F, r) = h[r]
  BY DEF Listing
<1> HIDE DEF g, h, r
<1>5. g[r] = h[r]
  BY <1>1, <1>2, <1>3, ListsAgree
<1>6. g[S] = IF S = {} THEN <<>> ELSE Append(g[r], F[SomeOf(S)])
  BY <1>1 DEF Lists, r
<1> QED
  BY <1>4, <1>5, <1>6 DEF r

(* A sequence names the elements of a set, each at one place. *)
ListsOnce(l, F, S) ==
  /\ l \in Seq(Int)
  /\ Len(l) = Cardinality(S)
  /\ \E h \in [1..Len(l) -> S] :
       /\ \A i, j \in 1..Len(l) : h[i] = h[j] => i = j
       /\ \A i \in 1..Len(l) : l[i] = F[h[i]]

LEMMA AppendIs ==
  ASSUME NEW l \in Seq(Int), NEW e \in Int
  PROVE  /\ Append(l, e) \in Seq(Int)
         /\ Len(Append(l, e)) = Len(l) + 1
         /\ Append(l, e)[Len(l) + 1] = e
         /\ \A i \in 1..Len(l) : Append(l, e)[i] = l[i]
OBVIOUS

LEMMA AppendLists ==
  ASSUME NEW F, NEW S, NEW c \in S, IsFiniteSet(S), F[c] \in Int,
         NEW l, ListsOnce(l, F, S \ {c})
  PROVE  ListsOnce(Append(l, F[c]), F, S)
<1> DEFINE n == Len(l)
           m == Append(l, F[c])
<1>1. PICK h \in [1..n -> S \ {c}] :
        /\ \A i, j \in 1..n : h[i] = h[j] => i = j
        /\ \A i \in 1..n : l[i] = F[h[i]]
  BY DEF ListsOnce
<1>2. l \in Seq(Int) /\ n \in Nat /\ n = Cardinality(S \ {c})
  BY DEF ListsOnce
<1>3. /\ m \in Seq(Int) /\ Len(m) = n + 1
      /\ m[n + 1] = F[c] /\ \A i \in 1..n : m[i] = l[i]
  BY <1>2, AppendIs
<1>4. Cardinality(S) = n + 1
  <2>1. Cardinality(S \ {c}) = Cardinality(S) - 1
    BY FS_RemoveElement
  <2>2. Cardinality(S) \in Nat
    BY FS_CardinalityType
  <2> QED
    BY <1>2, <2>1, <2>2
<1> DEFINE k == [i \in 1..(n + 1) |-> IF i = n + 1 THEN c ELSE h[i]]
<1> HIDE DEF n, m
<1>5. \A i \in 1..(n + 1) : i # n + 1 => i \in 1..n
  BY <1>2
<1>6. k \in [1..(n + 1) -> S]
  BY <1>5
<1>7. \A i, j \in 1..(n + 1) : k[i] = k[j] => i = j
  BY <1>1, <1>5
<1>8. \A i \in 1..(n + 1) : m[i] = F[k[i]]
  BY <1>1, <1>3, <1>5
<1> HIDE DEF k
<1>9. 1..Len(m) = 1..(n + 1)
  BY <1>3
<1>10. /\ k \in [1..Len(m) -> S]
       /\ \A i, j \in 1..Len(m) : k[i] = k[j] => i = j
       /\ \A i \in 1..Len(m) : m[i] = F[k[i]]
  BY <1>6, <1>7, <1>8, <1>9
<1>11. m \in Seq(Int) /\ Len(m) = Cardinality(S)
  BY <1>3, <1>4
<1>12. ListsOnce(m, F, S)
  BY <1>10, <1>11 DEF ListsOnce
<1> QED
  BY <1>12 DEF m

LEMMA ListingOnce ==
  ASSUME NEW F, NEW S, IsFiniteSet(S), \A x \in S : F[x] \in Int
  PROVE  ListsOnce(Listing(F, S), F, S)
<1> DEFINE T == {s \in SUBSET S : ~ ListsOnce(Listing(F, s), F, s)}
<1>1. SUFFICES ASSUME T # {} PROVE FALSE
  OBVIOUS
<1>2. \A X \in T : IsFiniteSet(X)
  BY FS_Subset
<1>3. PICK X \in T : \A Y \in T : Y \subseteq X => Y = X
  <2> HIDE DEF T
  <2> QED BY <1>1, <1>2, SmallestSet
<1>4. X \in SUBSET S /\ IsFiniteSet(X) /\ ~ ListsOnce(Listing(F, X), F, X)
      /\ \A Y \in SUBSET X : Y # X => ListsOnce(Listing(F, Y), F, Y)
  BY <1>2, <1>3
<1> HIDE DEF T
<1>5. X # {}
  <2> SUFFICES ASSUME X = {} PROVE FALSE
    OBVIOUS
  <2>1. Listing(F, X) = <<>>
    BY <1>4, ListingStep
  <2>2. Cardinality(X) = 0
    BY FS_EmptySet
  <2> DEFINE e == <<>>
             h == [i \in 1..Len(e) |-> 0]
  <2>3. /\ e \in Seq(Int) /\ Len(e) = 0
        /\ \A i \in 1..Len(e) : FALSE
    OBVIOUS
  <2> HIDE DEF e
  <2>5. h \in [1..Len(e) -> X]
    BY <2>3
  <2> HIDE DEF h
  <2>6. ListsOnce(e, F, X)
    BY <2>2, <2>3, <2>5 DEF ListsOnce
  <2>4. ListsOnce(<<>>, F, X)
    BY <2>6 DEF e
  <2> QED
    BY <1>4, <2>1, <2>4
<1> DEFINE c == SomeOf(X)
<1>6. c \in X
  BY <1>5, SomeOfIn
<1>7. Listing(F, X) = Append(Listing(F, X \ {c}), F[c])
  BY <1>4, <1>5, ListingStep
<1> HIDE DEF c
<1>8. ListsOnce(Listing(F, X \ {c}), F, X \ {c})
  BY <1>4, <1>6
<1>9. F[c] \in Int
  BY <1>4, <1>6
<1> QED
  BY <1>4, <1>6, <1>7, <1>8, <1>9, AppendLists

-----------------------------------------------------------------------------
(* Medians. *)

(* Positions of a sequence. *)
LEMMA IntervalCount ==
  ASSUME NEW n \in Nat
  PROVE  IsFiniteSet(1..n) /\ Cardinality(1..n) = n
<1>1. /\ IsFiniteSet(1..n)
      /\ Cardinality(1..n) = IF 1 > n THEN 0 ELSE n - 1 + 1
  BY FS_Interval
<1> QED
  BY <1>1

(* Any set of positions is finite. *)
LEMMA CountsAreNat ==
  ASSUME NEW n \in Nat, NEW S \in SUBSET (1..n)
  PROVE  IsFiniteSet(S) /\ Cardinality(S) \in Nat
<1>1. IsFiniteSet(1..n)
  BY FS_Interval
<1> QED
  BY <1>1, FS_Subset, FS_CardinalityType

(* The place of a value in the sorted array. *)
LEMMA UpToBounds ==
  ASSUME NEW s \in Seq(Int), NEW i \in 1..Len(s)
  PROVE  /\ i \in UpTo(s, i)
         /\ UpTo(s, i) \subseteq 1..Len(s)
         /\ IsFiniteSet(UpTo(s, i))
         /\ Cardinality(UpTo(s, i)) \in 1..Len(s)
<1> DEFINE U == UpTo(s, i)
<1>1. s[i] \in Int /\ Len(s) \in Nat
  OBVIOUS
<1>2. i \in U /\ U \subseteq 1..Len(s)
  BY <1>1 DEF UpTo
<1>3. IsFiniteSet(1..Len(s)) /\ Cardinality(1..Len(s)) = Len(s)
  BY <1>1, IntervalCount
<1> HIDE DEF U
<1>4. IsFiniteSet(U) /\ Cardinality(U) <= Len(s)
  BY <1>2, <1>3, FS_Subset
<1>5. Cardinality(U) \in Nat /\ Cardinality(U) # 0
  BY <1>2, <1>4, FS_CardinalityType, FS_EmptySet
<1>6. Cardinality(U) \in 1..Len(s)
  BY <1>1, <1>4, <1>5
<1> QED
  BY <1>2, <1>4, <1>6 DEF U

(* Which of two values the sort leaves first. *)
LEMMA UpToGrows ==
  ASSUME NEW s \in Seq(Int), NEW i \in 1..Len(s), NEW j \in 1..Len(s),
         s[i] < s[j] \/ (s[i] = s[j] /\ i < j)
  PROVE  Cardinality(UpTo(s, i)) < Cardinality(UpTo(s, j))
<1> DEFINE U == UpTo(s, i)
           V == UpTo(s, j)
<1>1. s[i] \in Int /\ s[j] \in Int /\ i \in Int /\ j \in Int
      /\ \A k \in 1..Len(s) : s[k] \in Int /\ k \in Int
  OBVIOUS
<1>2. U \subseteq V
  <2> SUFFICES ASSUME NEW k \in U PROVE k \in V
    OBVIOUS
  <2>1. k \in 1..Len(s) /\ (s[k] < s[i] \/ (s[k] = s[i] /\ k <= i))
    BY DEF UpTo
  <2>2. s[k] < s[j] \/ (s[k] = s[j] /\ k <= j)
    BY <1>1, <2>1
  <2> QED
    BY <2>1, <2>2 DEF UpTo
<1>3. j \in V /\ j \notin U
  BY <1>1 DEF UpTo
<1>4. IsFiniteSet(V) /\ Cardinality(U) \in Int /\ Cardinality(V) \in Int
  BY UpToBounds
<1> HIDE DEF U, V
<1>5. Cardinality(U) <= Cardinality(V) /\ Cardinality(U) # Cardinality(V)
  BY <1>2, <1>3, <1>4, FS_Subset
<1>6. Cardinality(U) < Cardinality(V)
  BY <1>4, <1>5
<1> QED
  BY <1>6 DEF U, V

(* Every position of the sorted array is some value's. *)
LEMMA EveryPlaceTaken ==
  ASSUME NEW s \in Seq(Int), NEW k \in 1..Len(s)
  PROVE  \E i \in 1..Len(s) : Cardinality(UpTo(s, i)) = k
<1> DEFINE D == 1..Len(s)
           place == [i \in D |-> Cardinality(UpTo(s, i))]
<1>1. IsFiniteSet(D)
  BY FS_Interval
<1>2. place \in [D -> D]
  BY UpToBounds
<1>3. \A i, j \in D : place[i] = place[j] => i = j
  <2> SUFFICES ASSUME NEW i \in D, NEW j \in D, i # j
               PROVE  Cardinality(UpTo(s, i)) # Cardinality(UpTo(s, j))
    OBVIOUS
  <2>1. s[i] \in Int /\ s[j] \in Int /\ i \in Int /\ j \in Int
    OBVIOUS
  <2>2. Cardinality(UpTo(s, i)) \in Int /\ Cardinality(UpTo(s, j)) \in Int
    BY UpToBounds
  <2>3. \/ s[i] < s[j] \/ (s[i] = s[j] /\ i < j)
        \/ s[j] < s[i] \/ (s[j] = s[i] /\ j < i)
    BY <2>1
  <2>4. \/ Cardinality(UpTo(s, i)) < Cardinality(UpTo(s, j))
        \/ Cardinality(UpTo(s, j)) < Cardinality(UpTo(s, i))
    BY <2>3, UpToGrows
  <2> QED
    BY <2>2, <2>4
<1> HIDE DEF D, place
<1>4. place \in Injection(D, D)
  BY <1>2, <1>3 DEF Injection, IsInjective
<1>5. place \in Surjection(D, D)
  BY <1>1, <1>4, FS_Injection
<1>6. PICK i \in D : place[i] = k
  BY <1>5 DEF Surjection, D
<1> QED
  BY <1>6 DEF D, place

(* The k-th value in order has fewer than k smaller ones, at most Len - k  *)
(* greater ones, and the order is one of the values.                       *)
LEMMA SortedSplits ==
  ASSUME NEW s \in Seq(Int), NEW k \in 1..Len(s)
  PROVE  \E i \in 1..Len(s) :
           /\ Sorted(s)[k] = s[i]
           /\ Cardinality(UpTo(s, i)) = k
           /\ Cardinality({j \in 1..Len(s) : s[j] < s[i]}) <= k - 1
           /\ Cardinality({j \in 1..Len(s) : s[j] > s[i]}) <= Len(s) - k
<1> DEFINE i == CHOOSE i \in 1..Len(s) : Cardinality(UpTo(s, i)) = k
           U == UpTo(s, i)
           Below == {j \in 1..Len(s) : s[j] < s[i]}
           Above == {j \in 1..Len(s) : s[j] > s[i]}
<1>1. i \in 1..Len(s) /\ Cardinality(U) = k
  BY EveryPlaceTaken
<1>2. Sorted(s)[k] = s[i]
  BY DEF Sorted
<1> HIDE DEF i
<1>3. i \in U /\ IsFiniteSet(U) /\ U \subseteq 1..Len(s)
  BY <1>1, UpToBounds
<1>4. s[i] \in Int /\ \A j \in 1..Len(s) : s[j] \in Int
  BY <1>1
<1>5. Below \subseteq U \ {i}
  BY <1>4 DEF UpTo
<1>6. Above \subseteq (1..Len(s)) \ U
  BY <1>4 DEF UpTo
<1> DEFINE D == 1..Len(s)
<1>7. IsFiniteSet(D) /\ Cardinality(D) = Len(s) /\ Len(s) \in Nat /\ k \in Int
  BY IntervalCount
<1> HIDE DEF U, Below, Above, D
<1>8. /\ IsFiniteSet(U \ {i}) /\ Cardinality(U \ {i}) = k - 1
  BY <1>1, <1>3, FS_RemoveElement
<1>9. Cardinality(Below) <= k - 1
  BY <1>5, <1>8, FS_Subset
<1>10. U \cap D = U
  BY <1>3 DEF D
<1>11. IsFiniteSet(D \ U) /\ Cardinality(D \ U) = Len(s) - k
  <2>1. /\ IsFiniteSet(D \ U)
        /\ Cardinality(D \ U) = Cardinality(D) - Cardinality(U \cap D)
            \/ Cardinality(D \ U) = Cardinality(D) - Cardinality(D \cap U)
    BY <1>3, <1>7, FS_Difference
  <2> QED
    BY <1>1, <1>7, <1>10, <2>1
<1>12. Above \subseteq D \ U
  BY <1>6 DEF D
<1>13. Cardinality(Above) <= Len(s) - k
  BY <1>11, <1>12, FS_Subset
<1> QED
  BY <1>1, <1>2, <1>9, <1>13 DEF Below, Above, U

(* What the loops of the contract's sort leave: the values in ascending    *)
(* order up to place i, each at one place.                                 *)
Rearranges(n, pi) == pi \in [1..n -> 1..n] /\ \A k, l \in 1..n : pi[k] = pi[l] => k = l

Arranged(s, a, i) ==
  /\ \E pi : Rearranges(Len(s), pi) /\ a = [k \in 1..Len(s) |-> s[pi[k]]]
  /\ \A k, l \in 1..i : k <= l => a[k] <= a[l]

(* The inner loop stops. *)
LEMMA KeyLands ==
  ASSUME NEW a, NEW i \in Nat \ {0}, \A k \in 1..i : a[k] \in Int
  PROVE  /\ LandsAt(a, i) \in 1..i
         /\ LandsAt(a, i) = 1 \/ a[LandsAt(a, i) - 1] <= a[i]
         /\ \A q \in (LandsAt(a, i) + 1)..i : a[q - 1] > a[i]
<1> DEFINE Stop(p) == p = 1 \/ a[p - 1] <= a[i]
           S == {p \in 1..i : Stop(p)}
           T == {i - p : p \in S}
<1>1. T \subseteq Nat /\ i - 1 \in T
  OBVIOUS
<1>2. PICK p \in S : i - p = Min(T)
  <2> HIDE DEF S
  <2>1. Min(T) \in T
    BY <1>1, LowestIsLeast
  <2> QED
    BY <2>1
<1>3. ASSUME NEW q \in (p + 1)..i PROVE a[q - 1] > a[i]
  <2>1. q \notin S
    <3> SUFFICES ASSUME q \in S PROVE FALSE
      OBVIOUS
    <3>1. i - q \in T
      OBVIOUS
    <3> HIDE DEF T
    <3>2. Min(T) <= i - q
      BY <1>1, <3>1, LowestIsLeast
    <3> QED
      BY <1>2, <3>2
  <2>2. q \in 1..i /\ q - 1 \in 1..i
    OBVIOUS
  <2>3. ~Stop(q)
    BY <2>1, <2>2
  <2> QED
    BY <2>2, <2>3
<1>4. /\ p \in 1..i
      /\ p = 1 \/ a[p - 1] <= a[i]
      /\ \A q \in (p + 1)..i : a[q - 1] > a[i]
  BY <1>3
<1> QED
  BY <1>4 DEF LandsAt

(* One turn of the outer loop brings one more value to its place. *)
LEMMA TurnArranges ==
  ASSUME NEW s \in Seq(Int), NEW a, NEW i \in 2..Len(s),
         Arranged(s, a, i - 1)
  PROVE  Arranged(s, Insert(a, i), i)
<1> DEFINE n == Len(s)
           p == LandsAt(a, i)
           b == Insert(a, i)
           from == [k \in 1..n |-> IF k \in p + 1..i THEN k - 1
                                   ELSE IF k = p THEN i ELSE k]
<1>1. PICK pi : Rearranges(n, pi) /\ a = [k \in 1..n |-> s[pi[k]]]
  BY DEF Arranged
<1>2. n \in Nat /\ \A k \in 1..n : a[k] \in Int
  <2>1. n \in Nat /\ \A j \in 1..n : s[j] \in Int
    OBVIOUS
  <2>2. \A k \in 1..n : pi[k] \in 1..n /\ a[k] = s[pi[k]]
    BY <1>1 DEF Rearranges
  <2> QED
    BY <2>1, <2>2
<1>3. /\ p \in 1..i
      /\ p = 1 \/ a[p - 1] <= a[i]
      /\ \A q \in (p + 1)..i : a[q - 1] > a[i]
  <2>1. i \in Nat \ {0} /\ \A k \in 1..i : a[k] \in Int
    BY <1>2
  <2> QED
    BY <2>1, KeyLands
<1> HIDE DEF p
<1>4. b = [k \in 1..n |-> a[from[k]]]
  <2>1. DOMAIN a = 1..n
    BY <1>1
  <2>2. ASSUME NEW k \in 1..n
        PROVE  (CASE k \in p + 1..i -> a[k - 1]
                  [] k = p          -> a[i]
                  [] OTHER          -> a[k]) = a[from[k]]
    BY <1>2, <1>3
  <2> QED
    BY <2>1, <2>2 DEF Insert, p
<1>5. Rearranges(n, from)
  BY <1>2, <1>3 DEF Rearranges
<1> DEFINE rho == [k \in 1..n |-> pi[from[k]]]
<1>6. Rearranges(n, rho)
  <2> HIDE DEF from
  <2> QED
    BY <1>1, <1>5 DEF Rearranges
<1>7. b = [k \in 1..n |-> s[rho[k]]]
  <2> HIDE DEF from
  <2> QED
    BY <1>1, <1>4, <1>5 DEF Rearranges
<1>8. ASSUME NEW k \in 1..i, NEW l \in 1..i, k <= l
      PROVE  b[k] <= b[l]
  <2>1. \A x, y \in 1..(i - 1) : x <= y => a[x] <= a[y]
    BY DEF Arranged
  <2>2. b[k] = a[from[k]] /\ b[l] = a[from[l]] /\ k \in 1..n /\ l \in 1..n
    <3> HIDE DEF from, b
    <3> QED
      BY <1>2, <1>4
  <2>3. /\ k \in Int /\ l \in Int /\ i \in 1..n /\ p \in Int /\ i \in Int
        /\ k <= l
    BY <1>2, <1>3, <1>8
  <2>4. \A x \in 1..n : /\ x \in p + 1..i => from[x] = x - 1
                        /\ x = p => from[x] = i
                        /\ x \notin p..i => from[x] = x
    BY <1>2, <1>3
  <2> HIDE DEF from, b
  <2>5. CASE l = p
    <3>1. from[l] = i
      BY <2>2, <2>3, <2>5, <2>4
    <3>2. CASE k = l
      BY <1>2, <2>2, <2>3, <3>1, <3>2
    <3>3. CASE k # l
      <4>1. k < p /\ from[k] = k /\ p # 1
        BY <1>3, <2>2, <2>3, <2>5, <2>4, <3>3
      <4>2. a[k] <= a[p - 1] /\ a[p - 1] <= a[i]
        BY <1>3, <2>1, <2>3, <4>1
      <4>3. a[k] \in Int /\ a[p - 1] \in Int /\ a[i] \in Int
        BY <1>2, <1>3, <2>2, <2>3, <4>1
      <4> QED
        BY <2>2, <3>1, <4>1, <4>2, <4>3
    <3> QED
      BY <3>2, <3>3
  <2>6. CASE k = p /\ l # p
    <3>1. from[k] = i /\ from[l] = l - 1 /\ l \in (p + 1)..i
      BY <1>3, <2>2, <2>3, <2>6, <2>4
    <3>2. a[l - 1] > a[i] /\ l - 1 \in 1..n
      BY <1>3, <2>3, <3>1
    <3>3. a[i] \in Int /\ a[l - 1] \in Int
      BY <1>2, <2>3, <3>2
    <3> QED
      BY <2>2, <3>1, <3>2, <3>3
  <2>7. CASE k # p /\ l # p
    <3>1. ASSUME NEW x \in {k, l}
          PROVE  (x < p /\ from[x] = x) \/ (x > p /\ from[x] = x - 1)
      <4>1. x \in 1..n /\ x <= i /\ x # p /\ x \in Int
        BY <2>2, <2>3, <2>7
      <4>2. x < p \/ (x > p /\ x \in p + 1..i)
        BY <2>3, <4>1
      <4> QED
        BY <2>3, <2>4, <4>1, <4>2
    <3>2. /\ from[k] \in 1..(i - 1) /\ from[l] \in 1..(i - 1)
          /\ from[k] <= from[l]
      <4>1. /\ (k < p /\ from[k] = k) \/ (k > p /\ from[k] = k - 1)
            /\ (l < p /\ from[l] = l) \/ (l > p /\ from[l] = l - 1)
        BY <3>1
      <4>2. k >= 1 /\ l >= 1 /\ k <= i /\ l <= i /\ p >= 1 /\ p <= i
        BY <1>3, <2>3
      <4>3. ASSUME NEW x, NEW y,
                   (k < p /\ x = k) \/ (k > p /\ x = k - 1),
                   (l < p /\ y = l) \/ (l > p /\ y = l - 1)
            PROVE  x \in 1..(i - 1) /\ y \in 1..(i - 1) /\ x <= y
        BY <2>3, <4>2, <4>3
      <4> QED
        BY <4>1, <4>3
    <3> QED
      BY <2>1, <2>2, <3>2
  <2> QED
    BY <2>5, <2>6, <2>7
<1> QED
  BY <1>6, <1>7, <1>8 DEF Arranged

(* The arrays after the turns of the outer loop, as a recursive function.  *)
SortTurns(s, m, g) ==
  g = [i \in 0..m |-> IF i <= 1 THEN s ELSE Insert(g[i - 1], i)]

LEMMA SomeTurns ==
  ASSUME NEW s, NEW n \in Nat
  PROVE  \E g : SortTurns(s, n, g)
<1> DEFINE T == {m \in Nat : ~\E g : SortTurns(s, m, g)}
<1> SUFFICES ASSUME n \in T PROVE FALSE
  OBVIOUS
<1>1. PICK m \in T : \A x \in T : m <= x
  <2>1. T \in SUBSET Nat
    OBVIOUS
  <2> HIDE DEF T
  <2> QED
    BY <2>1, LowestIsLeast
<1>2. CASE m = 0
  <2> DEFINE g == [i \in 0..0 |-> s]
  <2>1. g = [i \in 0..0 |-> IF i <= 1 THEN s ELSE Insert(g[i - 1], i)]
    OBVIOUS
  <2> HIDE DEF g
  <2> QED
    BY <1>2, <2>1 DEF SortTurns
<1>3. CASE m # 0
  <2>1. m \in Nat /\ m - 1 \in Nat /\ ~(m <= m - 1)
    BY <1>3
  <2>2. m - 1 \notin T
    <3> HIDE DEF T
    <3> QED
      BY <1>1, <2>1
  <2>3. PICK g : SortTurns(s, m - 1, g)
    BY <2>1, <2>2
  <2> DEFINE last == IF m <= 1 THEN s ELSE Insert(g[m - 1], m)
             h == [i \in 0..m |-> IF i = m THEN last ELSE g[i]]
  <2>4. ASSUME NEW i \in 0..m
        PROVE  h[i] = IF i <= 1 THEN s ELSE Insert(h[i - 1], i)
    <3>1. CASE i = m
      <4>1. i > 1 => i - 1 \in 0..m /\ i - 1 # m
        BY <2>1
      <4> QED
        BY <2>1, <3>1, <4>1
    <3>2. CASE i # m
      <4>1. i \in 0..(m - 1)
        BY <2>1, <3>2
      <4>2. g[i] = IF i <= 1 THEN s ELSE Insert(g[i - 1], i)
        <5> HIDE DEF h
        <5> QED
          BY <2>3, <4>1 DEF SortTurns
      <4>3. h[i] = g[i]
        BY <3>2
      <4>4. i > 1 => i - 1 \in 0..m /\ i - 1 # m
        BY <2>1, <4>1
      <4> QED
        BY <4>2, <4>3, <4>4
    <3> QED
      BY <3>1, <3>2
  <2>5. h = [i \in 0..m |-> IF i <= 1 THEN s ELSE Insert(h[i - 1], i)]
    <3>1. h = [i \in 0..m |-> h[i]]
      OBVIOUS
    <3> HIDE DEF h
    <3> QED
      BY <2>4, <3>1
  <2> HIDE DEF h
  <2> QED
    BY <2>5 DEF SortTurns
<1> QED
  BY <1>2, <1>3

(* The outer loop leaves all the values in ascending order. *)
LEMMA SortArranges ==
  ASSUME NEW s \in Seq(Int)
  PROVE  Arranged(s, InsertionSort(s), Len(s))
<1> DEFINE n == Len(s)
           turn == CHOOSE g : SortTurns(s, n, g)
           T == {m \in 0..n : ~Arranged(s, turn[m], m)}
<1>1. n \in Nat /\ T \in SUBSET Nat
  OBVIOUS
<1>2. SortTurns(s, n, turn)
  BY <1>1, SomeTurns
<1>3. InsertionSort(s) = turn[n]
  BY DEF InsertionSort, SortTurns
<1> HIDE DEF turn
<1>4. \A m \in 0..n : turn[m] = IF m <= 1 THEN s ELSE Insert(turn[m - 1], m)
  BY <1>2 DEF SortTurns
<1> SUFFICES ASSUME n \in T PROVE FALSE
  BY <1>1, <1>3
<1>5. PICK m \in T : \A x \in T : m <= x
  <2> HIDE DEF T
  <2> QED
    BY <1>1, LowestIsLeast
<1>6. m \in 0..n /\ ~Arranged(s, turn[m], m)
  BY <1>5
<1>7. CASE m <= 1
  <2> DEFINE id == [k \in 1..n |-> k]
  <2>1. Rearranges(n, id) /\ s = [k \in 1..n |-> s[id[k]]]
    BY DEF Rearranges
  <2>2. \A k, l \in 1..m : k <= l => s[k] <= s[l]
    <3>1. \A k, l \in 1..m : k = l /\ k \in 1..n
      BY <1>1, <1>6, <1>7
    <3>2. \A k \in 1..n : s[k] \in Int /\ s[k] <= s[k]
      OBVIOUS
    <3> QED
      BY <3>1, <3>2
  <2> HIDE DEF id
  <2>3. Arranged(s, s, m)
    BY <2>1, <2>2 DEF Arranged
  <2> QED
    BY <1>4, <1>6, <1>7, <2>3
<1>8. CASE m > 1
  <2>1. m \in 2..n /\ m - 1 \in 0..n /\ ~(m <= m - 1)
    BY <1>1, <1>6, <1>8
  <2>2. m - 1 \notin T
    <3> HIDE DEF T
    <3> QED
      BY <1>5, <2>1
  <2>3. Arranged(s, turn[m - 1], m - 1)
    BY <2>1, <2>2
  <2>4. Arranged(s, Insert(turn[m - 1], m), m)
    BY <2>1, <2>3, TurnArranges
  <2>5. turn[m] = Insert(turn[m - 1], m)
    BY <1>4, <1>6, <1>8
  <2> QED
    BY <1>6, <2>4, <2>5
<1> QED
  BY <1>1, <1>6, <1>7, <1>8

(* Of two arrangements of the same values in ascending order, the place k  *)
(* splits the values in the same way.                                      *)
LEMMA ArrangedSplits ==
  ASSUME NEW s \in Seq(Int), NEW a, Arranged(s, a, Len(s)), NEW k \in 1..Len(s)
  PROVE  /\ a[k] \in Int
         /\ Cardinality({j \in 1..Len(s) : s[j] < a[k]}) <= k - 1
         /\ Cardinality({j \in 1..Len(s) : s[j] > a[k]}) <= Len(s) - k
<1> DEFINE n == Len(s)
           D == 1..n
           Below == {j \in D : s[j] < a[k]}
           Above == {j \in D : s[j] > a[k]}
<1>1. PICK pi : Rearranges(n, pi) /\ a = [l \in D |-> s[pi[l]]]
  BY DEF Arranged
<1>2. n \in Nat /\ \A l \in D : a[l] \in Int /\ a[l] = s[pi[l]] /\ pi[l] \in D
  <2>1. n \in Nat /\ \A j \in D : s[j] \in Int
    OBVIOUS
  <2>2. \A l \in D : pi[l] \in D /\ a[l] = s[pi[l]]
    BY <1>1 DEF Rearranges
  <2> QED
    BY <2>1, <2>2
<1>3. \A x, y \in D : x <= y => a[x] <= a[y]
  BY DEF Arranged
<1>4. pi \in Surjection(D, D)
  <2>1. IsFiniteSet(D)
    BY FS_Interval
  <2>2. pi \in Injection(D, D)
    BY <1>1 DEF Rearranges, Injection, IsInjective
  <2> HIDE DEF D
  <2> QED
    BY <2>1, <2>2, FS_Injection
<1>5. \A j \in D : \E l \in D : pi[l] = j
  BY <1>4 DEF Surjection
<1>6. ASSUME NEW B \in SUBSET D, NEW C \in SUBSET D,
             \A l \in D : pi[l] \in B => l \in C
      PROVE  Cardinality(B) <= Cardinality(C)
  <2> DEFINE E == {l \in D : pi[l] \in B}
             f == [l \in E |-> pi[l]]
  <2>1. f \in Surjection(E, B)
    BY <1>5 DEF Surjection
  <2>2. E \subseteq C /\ IsFiniteSet(C) /\ IsFiniteSet(E) /\ IsFiniteSet(B)
    <3>1. E \in SUBSET (1..n) /\ C \in SUBSET (1..n) /\ B \in SUBSET (1..n)
          /\ E \subseteq C
      BY <1>6
    <3> QED
      BY ONLY <1>2, <3>1, CountsAreNat
  <2> HIDE DEF E, f, D
  <2>3. Cardinality(B) <= Cardinality(E) /\ Cardinality(E) <= Cardinality(C)
    BY <2>1, <2>2, FS_Surjection, FS_Subset
  <2>4. Cardinality(B) \in Nat /\ Cardinality(E) \in Nat /\ Cardinality(C) \in Nat
    BY <2>2, FS_CardinalityType
  <2> QED
    BY ONLY <2>3, <2>4
<1>7. Cardinality(Below) <= k - 1
  <2> DEFINE C == 1..(k - 1)
  <2>1. k - 1 \in Nat /\ C \in SUBSET D
    BY <1>2
  <2>2. Cardinality(C) = k - 1
    BY <2>1, IntervalCount
  <2>3. ASSUME NEW l \in D, pi[l] \in Below PROVE l \in C
    <3>1. a[l] < a[k] /\ l \in D /\ k \in D
      BY <1>2, <2>3
    <3>2. ~(k <= l)
      BY <1>2, <1>3, <3>1
    <3> QED
      BY <1>2, <3>2
  <2>4. Cardinality(Below) <= Cardinality(C)
    <3>1. Below \in SUBSET D
      OBVIOUS
    <3> HIDE DEF Below, C, D
    <3> QED
      BY <1>6, <2>1, <2>3, <3>1
  <2> QED
    BY <2>2, <2>4
<1>8. Cardinality(Above) <= n - k
  <2> DEFINE C == (k + 1)..n
  <2>1. C \in SUBSET D /\ n \in Int /\ k \in Int /\ k + 1 \in Int /\ k <= n
    BY <1>2
  <2>2. Cardinality(C) = n - k
    <3>1. Cardinality(C) = IF k + 1 > n THEN 0 ELSE n - (k + 1) + 1
      BY <2>1, FS_Interval
    <3> QED
      BY <2>1, <3>1
  <2>3. ASSUME NEW l \in D, pi[l] \in Above PROVE l \in C
    <3>1. a[l] > a[k] /\ l \in D /\ k \in D
      BY <1>2, <2>3
    <3>2. ~(l <= k)
      BY <1>2, <1>3, <3>1
    <3> QED
      BY <1>2, <3>2
  <2>4. Cardinality(Above) <= Cardinality(C)
    <3>1. Above \in SUBSET D
      OBVIOUS
    <3> HIDE DEF Above, C, D
    <3> QED
      BY <1>6, <2>1, <2>3, <3>1
  <2> QED
    BY <2>2, <2>4
<1> QED
  BY <1>2, <1>7, <1>8

(* The contract and the service compute the same value, whatever sort the  *)
(* service's library uses: the comment on Median (aggregate.go:14-18) is   *)
(* right, also about equal prices.                                         *)
THEOREM SortsAgree ==
  ASSUME NEW s \in Seq(Int)
  PROVE  InsertionSort(s) = Sorted(s)
<1> DEFINE n == Len(s)
           a == InsertionSort(s)
<1>1. Arranged(s, a, n) /\ n \in Nat /\ \A i \in 1..n : s[i] \in Int
  BY SortArranges
<1> HIDE DEF a
<1>2. ASSUME NEW k \in 1..n PROVE a[k] = Sorted(s)[k]
  <2> DEFINE D == 1..n
             Below(v) == {j \in D : s[j] < v}
             Above(v) == {j \in D : s[j] > v}
  <2>1. /\ a[k] \in Int
        /\ Cardinality(Below(a[k])) <= k - 1 /\ Cardinality(Above(a[k])) <= n - k
    BY <1>1, ArrangedSplits
  <2>2. PICK i \in D : /\ Sorted(s)[k] = s[i]
                       /\ Cardinality(UpTo(s, i)) = k
                       /\ Cardinality(Below(s[i])) <= k - 1
    BY SortedSplits
  <2> DEFINE U == UpTo(s, i)
  <2>3. i \in U /\ U \subseteq D /\ s[i] \in Int /\ k \in Int
    BY <1>1, UpToBounds
  <2>4. \A v : /\ IsFiniteSet(Below(v)) /\ Cardinality(Below(v)) \in Nat
               /\ IsFiniteSet(Above(v)) /\ Cardinality(Above(v)) \in Nat
    <3> TAKE v
    <3>1. Below(v) \in SUBSET (1..n) /\ Above(v) \in SUBSET (1..n)
      OBVIOUS
    <3> HIDE DEF Below, Above
    <3> QED
      BY <1>1, <3>1, CountsAreNat
  <2>5. CASE s[i] < a[k]
    <3>1. U \subseteq Below(a[k])
      BY <1>1, <2>1, <2>3, <2>5 DEF UpTo
    <3> HIDE DEF U, Below, Above, D
    <3>2. Cardinality(U) <= Cardinality(Below(a[k]))
      BY <2>4, <3>1, FS_Subset
    <3> QED
      BY <2>1, <2>2, <2>3, <2>4, <3>2 DEF U
  <2>6. CASE s[i] > a[k]
    <3>1. D \ Above(a[k]) \subseteq Below(s[i])
      BY <1>1, <2>1, <2>3, <2>6
    <3>2. Above(a[k]) \subseteq D /\ D \cap Above(a[k]) = Above(a[k])
          /\ Above(a[k]) \cap D = Above(a[k])
      OBVIOUS
    <3>3. IsFiniteSet(D) /\ Cardinality(D) = n
      BY <1>1, IntervalCount
    <3> HIDE DEF U, Below, Above, D
    <3>4. Cardinality(D \ Above(a[k])) = n - Cardinality(Above(a[k]))
      <4>1. \/ Cardinality(D \ Above(a[k]))
                = Cardinality(D) - Cardinality(D \cap Above(a[k]))
            \/ Cardinality(D \ Above(a[k]))
                = Cardinality(D) - Cardinality(Above(a[k]) \cap D)
        BY <2>4, <3>3, FS_Difference
      <4> QED
        BY <3>2, <3>3, <4>1
    <3>5. Cardinality(D \ Above(a[k])) <= Cardinality(Below(s[i]))
      BY <2>4, <3>1, FS_Subset
    <3>6. Cardinality(Above(a[k])) \in Nat /\ Cardinality(Below(s[i])) \in Nat
      BY <2>4
    <3> QED
      BY <1>1, <2>1, <2>2, <2>3, <3>4, <3>5, <3>6
  <2>7. CASE s[i] = a[k]
    BY <2>2, <2>7
  <2>8. s[i] < a[k] \/ s[i] > a[k] \/ s[i] = a[k]
    BY <2>1, <2>3
  <2> QED
    BY <2>5, <2>6, <2>7, <2>8
<1>3. a = [k \in 1..n |-> a[k]]
  BY <1>1 DEF Arranged
<1>4. Sorted(s) = [k \in 1..n |-> Sorted(s)[k]]
  BY DEF Sorted
<1> QED
  BY <1>2, <1>3, <1>4 DEF a
(* What a price feed asks of its median: no more than half of the values   *)
(* on either side, and a value or the mean of two.                         *)
Central(s, m) ==
  /\ 2 * Cardinality({i \in 1..Len(s) : s[i] < m}) <= Len(s)
  /\ 2 * Cardinality({i \in 1..Len(s) : s[i] > m}) <= Len(s)
  /\ \E i, j \in 1..Len(s) : m = (s[i] + s[j]) \div 2

(* The middle of the sorted values is central. *)
LEMMA MiddleCentral ==
  ASSUME NEW s \in Seq(Int), Len(s) > 0
  PROVE  Central(s, Middle(Sorted(s)))
<1> DEFINE n == Len(s)
           mid == n \div 2
           Below(m) == {i \in 1..n : s[i] < m}
           Above(m) == {i \in 1..n : s[i] > m}
<1>1. n \in Nat /\ mid \in Nat /\ \A i \in 1..n : s[i] \in Int
  OBVIOUS
<1>5. Len(Sorted(s)) = n
  BY <1>1 DEF Sorted
<1>0. \A m : /\ Cardinality(Below(m)) \in Nat /\ IsFiniteSet(Below(m))
             /\ Cardinality(Above(m)) \in Nat /\ IsFiniteSet(Above(m))
  <2> TAKE m
  <2>1. Below(m) \in SUBSET (1..n) /\ Above(m) \in SUBSET (1..n)
    OBVIOUS
  <2> HIDE DEF Below, Above, n
  <2> QED
    BY <1>1, <2>1, CountsAreNat
<1>2. CASE n % 2 = 1
  <2>1. n = 2 * mid + 1 /\ mid + 1 \in 1..n
    BY <1>1, <1>2
  <2>2. PICK i \in 1..n : /\ Sorted(s)[mid + 1] = s[i]
                          /\ Cardinality(Below(s[i])) <= (mid + 1) - 1
                          /\ Cardinality(Above(s[i])) <= n - (mid + 1)
    BY <2>1, SortedSplits
  <2>3. Middle(Sorted(s)) = s[i]
    BY <1>2, <1>5, <2>2 DEF Middle
  <2>4. s[i] = (s[i] + s[i]) \div 2
    BY <1>1
  <2>5. Cardinality(Below(s[i])) \in Nat /\ Cardinality(Above(s[i])) \in Nat
    BY <1>0
  <2>6. /\ 2 * Cardinality(Below(s[i])) <= n
        /\ 2 * Cardinality(Above(s[i])) <= n
    <3> HIDE DEF Below, Above, n, mid
    <3> QED
      BY <1>1, <2>1, <2>2, <2>5
  <2> QED
    BY <2>3, <2>4, <2>6 DEF Central
<1>3. CASE n % 2 # 1
  <2>1. n = 2 * mid /\ mid \in 1..n /\ mid + 1 \in 1..n
    BY <1>1, <1>3
  <2>2. PICK i \in 1..n : /\ Sorted(s)[mid] = s[i]
                          /\ Cardinality(UpTo(s, i)) = mid
                          /\ Cardinality(Above(s[i])) <= n - mid
    BY <2>1, SortedSplits
  <2>3. PICK j \in 1..n : /\ Sorted(s)[mid + 1] = s[j]
                          /\ Cardinality(UpTo(s, j)) = mid + 1
                          /\ Cardinality(Below(s[j])) <= (mid + 1) - 1
    BY <2>1, SortedSplits
  <2> DEFINE m == (s[i] + s[j]) \div 2
  <2>4. Middle(Sorted(s)) = m
    BY <1>3, <1>5, <2>2, <2>3 DEF Middle
  <2>5. s[i] <= s[j]
    <3> SUFFICES ASSUME s[j] < s[i] PROVE FALSE
      BY <1>1
    <3>1. Cardinality(UpTo(s, j)) < Cardinality(UpTo(s, i))
      BY UpToGrows
    <3> HIDE DEF mid
    <3> QED
      BY <1>1, <2>2, <2>3, <3>1
  <2>6. m \in Int /\ s[i] <= m /\ m <= s[j]
    <3>1. s[i] \in Int /\ s[j] \in Int
      BY <1>1
    <3> QED
      BY <2>5, <3>1
  <2> HIDE DEF m
  <2>7. Below(m) \subseteq Below(s[j]) /\ Above(m) \subseteq Above(s[i])
    <3>1. ASSUME NEW k \in 1..n
          PROVE  (s[k] < m => s[k] < s[j]) /\ (s[k] > m => s[k] > s[i])
      <4>1. s[k] \in Int /\ s[i] \in Int /\ s[j] \in Int
        BY <1>1
      <4> QED
        BY ONLY <2>6, <4>1
    <3> QED
      BY <3>1
  <2>8. /\ Cardinality(Below(m)) \in Nat /\ Cardinality(Above(m)) \in Nat
        /\ IsFiniteSet(Below(s[j])) /\ Cardinality(Below(s[j])) \in Nat
        /\ IsFiniteSet(Above(s[i])) /\ Cardinality(Above(s[i])) \in Nat
    BY <1>0
  <2>9. /\ 2 * Cardinality(Below(m)) <= n
        /\ 2 * Cardinality(Above(m)) <= n
    <3> HIDE DEF Below, Above, n, mid
    <3>1. /\ Cardinality(Below(m)) <= Cardinality(Below(s[j]))
          /\ Cardinality(Above(m)) <= Cardinality(Above(s[i]))
      BY <2>7, <2>8, FS_Subset
    <3>2. Cardinality(Below(s[j])) <= mid
      BY <1>1, <2>3
    <3>3. n \in Nat /\ mid \in Nat /\ Cardinality(Above(s[i])) <= n - mid
      BY <1>1, <2>2
    <3>4. Cardinality(Below(m)) \in Nat /\ Cardinality(Above(m)) \in Nat
      BY ONLY <2>8
    <3>5. Cardinality(Below(s[j])) \in Nat /\ Cardinality(Above(s[i])) \in Nat
      BY ONLY <2>8
    <3>6. 2 * Cardinality(Below(m)) <= n
      BY ONLY <2>1, <3>1, <3>2, <3>3, <3>4, <3>5
    <3>7. 2 * Cardinality(Above(m)) <= n
      BY ONLY <2>1, <3>1, <3>3, <3>4, <3>5
    <3> QED
      BY <3>6, <3>7
  <2>10. \E a, b \in 1..n : m = (s[a] + s[b]) \div 2
    BY DEF m
  <2> QED
    BY <2>4, <2>9, <2>10 DEF Central
<1> QED
  BY <1>2, <1>3

(* The median of the contract and that of the service are central,         *)
(* whatever the values and the order they arrived in.                      *)
LEMMA MedianCentral ==
  ASSUME NEW s \in Seq(Int), Len(s) > 0
  PROVE  Central(s, Median(s)) /\ Central(s, ServiceMedian(s))
BY MiddleCentral, SortsAgree DEF Median, ServiceMedian

(* Of the positions of a sequence, all but one at the most. *)
LEMMA AllButOne ==
  ASSUME NEW n \in Nat, NEW A \in SUBSET (1..n),
         \A i, j \in (1..n) \ A : i = j
  PROVE  Cardinality(A) \in Nat /\ Cardinality(A) >= n - 1
<1> DEFINE D == 1..n
<1>1. IsFiniteSet(D) /\ Cardinality(D) = n
  BY IntervalCount
<1>2. Cardinality(A) \in Nat
  BY CountsAreNat
<1>3. CASE D \ A = {}
  <2>1. A = D
    BY <1>3
  <2> HIDE DEF D
  <2> QED
    BY <1>1, <1>2, <2>1
<1>4. CASE D \ A # {}
  <2>1. PICK i \in D : i \notin A
    BY <1>4
  <2>2. A = D \ {i}
    BY <2>1
  <2> HIDE DEF D
  <2>3. Cardinality(A) = n - 1
    BY <1>1, <2>1, <2>2, FS_RemoveElement
  <2> QED
    BY <1>2, <2>3
<1> QED
  BY <1>3, <1>4

(* Three values or more, all but one of them given by a function on S \ {c}:*)
(* a value in the middle lies between two of those, whatever that one is.  *)
LEMMA OneOfThree ==
  ASSUME NEW F, NEW S, NEW c, NEW l, NEW m \in Int,
         \A x \in S : F[x] \in Int,
         ListsOnce(l, F, S), Cardinality(S) >= 3, Central(l, m)
  PROVE  \E x, y \in S \ {c} : F[x] <= m /\ m <= F[y]
<1> DEFINE n == Len(l)
           D == 1..n
           Below == {i \in D : l[i] < m}
           Above == {i \in D : l[i] > m}
<1>1. PICK h \in [D -> S] :
        /\ \A i, j \in D : h[i] = h[j] => i = j
        /\ \A i \in D : l[i] = F[h[i]]
  BY DEF ListsOnce
<1>2. n \in Nat /\ n >= 3
  BY DEF ListsOnce
<1>3. 2 * Cardinality(Below) <= n /\ 2 * Cardinality(Above) <= n
  BY DEF Central
<1> HIDE DEF n
<1>4. ASSUME NEW A \in SUBSET D, 2 * Cardinality(A) <= n,
             \A i \in D : i \notin A => h[i] = c
      PROVE  FALSE
  <2>1. \A i, j \in D \ A : i = j
    BY <1>1, <1>4
  <2>2. Cardinality(A) \in Nat /\ Cardinality(A) >= n - 1
    BY <1>2, <2>1, AllButOne
  <2> QED
    BY <1>2, <1>4, <2>2
<1>5. \E x \in S \ {c} : F[x] <= m
  <2> SUFFICES ASSUME \A x \in S \ {c} : F[x] > m PROVE FALSE
    <3>1. \A x \in S \ {c} : F[x] \in Int
      OBVIOUS
    <3> QED
      BY <3>1
  <2>1. \A i \in D : i \notin Above => h[i] = c
    BY <1>1
  <2> QED
    BY <1>3, <1>4, <2>1
<1>6. \E y \in S \ {c} : m <= F[y]
  <2> SUFFICES ASSUME \A x \in S \ {c} : F[x] < m PROVE FALSE
    <3>1. \A x \in S \ {c} : F[x] \in Int
      OBVIOUS
    <3> QED
      BY <3>1
  <2>1. \A i \in D : i \notin Below => h[i] = c
    BY <1>1
  <2> QED
    BY <1>3, <1>4, <2>1
<1> QED
  BY <1>5, <1>6

---------------------------------------------------------------------------
(* The chain readers. *)

(* Sequences. *)

(* A set of numbers that is not empty has a least one. *)
LEMMA LeastOf ==
  ASSUME NEW T \in SUBSET Nat, T # {}
  PROVE  \E n \in T : \A m \in T : n <= m
<1>1. PICK x \in T : TRUE
  OBVIOUS
<1>2. \A y \in T : Min(T) \in T /\ Min(T) <= y
  BY LowestIsLeast
<1> QED
  BY <1>1, <1>2

(* A function on lo..hi that is given on stop and elsewhere derived from   *)
(* its value p places earlier.                                             *)
Derived(f, lo, hi, stop, w, g, p) ==
  \A n \in lo..hi : f[n] = IF n \in stop THEN w[n] ELSE g[n][f[n - p]]

LEMMA RecursionExists ==
  ASSUME NEW lo \in Nat, NEW hi \in Nat, NEW X, NEW stop,
         NEW w, \A n \in lo..hi : n \in stop => w[n] \in X,
         NEW g, \A n \in lo..hi : n \notin stop => \A x \in X : g[n][x] \in X,
         NEW p \in Nat \ {0},
         \A n \in lo..hi : n \notin stop => n - p >= lo
  PROVE  \E f \in [lo..hi -> X] : Derived(f, lo, hi, stop, w, g, p)
<1> DEFINE Good(m) == \E f \in [lo..m -> X] : Derived(f, lo, m, stop, w, g, p)
           T == {m \in lo..hi : ~ Good(m)}
<1>1. CASE hi < lo
  <2>1. lo..hi = {}
    BY <1>1
  <2>2. [n \in lo..hi |-> 0] \in [lo..hi -> X]
    BY <2>1
  <2> QED
    BY <2>1, <2>2 DEF Derived
<1>2. CASE lo <= hi
  <2>1. SUFFICES ASSUME T # {} PROVE FALSE
    <3>1. hi \in lo..hi
      BY <1>2
    <3> QED
      BY <3>1
  <2>2. T \in SUBSET Nat
    OBVIOUS
  <2>3. PICK m \in T : \A k \in T : m <= k
    <3> HIDE DEF T
    <3> QED
      BY <2>1, <2>2, LeastOf
  <2>4. m \in lo..hi /\ m \in Nat
    BY <2>2
  <2>5. \E f : f \in [lo..(m - 1) -> X] /\ Derived(f, lo, m - 1, stop, w, g, p)
    <3>1. CASE m = lo
      <4>1. lo..(m - 1) = {}
        BY <2>4, <3>1
      <4>2. [n \in lo..(m - 1) |-> 0] \in [lo..(m - 1) -> X]
        BY <4>1
      <4> QED
        BY <4>1, <4>2 DEF Derived
    <3>2. CASE m # lo
      <4>1. m - 1 \in lo..hi /\ ~ (m <= m - 1)
        BY <2>4, <3>2
      <4>2. m - 1 \notin T
        BY <2>3, <4>1
      <4> QED
        BY <4>1, <4>2
    <3> QED
      BY <3>1, <3>2
  <2>6. PICK f : f \in [lo..(m - 1) -> X] /\ Derived(f, lo, m - 1, stop, w, g, p)
    BY <2>5
  <2> DEFINE v == IF m \in stop THEN w[m] ELSE g[m][f[m - p]]
             h == [n \in lo..m |-> IF n = m THEN v ELSE f[n]]
  <2>7. v \in X
    <3>1. m \notin stop => m - p \in lo..(m - 1)
      BY <2>4
    <3>2. m \notin stop => f[m - p] \in X
      BY <2>6, <3>1
    <3> QED
      BY <2>4, <3>2
  <2>8. \A n \in lo..m : n # m => n \in lo..(m - 1)
    BY <2>4
  <2>9. h \in [lo..m -> X]
    <3> HIDE DEF v
    <3> QED
      BY <2>6, <2>7, <2>8
  <2>10. ASSUME NEW n \in lo..m
         PROVE  h[n] = IF n \in stop THEN w[n] ELSE g[n][h[n - p]]
    <3>1. n \notin stop => n - p \in lo..m /\ n - p # m
      BY <2>4
    <3>2. n \notin stop => h[n - p] = f[n - p]
      BY <3>1
    <3>3. CASE n = m
      BY <3>2, <3>3
    <3>4. CASE n # m
      <4>1. h[n] = f[n]
        BY <3>4
      <4>2. n \in lo..(m - 1)
        BY <2>8, <3>4
      <4>3. f[n] = IF n \in stop THEN w[n] ELSE g[n][f[n - p]]
        BY <2>6, <4>2 DEF Derived
      <4> QED
        BY <3>2, <4>1, <4>3
    <3> QED
      BY <3>3, <3>4
  <2>11. Good(m)
    <3> HIDE DEF h
    <3> QED
      BY <2>9, <2>10 DEF Derived
  <2> QED
    BY <2>3, <2>11
<1> QED
  BY <1>1, <1>2

---------------------------------------------------------------------------
(* What Picked unfolds to. *)
Picking(f, s, S) ==
  f = [n \in 0..Len(s) |->
         IF n = 0 THEN <<>>
         ELSE IF s[n] \in S THEN Append(f[n - 1], s[n]) ELSE f[n - 1]]

(* The elements of r are those of s at the places g, which grow.           *)
Places(g, r, s, n) ==
  /\ g \in [1..Len(r) -> 1..n]
  /\ \A a \in 1..Len(r) : r[a] = s[g[a]]
  /\ \A a, b \in 1..Len(r) : a < b => g[a] < g[b]

(* r is the elements of the first n of s that are in S, in their order.    *)
Selects(g, r, s, S, n) ==
  /\ Places(g, r, s, n)
  /\ \A a \in 1..Len(r) : r[a] \in S
  /\ \A i \in 1..n : s[i] \in S => \E a \in 1..Len(r) : g[a] = i

LEMMA PickingExists ==
  ASSUME NEW X, NEW s \in Seq(X), NEW S
  PROVE  \E f : Picking(f, s, S)
<1> DEFINE N == Len(s)
           w == [n \in {0} |-> <<>>]
           g == [n \in 1..N |-> [x \in Seq(X) |->
                   IF s[n] \in S THEN Append(x, s[n]) ELSE x]]
<1>1. N \in Nat
  OBVIOUS
<1>2. \A n \in 0..N : n \notin {0} => n \in 1..N /\ n - 1 >= 0 /\ n - 1 \in 0..N
  BY <1>1
<1>3. \A n \in 0..N : n \in {0} => w[n] \in Seq(X)
  OBVIOUS
<1>4. \A n \in 1..N : \A x \in Seq(X) :
        g[n][x] = IF s[n] \in S THEN Append(x, s[n]) ELSE x
  OBVIOUS
<1>5. \A n \in 1..N : \A x \in Seq(X) : g[n][x] \in Seq(X)
  BY <1>4
<1>6. \E f \in [0..N -> Seq(X)] : Derived(f, 0, N, {0}, w, g, 1)
  <2>1. \A n \in 0..N : n \notin {0} => \A x \in Seq(X) : g[n][x] \in Seq(X)
    BY <1>2, <1>5
  <2>2. 0 \in Nat /\ 1 \in Nat \ {0}
    OBVIOUS
  <2> HIDE DEF N, w, g
  <2> QED
    BY <1>1, <1>2, <1>3, <2>1, <2>2, RecursionExists
<1>7. PICK f \in [0..N -> Seq(X)] : Derived(f, 0, N, {0}, w, g, 1)
  BY <1>6
<1>8. ASSUME NEW n \in 0..N
      PROVE  f[n] = IF n = 0 THEN <<>>
                    ELSE IF s[n] \in S THEN Append(f[n - 1], s[n]) ELSE f[n - 1]
  <2>1. f[n] = IF n \in {0} THEN w[n] ELSE g[n][f[n - 1]]
    <3> HIDE DEF w, g
    <3> QED
      BY <1>7 DEF Derived
  <2>2. n # 0 => f[n - 1] \in Seq(X)
    <3>1. n # 0 => n - 1 \in 0..N
      BY <1>2
    <3> HIDE DEF N, w, g
    <3> QED
      BY <1>7, <3>1
  <2>3. n # 0 => n \in 1..N
    BY <1>1
  <2>4. n # 0 => g[n][f[n - 1]] = IF s[n] \in S THEN Append(f[n - 1], s[n]) ELSE f[n - 1]
    <3> HIDE DEF g
    <3> QED
      BY <1>4, <2>2, <2>3
  <2>5. w[0] = <<>>
    OBVIOUS
  <2> HIDE DEF w, g
  <2> QED
    BY <2>1, <2>4, <2>5
<1> QED
  BY <1>7, <1>8 DEF Picking

LEMMA PickingSelects ==
  ASSUME NEW X, NEW s \in Seq(X), NEW S, NEW f, Picking(f, s, S), NEW n \in 0..Len(s)
  PROVE  f[n] \in Seq(X) /\ \E g : Selects(g, f[n], s, S, n)
<1>0. \A k \in 0..Len(s) :
        f[k] = IF k = 0 THEN <<>>
               ELSE IF s[k] \in S THEN Append(f[k - 1], s[k]) ELSE f[k - 1]
  BY Zenon DEF Picking
<1> DEFINE Good(m) == f[m] \in Seq(X) /\ \E g : Selects(g, f[m], s, S, m)
           T == {m \in 0..Len(s) : ~ Good(m)}
<1>1. SUFFICES ASSUME T # {} PROVE FALSE
  OBVIOUS
<1>2. T \in SUBSET Nat
  OBVIOUS
<1>3. PICK m \in T : \A k \in T : m <= k
  <2> HIDE DEF T
  <2> QED
    BY <1>1, <1>2, LeastOf
<1>4. m \in 0..Len(s) /\ Len(s) \in Nat
  OBVIOUS
<1>5. CASE m = 0
  <2>1. f[m] = <<>>
    BY <1>0, <1>4, <1>5
  <2>2. Selects([a \in 1..0 |-> 0], f[m], s, S, m)
    BY <1>5, <2>1 DEF Selects, Places
  <2>3. f[m] \in Seq(X)
    BY <2>1, EmptySeq
  <2> QED
    BY <2>2, <2>3
<1>6. CASE m # 0
  <2> DEFINE r == f[m - 1]
             q == f[m]
  <2>1. m - 1 \in 0..Len(s) /\ ~ (m <= m - 1) /\ m \in 1..Len(s)
    BY <1>4, <1>6
  <2>2. Good(m - 1)
    BY <1>3, <2>1
  <2>3. q = IF s[m] \in S THEN Append(r, s[m]) ELSE r
    BY <1>0, <1>6, <2>1
  <2>4. PICK g : Selects(g, r, s, S, m - 1)
    BY <2>2
  <2>5. r \in Seq(X) /\ s[m] \in X /\ Len(r) \in Nat
    BY <2>1, <2>2
  <2> HIDE DEF r, q
  <2>6. /\ g \in [1..Len(r) -> 1..(m - 1)]
        /\ \A a \in 1..Len(r) : r[a] = s[g[a]] /\ r[a] \in S
        /\ \A a, b \in 1..Len(r) : a < b => g[a] < g[b]
        /\ \A i \in 1..(m - 1) : s[i] \in S => \E a \in 1..Len(r) : g[a] = i
    BY <2>4 DEF Selects, Places
  <2>7. \A a \in 1..Len(r) : g[a] \in 1..m /\ g[a] < m
    BY <1>4, <2>6
  <2>8. CASE s[m] \notin S
    <3>1. q = r
      BY <2>3, <2>8
    <3>2. g \in [1..Len(r) -> 1..m]
      BY <2>6, <2>7
    <3>3. \A i \in 1..m : s[i] \in S => \E a \in 1..Len(r) : g[a] = i
      <4>1. \A i \in 1..m : i = m \/ i \in 1..(m - 1)
        BY <1>4
      <4> QED
        BY <2>6, <2>8, <4>1
    <3>4. Selects(g, q, s, S, m)
      BY <2>6, <3>1, <3>2, <3>3 DEF Selects, Places
    <3> QED
      BY <2>5, <3>1, <3>4 DEF q
  <2>9. CASE s[m] \in S
    <3> DEFINE h == [a \in 1..(Len(r) + 1) |-> IF a = Len(r) + 1 THEN m ELSE g[a]]
    <3>1. /\ q \in Seq(X) /\ Len(q) = Len(r) + 1
          /\ \A a \in 1..Len(r) : q[a] = r[a]
          /\ q[Len(r) + 1] = s[m]
      BY <2>3, <2>5, <2>9, AppendProperties
    <3>2. \A a \in 1..(Len(r) + 1) : a # Len(r) + 1 => a \in 1..Len(r)
      BY <2>5
    <3>3. h \in [1..(Len(r) + 1) -> 1..m]
      BY <2>1, <2>7, <3>2
    <3>4. \A a \in 1..(Len(r) + 1) : q[a] = s[h[a]] /\ q[a] \in S
      BY <2>6, <2>9, <3>1, <3>2
    <3>5. ASSUME NEW a \in 1..(Len(r) + 1), NEW b \in 1..(Len(r) + 1), a < b
          PROVE  h[a] < h[b]
      <4>1. a \in 1..Len(r)
        BY <2>5, <3>5
      <4>2. h[a] = g[a]
        BY <2>5, <4>1
      <4>3. CASE b = Len(r) + 1
        BY <2>7, <4>1, <4>2, <4>3
      <4>4. CASE b # Len(r) + 1
        BY <2>6, <3>2, <3>5, <4>1, <4>2, <4>4
      <4> QED
        BY <4>3, <4>4
    <3>6. \A i \in 1..m : s[i] \in S => \E a \in 1..(Len(r) + 1) : h[a] = i
      <4>1. ASSUME NEW i \in 1..m, s[i] \in S PROVE \E a \in 1..(Len(r) + 1) : h[a] = i
        <5>1. CASE i = m
          <6>1. Len(r) + 1 \in 1..(Len(r) + 1) /\ h[Len(r) + 1] = i
            BY <2>5, <5>1
          <6> QED
            BY <6>1
        <5>2. CASE i # m
          <6>1. i \in 1..(m - 1)
            BY <1>4, <5>2
          <6>2. PICK a \in 1..Len(r) : g[a] = i
            BY <2>6, <4>1, <6>1
          <6>3. a \in 1..(Len(r) + 1) /\ h[a] = i
            BY <2>5, <6>2
          <6> QED
            BY <6>3
        <5> QED
          BY <5>1, <5>2
      <4> QED
        BY <4>1
    <3>7. Selects(h, q, s, S, m)
      <4> HIDE DEF h
      <4> QED
        BY <3>1, <3>3, <3>4, <3>5, <3>6 DEF Selects, Places
    <3> QED
      BY <3>1, <3>7 DEF q
  <2> QED
    BY <2>8, <2>9
<1> QED
  BY <1>5, <1>6

(* Picked returns the members that are in the set, each place of the       *)
(* sequence once, in their order.                                          *)
LEMMA PickedSelects ==
  ASSUME NEW X, NEW s \in Seq(X), NEW S
  PROVE  Picked(s, S) \in Seq(X) /\ \E g : Selects(g, Picked(s, S), s, S, Len(s))
<1> DEFINE F == CHOOSE f : Picking(f, s, S)
<1>1. Picking(F, s, S)
  BY PickingExists
<1>2. Picked(s, S) = F[Len(s)]
  BY DEF Picked, Picking
<1>3. Len(s) \in 0..Len(s)
  OBVIOUS
<1> HIDE DEF F
<1> QED
  BY <1>1, <1>2, <1>3, PickingSelects

---------------------------------------------------------------------------
(* What FlattenSeq unfolds to. *)
Joining(f, s) ==
  f = [i \in 1..Len(s) |-> IF i = 1 THEN s[i] ELSE f[i - 1] \o s[i]]

(* One place of a list of sequences comes before another.                  *)
Before(i, j, k, l) == i < k \/ (i = k /\ j < l)

(* r is the first n sequences of s, one after the other: its elements are  *)
(* those at the places h of the sequences g.                               *)
Joins(g, h, r, s, n) ==
  /\ g \in [1..Len(r) -> 1..n]
  /\ h \in [1..Len(r) -> Nat]
  /\ \A a \in 1..Len(r) : h[a] \in 1..Len(s[g[a]]) /\ r[a] = s[g[a]][h[a]]
  /\ \A a, b \in 1..Len(r) : a < b => Before(g[a], h[a], g[b], h[b])
  /\ \A i \in 1..n : \A j \in 1..Len(s[i]) : \E a \in 1..Len(r) : g[a] = i /\ h[a] = j

LEMMA JoiningExists ==
  ASSUME NEW X, NEW s \in Seq(Seq(X))
  PROVE  \E f : Joining(f, s)
<1> DEFINE N == Len(s)
           w == [n \in {1} |-> s[1]]
           g == [n \in 1..N |-> [x \in Seq(X) |-> x \o s[n]]]
<1>1. N \in Nat
  OBVIOUS
<1>2. \A n \in 1..N : n \notin {1} => n - 1 >= 1 /\ n - 1 \in 1..N
  BY <1>1
<1>3. \A n \in 1..N : n \in {1} => w[n] \in Seq(X)
  OBVIOUS
<1>4. \A n \in 1..N : \A x \in Seq(X) : g[n][x] = x \o s[n]
  OBVIOUS
<1>5. \A n \in 1..N : \A x \in Seq(X) : g[n][x] \in Seq(X)
  <2>1. \A n \in 1..N : s[n] \in Seq(X)
    OBVIOUS
  <2> HIDE DEF g, N
  <2> QED
    BY <1>4, <2>1, ConcatProperties, ZenonT(60)
<1>6. \E f \in [1..N -> Seq(X)] : Derived(f, 1, N, {1}, w, g, 1)
  <2>1. \A n \in 1..N : n \notin {1} => \A x \in Seq(X) : g[n][x] \in Seq(X)
    BY <1>5
  <2>2. 1 \in Nat /\ 1 \in Nat \ {0}
    OBVIOUS
  <2> HIDE DEF N, w, g
  <2> QED
    BY <1>1, <1>2, <1>3, <2>1, <2>2, RecursionExists
<1>7. PICK f \in [1..N -> Seq(X)] : Derived(f, 1, N, {1}, w, g, 1)
  BY <1>6
<1>8. ASSUME NEW n \in 1..N
      PROVE  f[n] = IF n = 1 THEN s[n] ELSE f[n - 1] \o s[n]
  <2>1. f[n] = IF n \in {1} THEN w[n] ELSE g[n][f[n - 1]]
    <3> HIDE DEF w, g
    <3> QED
      BY <1>7 DEF Derived
  <2>2. n # 1 => f[n - 1] \in Seq(X)
    <3>1. n # 1 => n - 1 \in 1..N
      BY <1>2
    <3> HIDE DEF N, w, g
    <3> QED
      BY <1>7, <3>1
  <2>3. n # 1 => g[n][f[n - 1]] = f[n - 1] \o s[n]
    <3> HIDE DEF g
    <3> QED
      BY <1>4, <2>2
  <2>4. w[1] = s[1]
    OBVIOUS
  <2> HIDE DEF w, g
  <2> QED
    BY <2>1, <2>3, <2>4
<1> QED
  BY <1>7, <1>8 DEF Joining

LEMMA JoiningJoins ==
  ASSUME NEW X, NEW s \in Seq(Seq(X)), NEW f, Joining(f, s), NEW n \in 1..Len(s)
  PROVE  f[n] \in Seq(X) /\ \E g, h : Joins(g, h, f[n], s, n)
<1>0. \A k \in 1..Len(s) : f[k] = IF k = 1 THEN s[k] ELSE f[k - 1] \o s[k]
  BY Zenon DEF Joining
<1> DEFINE Good(m) == f[m] \in Seq(X) /\ \E g, h : Joins(g, h, f[m], s, m)
           T == {m \in 1..Len(s) : ~ Good(m)}
<1>1. SUFFICES ASSUME T # {} PROVE FALSE
  OBVIOUS
<1>2. T \in SUBSET Nat
  OBVIOUS
<1>3. PICK m \in T : \A k \in T : m <= k
  <2> HIDE DEF T
  <2> QED
    BY <1>1, <1>2, LeastOf
<1>4. m \in 1..Len(s) /\ Len(s) \in Nat /\ s[m] \in Seq(X) /\ Len(s[m]) \in Nat
  OBVIOUS
<1>5. CASE m = 1
  <2>1. f[m] = s[m]
    BY <1>0, <1>4, <1>5
  <2>2. Joins([a \in 1..Len(s[m]) |-> m], [a \in 1..Len(s[m]) |-> a], s[m], s, m)
    BY <1>4, <1>5 DEF Joins, Before
  <2>3. f[m] \in Seq(X)
    BY <1>4, <2>1
  <2> QED
    BY <2>1, <2>2, <2>3
<1>6. CASE m # 1
  <2> DEFINE r == f[m - 1]
             q == f[m]
             t == s[m]
             K == Len(r)
             M == Len(t)
  <2>1. m - 1 \in 1..Len(s) /\ ~ (m <= m - 1)
    BY <1>4, <1>6
  <2>2. Good(m - 1)
    BY <1>3, <2>1
  <2>3. q = r \o t
    BY <1>0, <1>4, <1>6, <2>1
  <2>4. PICK g, h : Joins(g, h, r, s, m - 1)
    BY <2>2
  <2>5. r \in Seq(X) /\ t \in Seq(X) /\ K \in Nat /\ M \in Nat
    BY <1>4, <2>2
  <2>6. /\ q \in Seq(X) /\ Len(q) = K + M
        /\ \A a \in 1..(K + M) : q[a] = IF a <= K THEN r[a] ELSE t[a - K]
    <3> HIDE DEF r, q, t
    <3> QED
      BY <2>3, <2>5, ConcatProperties
  <2> DEFINE G == [a \in 1..(K + M) |-> IF a <= K THEN g[a] ELSE m]
             H == [a \in 1..(K + M) |-> IF a <= K THEN h[a] ELSE a - K]
  <2>7. /\ g \in [1..K -> 1..(m - 1)]
        /\ h \in [1..K -> Nat]
        /\ \A a \in 1..K : h[a] \in 1..Len(s[g[a]]) /\ r[a] = s[g[a]][h[a]]
        /\ \A a, b \in 1..K : a < b => Before(g[a], h[a], g[b], h[b])
        /\ \A i \in 1..(m - 1) : \A j \in 1..Len(s[i]) :
             \E a \in 1..K : g[a] = i /\ h[a] = j
    BY <2>4 DEF Joins
  <2>8. \A a \in 1..(K + M) : (a <= K => a \in 1..K) /\ (~ (a <= K) => a - K \in 1..M)
    <3> HIDE DEF K, M
    <3> QED
      BY <2>5
  <2>9. \A a \in 1..K : g[a] \in 1..m /\ g[a] < m
    <3> HIDE DEF K, M
    <3> QED
      BY <1>4, <2>7
  <2> HIDE DEF r, q, t, K, M
  <2>10. G \in [1..(K + M) -> 1..m] /\ H \in [1..(K + M) -> Nat]
    <3>1. m \in 1..m
      BY <1>4
    <3> QED
      BY <2>7, <2>8, <2>9, <3>1
  <2>11. ASSUME NEW a \in 1..(K + M)
         PROVE  H[a] \in 1..Len(s[G[a]]) /\ q[a] = s[G[a]][H[a]]
    <3>1. CASE a <= K
      BY <2>6, <2>7, <2>8, <3>1
    <3>2. CASE ~ (a <= K)
      BY <2>6, <2>8, <3>2 DEF t, M
    <3> QED
      BY <3>1, <3>2
  <2>12. ASSUME NEW a \in 1..(K + M), NEW b \in 1..(K + M), a < b
         PROVE  Before(G[a], H[a], G[b], H[b])
    <3>1. CASE b <= K
      <4>1. a <= K
        BY <2>5, <2>12, <3>1
      <4> QED
        BY <2>7, <2>8, <2>12, <3>1, <4>1
    <3>2. CASE ~ (b <= K) /\ a <= K
      BY <2>8, <2>9, <3>2 DEF Before
    <3>3. CASE ~ (b <= K) /\ ~ (a <= K)
      BY <2>5, <2>12, <3>3 DEF Before
    <3> QED
      BY <3>1, <3>2, <3>3
  <2>13. ASSUME NEW i \in 1..m, NEW j \in 1..Len(s[i])
         PROVE  \E a \in 1..(K + M) : G[a] = i /\ H[a] = j
    <3>1. CASE i = m
      <4>1. j \in 1..M
        BY <3>1 DEF M, t
      <4>2. j + K \in 1..(K + M) /\ ~ (j + K <= K) /\ (j + K) - K = j
        BY <2>5, <4>1
      <4>3. G[j + K] = m /\ H[j + K] = j
        BY <4>2
      <4> QED
        BY <3>1, <4>2, <4>3
    <3>2. CASE i # m
      <4>1. i \in 1..(m - 1)
        BY <1>4, <3>2
      <4>2. PICK a \in 1..K : g[a] = i /\ h[a] = j
        BY <2>7, <4>1
      <4>3. a \in 1..(K + M) /\ a <= K
        BY <2>5
      <4>4. G[a] = i /\ H[a] = j
        BY <4>2, <4>3
      <4> QED
        BY <4>3, <4>4
    <3> QED
      BY <3>1, <3>2
  <2>14. Joins(G, H, q, s, m)
    <3> HIDE DEF G, H
    <3> QED
      BY <2>6, <2>10, <2>11, <2>12, <2>13 DEF Joins
  <2> QED
    BY <2>6, <2>14 DEF q
<1> QED
  BY <1>5, <1>6

(* FlattenSeq returns every element of every sequence, in the order of     *)
(* the sequences and of the elements in each.                              *)
LEMMA FlattenJoins ==
  ASSUME NEW X, NEW s \in Seq(Seq(X))
  PROVE  FlattenSeq(s) \in Seq(X) /\ \E g, h : Joins(g, h, FlattenSeq(s), s, Len(s))
<1>1. CASE Len(s) = 0
  <2>1. s = <<>> /\ FlattenSeq(s) = <<>>
    BY <1>1, EmptySeq DEF FlattenSeq
  <2>2. Joins([a \in 1..0 |-> 0], [a \in 1..0 |-> 0], <<>>, <<>>, 0)
    BY DEF Joins
  <2> QED
    BY <2>1, <2>2, EmptySeq
<1>2. CASE Len(s) # 0
  <2> DEFINE F == CHOOSE f : Joining(f, s)
  <2>1. Joining(F, s)
    BY JoiningExists
  <2>2. FlattenSeq(s) = F[Len(s)]
    BY <1>2 DEF FlattenSeq, Joining
  <2>3. Len(s) \in 1..Len(s)
    BY <1>2
  <2> HIDE DEF F
  <2> QED
    BY <2>1, <2>2, <2>3, JoiningJoins
<1> QED
  BY <1>1, <1>2

---------------------------------------------------------------------------
(* The readers. *)

(* Transactions in the order of their blocks, each with a list of events.  *)
Readable(L) ==
  /\ \E R : L \in Seq(R)
  /\ \A i \in 1..Len(L) : L[i].slot \in Nat /\ \E R : L[i].events \in Seq(R)
  /\ \A i, j \in 1..Len(L) : i < j => L[i].slot <= L[j].slot

(* The events a reader is asked for, by place. *)
Wanted(L, i, j, first, last, names) ==
  /\ i \in 1..Len(L) /\ L[i].ok /\ L[i].slot \in first..last
  /\ j \in 1..Len(L[i].events) /\ L[i].events[j].name \in names

(* r is all of them and nothing else. *)
Exact(r, L, first, last, names) ==
  /\ \E R : r \in Seq(R)
  /\ \A a \in 1..Len(r) : \E i, j : Wanted(L, i, j, first, last, names) /\ r[a] = Decode(L, i, j)
  /\ \A i, j : Wanted(L, i, j, first, last, names) =>
       \E a \in 1..Len(r) : r[a] = Decode(L, i, j)

LEMMA LengthIsNat == \A L : (\E R : L \in Seq(R)) => Len(L) \in Nat /\ DOMAIN L = 1..Len(L)
OBVIOUS

(* The numbers 1..N that are in S, the lowest first. *)
LEMMA PickedNumbers ==
  ASSUME NEW N \in Nat, NEW S, NEW s \in [1..N -> 1..N], \A i \in 1..N : s[i] = i
  PROVE  /\ Picked(s, S) \in Seq(1..N)
         /\ \A a \in 1..Len(Picked(s, S)) : Picked(s, S)[a] \in S
         /\ \A a, b \in 1..Len(Picked(s, S)) : a < b => Picked(s, S)[a] < Picked(s, S)[b]
         /\ \A i \in 1..N : i \in S => \E a \in 1..Len(Picked(s, S)) : Picked(s, S)[a] = i
<1> DEFINE r == Picked(s, S)
<1>1. s \in Seq(1..N) /\ Len(s) = N
  OBVIOUS
<1>2. \A i \in 1..N : s[i] = i
  OBVIOUS
<1>3. r \in Seq(1..N) /\ \E g : Selects(g, r, s, S, N)
  BY <1>1, PickedSelects
<1>4. PICK g : Selects(g, r, s, S, N)
  BY <1>3
<1>5. \A a \in 1..Len(r) : g[a] \in 1..N /\ r[a] = g[a]
  <2> HIDE DEF r
  <2> QED
    BY <1>2, <1>4 DEF Selects, Places
<1> HIDE DEF r
<1>6. /\ \A a \in 1..Len(r) : r[a] \in S
      /\ \A a, b \in 1..Len(r) : a < b => r[a] < r[b]
  BY <1>4, <1>5 DEF Selects, Places
<1>7. \A i \in 1..N : i \in S => \E a \in 1..Len(r) : r[a] = i
  BY <1>2, <1>4, <1>5 DEF Selects
<1> QED
  BY <1>3, <1>6, <1>7 DEF r

(* q is the wanted events of transaction i, those at the places c. *)
ChosenPlaces(c, q, L, i, names) ==
  /\ \A a \in 1..Len(q) :
       /\ c[a] \in 1..Len(L[i].events)
       /\ L[i].events[c[a]].name \in names
       /\ q[a] = Decode(L, i, c[a])
  /\ \A a, b \in 1..Len(q) : a < b => c[a] < c[b]
  /\ \A j \in 1..Len(L[i].events) : L[i].events[j].name \in names =>
       \E a \in 1..Len(q) : c[a] = j

LEMMA TransactionEventsAre ==
  ASSUME NEW L, Readable(L), NEW i \in 1..Len(L), NEW names
  PROVE  LET r == TransactionEvents(L, i, names)
         IN  /\ r \in Seq({Decode(L, i, j) : j \in Nat})
             /\ \E c : ChosenPlaces(c, r, L, i, names)
<1> DEFINE E == L[i].events
           N == Len(E)
           S == {j \in DOMAIN E : E[j].name \in names}
           s == [j \in DOMAIN E |-> j]
           c == Picked(s, S)
           r == TransactionEvents(L, i, names)
<1>1. N \in Nat /\ DOMAIN E = 1..N
  BY LengthIsNat DEF Readable
<1>2. s \in [1..N -> 1..N] /\ \A j \in 1..N : s[j] = j
  BY <1>1
<1>3. r = [n \in DOMAIN c |-> Decode(L, i, c[n])]
  BY DEF TransactionEvents
<1> HIDE DEF r
<1>4. /\ c \in Seq(1..N)
      /\ \A a \in 1..Len(c) : c[a] \in S
      /\ \A a, b \in 1..Len(c) : a < b => c[a] < c[b]
      /\ \A j \in 1..N : j \in S => \E a \in 1..Len(c) : c[a] = j
  <2> HIDE DEF N, S, s
  <2> QED
    BY ONLY <1>1, <1>2, PickedNumbers, SMTT(30)
<1>5. \A a \in 1..Len(c) : c[a] \in 1..N /\ E[c[a]].name \in names
  BY <1>1, <1>4
<1>6. \A j \in 1..N : E[j].name \in names => j \in S
  BY <1>1
<1> DEFINE Q == {Decode(L, i, j) : j \in Nat}
<1> HIDE DEF c, S, E, N
<1>7. Len(c) \in Nat /\ DOMAIN c = 1..Len(c)
  BY <1>4
<1>8. \A a \in 1..Len(c) : c[a] \in Nat
  BY <1>1, <1>5
<1>9. r \in Seq(Q) /\ Len(r) = Len(c) /\ \A a \in 1..Len(c) : r[a] = Decode(L, i, c[a])
  <2>1. r = [n \in 1..Len(c) |-> Decode(L, i, c[n])]
    BY <1>3, <1>7
  <2>2. \A a \in 1..Len(c) : Decode(L, i, c[a]) \in Q
    BY <1>8
  <2> HIDE DEF Q
  <2>3. r \in [1..Len(c) -> Q]
    BY <2>1, <2>2
  <2>4. r \in Seq(Q) /\ Len(r) = Len(c)
    BY <1>7, <2>3
  <2> QED
    BY <2>1, <2>4
<1>10. ChosenPlaces(c, r, L, i, names)
  BY <1>4, <1>5, <1>6, <1>9 DEF E, N, ChosenPlaces
<1> QED
  BY <1>9, <1>10 DEF r

(* r is the wanted events of the transactions txs, in their order: those   *)
(* at the places h of the transactions g.                                  *)
Reads(g, h, r, L, names, txs) ==
  /\ \A a \in 1..Len(r) :
       /\ g[a] \in 1..Len(txs)
       /\ h[a] \in 1..Len(L[txs[g[a]]].events)
       /\ L[txs[g[a]]].events[h[a]].name \in names
       /\ r[a] = Decode(L, txs[g[a]], h[a])
  /\ \A a, b \in 1..Len(r) : a < b => Before(g[a], h[a], g[b], h[b])
  /\ \A k \in 1..Len(txs) : \A j \in 1..Len(L[txs[k]].events) :
       L[txs[k]].events[j].name \in names =>
         \E a \in 1..Len(r) : g[a] = k /\ h[a] = j

LEMMA EventsOfJoins ==
  ASSUME NEW L, Readable(L), NEW names, NEW txs \in Seq(1..Len(L))
  PROVE  LET r == EventsOf(L, names)[txs]
         IN  /\ \E R : r \in Seq(R)
             /\ \E g, h : Reads(g, h, r, L, names, txs)
<1> DEFINE Part(i) == TransactionEvents(L, i, names)
           s == [k \in DOMAIN txs |-> TransactionEvents(L, txs[k], names)]
           r == EventsOf(L, names)[txs]
           K == Len(txs)
           X == {Decode(L, i, j) : i \in 1..Len(L), j \in Nat}
           C(i) == CHOOSE c : ChosenPlaces(c, Part(i), L, i, names)
<1>1. DOMAIN L = 1..Len(L)
  BY LengthIsNat DEF Readable
<1>2. r = FlattenSeq(s)
  <2>1. txs \in Seq(DOMAIN L)
    BY <1>1
  <2> QED
    BY <2>1 DEF EventsOf
<1>3. K \in Nat /\ DOMAIN txs = 1..K /\ \A k \in 1..K : txs[k] \in 1..Len(L)
  OBVIOUS
<1>4. \A i \in 1..Len(L) : Part(i) \in Seq(X)
  <2>1. ASSUME NEW i \in 1..Len(L) PROVE Part(i) \in Seq(X)
    <3> DEFINE Y == {Decode(L, i, j) : j \in Nat}
    <3>1. Part(i) \in Seq(Y)
      BY TransactionEventsAre
    <3>2. Y \subseteq X
      OBVIOUS
    <3> HIDE DEF X, Y, Part
    <3> QED
      BY <3>1, <3>2, SeqMonotonic
  <2> QED
    BY <2>1
<1>5. \A i \in 1..Len(L) : ChosenPlaces(C(i), Part(i), L, i, names)
  <2>1. ASSUME NEW i \in 1..Len(L) PROVE \E c : ChosenPlaces(c, Part(i), L, i, names)
    BY TransactionEventsAre
  <2> HIDE DEF Part
  <2> QED
    BY <2>1
<1>6. s = [k \in 1..K |-> Part(txs[k])]
  BY <1>3
<1> HIDE DEF s, r, K, X, C, Part
<1>7. s \in Seq(Seq(X)) /\ Len(s) = K
  <2>1. s \in [1..K -> Seq(X)]
    BY <1>3, <1>4, <1>6
  <2> QED
    BY <1>3, <2>1
<1>8. \A k \in 1..K : s[k] = Part(txs[k])
  BY <1>6
<1>9. r \in Seq(X) /\ \E g, h : Joins(g, h, r, s, K)
  <2>1. FlattenSeq(s) \in Seq(X) /\ \E g, h : Joins(g, h, FlattenSeq(s), s, Len(s))
    BY <1>7, FlattenJoins
  <2> QED
    BY <1>2, <1>7, <2>1
<1>10. PICK g, h : Joins(g, h, r, s, K)
  BY <1>9
<1>11. /\ \A a \in 1..Len(r) : g[a] \in 1..K
       /\ \A a \in 1..Len(r) : h[a] \in 1..Len(s[g[a]]) /\ r[a] = s[g[a]][h[a]]
       /\ \A a, b \in 1..Len(r) : a < b => Before(g[a], h[a], g[b], h[b])
       /\ \A i \in 1..K : \A j \in 1..Len(s[i]) : \E a \in 1..Len(r) : g[a] = i /\ h[a] = j
  BY <1>10 DEF Joins
<1> DEFINE H == [a \in 1..Len(r) |-> C(txs[g[a]])[h[a]]]
<1>12. \A a \in 1..Len(r) : H[a] = C(txs[g[a]])[h[a]]
  OBVIOUS
<1> HIDE DEF H
<1>13. ASSUME NEW k \in 1..K
       PROVE  /\ \A n \in 1..Len(s[k]) :
                    /\ C(txs[k])[n] \in 1..Len(L[txs[k]].events)
                    /\ L[txs[k]].events[C(txs[k])[n]].name \in names
                    /\ s[k][n] = Decode(L, txs[k], C(txs[k])[n])
              /\ \A m, n \in 1..Len(s[k]) : m < n => C(txs[k])[m] < C(txs[k])[n]
              /\ \A j \in 1..Len(L[txs[k]].events) : L[txs[k]].events[j].name \in names =>
                    \E n \in 1..Len(s[k]) : C(txs[k])[n] = j
  <2>1. ChosenPlaces(C(txs[k]), s[k], L, txs[k], names)
    BY <1>3, <1>5, <1>8
  <2> QED
    BY <2>1 DEF ChosenPlaces
<1>14. ASSUME NEW a \in 1..Len(r)
       PROVE  /\ g[a] \in 1..K
              /\ H[a] \in 1..Len(L[txs[g[a]]].events)
              /\ L[txs[g[a]]].events[H[a]].name \in names
              /\ r[a] = Decode(L, txs[g[a]], H[a])
  <2>1. g[a] \in 1..K /\ h[a] \in 1..Len(s[g[a]]) /\ r[a] = s[g[a]][h[a]]
    BY <1>11
  <2> QED
    BY <1>12, <1>13, <2>1, ZenonT(60)
<1>15. ASSUME NEW a \in 1..Len(r), NEW b \in 1..Len(r), a < b
       PROVE  Before(g[a], H[a], g[b], H[b])
  <2>1. Before(g[a], h[a], g[b], h[b])
    BY <1>11, <1>15
  <2>2. CASE g[a] < g[b]
    BY <2>2 DEF Before
  <2>3. CASE g[a] = g[b] /\ h[a] < h[b]
    <3>1. g[a] \in 1..K /\ h[a] \in 1..Len(s[g[a]]) /\ h[b] \in 1..Len(s[g[a]])
      BY <1>11, <2>3
    <3>2. C(txs[g[a]])[h[a]] < C(txs[g[a]])[h[b]]
      BY <1>13, <2>3, <3>1
    <3>3. H[a] < H[b]
      BY <1>12, <2>3, <3>2
    <3> QED
      BY <2>3, <3>3 DEF Before
  <2> QED
    BY <2>1, <2>2, <2>3 DEF Before
<1>16. ASSUME NEW k \in 1..K, NEW j \in 1..Len(L[txs[k]].events),
              L[txs[k]].events[j].name \in names
       PROVE  \E a \in 1..Len(r) : g[a] = k /\ H[a] = j
  <2>1. PICK n \in 1..Len(s[k]) : C(txs[k])[n] = j
    BY <1>13, <1>16
  <2>2. PICK a \in 1..Len(r) : g[a] = k /\ h[a] = n
    BY <1>11, <2>1
  <2>3. H[a] = j
    BY <1>12, <2>1, <2>2
  <2> QED
    BY <2>2, <2>3
<1>17. Reads(g, H, r, L, names, txs)
  BY <1>14, <1>15, <1>16 DEF K, Reads
<1> QED
  BY <1>9, <1>17 DEF r

(* A list of the transactions of the range gives the wanted events.        *)
LEMMA EventsAreExact ==
  ASSUME NEW L, Readable(L), NEW first, NEW last, NEW names, NEW txs \in Seq(1..Len(L)),
         \A k \in 1..Len(txs) : txs[k] \in InRange(L, first, last),
         \A i \in InRange(L, first, last) : \E k \in 1..Len(txs) : txs[k] = i
  PROVE  LET r == EventsOf(L, names)[txs]
         IN  Exact(r, L, first, last, names) /\ \E g, h : Reads(g, h, r, L, names, txs)
<1> DEFINE r == EventsOf(L, names)[txs]
<1>1. (\E R : r \in Seq(R)) /\ \E g, h : Reads(g, h, r, L, names, txs)
  BY EventsOfJoins
<1> HIDE DEF r
<1>2. PICK g, h : Reads(g, h, r, L, names, txs)
  BY <1>1
<1>3. DOMAIN L = 1..Len(L)
  BY LengthIsNat DEF Readable
<1>4. ASSUME NEW a \in 1..Len(r)
      PROVE  \E i, j : Wanted(L, i, j, first, last, names) /\ r[a] = Decode(L, i, j)
  <2>1. /\ g[a] \in 1..Len(txs)
        /\ h[a] \in 1..Len(L[txs[g[a]]].events)
        /\ L[txs[g[a]]].events[h[a]].name \in names
        /\ r[a] = Decode(L, txs[g[a]], h[a])
    BY <1>2 DEF Reads
  <2>2. Wanted(L, txs[g[a]], h[a], first, last, names)
    BY <1>3, <2>1 DEF Wanted, InRange
  <2> QED
    BY <2>1, <2>2
<1>5. ASSUME NEW i, NEW j, Wanted(L, i, j, first, last, names)
      PROVE  \E a \in 1..Len(r) : r[a] = Decode(L, i, j)
  <2>1. i \in InRange(L, first, last)
    BY <1>3, <1>5 DEF Wanted, InRange
  <2>2. PICK k \in 1..Len(txs) : txs[k] = i
    BY <2>1
  <2>3. \E a \in 1..Len(r) : g[a] = k /\ h[a] = j
    BY <1>2, <1>5, <2>2 DEF Reads, Wanted
  <2>4. \A a \in 1..Len(r) : r[a] = Decode(L, txs[g[a]], h[a])
    BY <1>2 DEF Reads
  <2> QED
    BY <2>2, <2>3, <2>4
<1>6. Exact(r, L, first, last, names)
  BY <1>1, <1>4, <1>5 DEF Exact
<1> QED
  BY <1>1, <1>6 DEF r

(* The EVM reader hands on every event of the range with one of the names, *)
(* and nothing else, in the order the chain has them: by transaction and   *)
(* in it by log index (evm/client.go:129-178).                             *)
THEOREM EvmReaderIsExact ==
  ASSUME NEW L, Readable(L), NEW first, NEW last, NEW names
  PROVE  LET r == EvmLogsInRange(L, first, last, names)
         IN  /\ Exact(r, L, first, last, names)
             /\ \A a, b \in 1..Len(r) :
                  a < b => Before(r[a].at[1], r[a].at[2], r[b].at[1], r[b].at[2])
<1> DEFINE N == Len(L)
           S == InRange(L, first, last)
           s == [i \in DOMAIN L |-> i]
           txs == FilterLogs(L, first, last)
           r == EvmLogsInRange(L, first, last, names)
<1>1. N \in Nat /\ DOMAIN L = 1..N
  BY LengthIsNat DEF Readable
<1>2. txs = Picked(s, S) /\ s \in [1..N -> 1..N] /\ \A i \in 1..N : s[i] = i
  BY <1>1 DEF FilterLogs
<1>3. \A i \in S : i \in 1..N
  BY <1>1 DEF InRange
<1>4. /\ txs \in Seq(1..N)
      /\ \A k \in 1..Len(txs) : txs[k] \in S
      /\ \A k, l \in 1..Len(txs) : k < l => txs[k] < txs[l]
      /\ \A i \in 1..N : i \in S => \E k \in 1..Len(txs) : txs[k] = i
  <2> HIDE DEF N, S, s, txs
  <2> QED
    BY ONLY <1>1, <1>2, PickedNumbers, SMTT(30)
<1>5. Exact(r, L, first, last, names) /\ \E g, h : Reads(g, h, r, L, names, txs)
  <2>1. r = EventsOf(L, names)[txs]
    BY DEF EvmLogsInRange
  <2> HIDE DEF r, txs
  <2> QED
    BY <1>3, <1>4, <2>1, EventsAreExact
<1> HIDE DEF r, txs
<1>6. PICK g, h : Reads(g, h, r, L, names, txs)
  BY <1>5
<1>7. ASSUME NEW a \in 1..Len(r), NEW b \in 1..Len(r), a < b
      PROVE  Before(r[a].at[1], r[a].at[2], r[b].at[1], r[b].at[2])
  <2>1. /\ g[a] \in 1..Len(txs) /\ g[b] \in 1..Len(txs)
        /\ r[a] = Decode(L, txs[g[a]], h[a])
        /\ r[b] = Decode(L, txs[g[b]], h[b])
        /\ Before(g[a], h[a], g[b], h[b])
    BY <1>6, <1>7 DEF Reads
  <2>2. /\ r[a].at[1] = txs[g[a]] /\ r[a].at[2] = h[a]
        /\ r[b].at[1] = txs[g[b]] /\ r[b].at[2] = h[b]
    BY <2>1 DEF Decode
  <2>3. g[a] < g[b] => txs[g[a]] < txs[g[b]]
    BY <1>4, <2>1
  <2> QED
    BY <2>1, <2>2, <2>3 DEF Before
<1> QED
  BY <1>5, <1>7 DEF r

---------------------------------------------------------------------------
(* Solana: the walk through the pages. *)

(* s is members of S, each once, the highest first. *)
Descends(s, S) ==
  /\ \A k \in 1..Len(s) : s[k] \in S
  /\ \A k, l \in 1..Len(s) : k < l => s[l] < s[k]
  /\ \A i \in S : \E k \in 1..Len(s) : s[k] = i

(* The length of the page before transaction b. *)
Span(b) == IF b - 1 < PageLimit THEN b - 1 ELSE PageLimit

(* What is wanted of one page. *)
LEMMA PagePicked ==
  ASSUME NEW N \in Nat, NEW b \in 1..(N + 1), NEW W
  PROVE  /\ Picked(Page(b), W) \in Seq(1..N)
         /\ Descends(Picked(Page(b), W), {i \in W : i \in (b - Span(b))..(b - 1)})
         /\ Len(Page(b)) = Span(b) /\ Span(b) \in Nat /\ Span(b) < b
         /\ \A k \in 1..Span(b) : Page(b)[k] = b - k
<1> DEFINE s == Page(b)
           P == Span(b)
           r == Picked(s, W)
<1>1. P \in Nat /\ P < b /\ PageLimit \in Nat
  BY ReaderAssumption DEF Span
<1>2. s = [k \in 1..P |-> b - k]
  BY DEF Page, Span
<1> HIDE DEF P, s, r
<1>3. \A k \in 1..P : b - k \in 1..N
  BY <1>1
<1>4. s \in Seq(1..N) /\ Len(s) = P /\ DOMAIN s = 1..P
  <2>1. s \in [1..P -> 1..N]
    BY <1>2, <1>3
  <2> QED
    BY <1>1, <2>1
<1>5. \A k \in 1..P : s[k] = b - k
  BY <1>2
<1>6. r \in Seq(1..N) /\ \E g : Selects(g, r, s, W, P)
  BY <1>4, PickedSelects DEF r
<1>7. PICK g : Selects(g, r, s, W, P)
  BY <1>6
<1>8. /\ \A a \in 1..Len(r) : g[a] \in 1..P /\ r[a] = b - g[a] /\ r[a] \in W
      /\ \A a, c \in 1..Len(r) : a < c => g[a] < g[c]
      /\ \A i \in 1..P : s[i] \in W => \E a \in 1..Len(r) : g[a] = i
  BY <1>5, <1>7 DEF Selects, Places
<1>9. ASSUME NEW i \in W, i \in (b - P)..(b - 1)
      PROVE  \E a \in 1..Len(r) : r[a] = i
  <2>1. b - i \in 1..P /\ b - (b - i) = i
    BY <1>1, <1>9
  <2>2. s[b - i] = i
    BY <1>5, <2>1
  <2>3. PICK a \in 1..Len(r) : g[a] = b - i
    BY <1>8, <2>1, <2>2
  <2> QED
    BY <1>8, <2>1, <2>3
<1>10. \A a \in 1..Len(r) : r[a] \in (b - P)..(b - 1)
  BY <1>1, <1>8
<1>11. \A a, c \in 1..Len(r) : a < c => r[c] < r[a]
  BY <1>1, <1>8
<1>12. Descends(r, {i \in W : i \in (b - P)..(b - 1)})
  BY <1>8, <1>9, <1>10, <1>11 DEF Descends
<1> QED
  BY <1>1, <1>4, <1>5, <1>6, <1>12 DEF P, s, r

(* What is collected of a page, followed by what is collected after it.    *)
LEMMA DescendsOn ==
  ASSUME NEW N \in Nat, NEW r \in Seq(1..N), NEW t \in Seq(1..N), NEW A, NEW B,
         \A x \in A, y \in B : y < x, Descends(r, A), Descends(t, B)
  PROVE  r \o t \in Seq(1..N) /\ Descends(r \o t, A \union B)
<1> DEFINE K == Len(r)
           M == Len(t)
           q == r \o t
<1>1. /\ q \in Seq(1..N) /\ Len(q) = K + M /\ K \in Nat /\ M \in Nat
      /\ \A a \in 1..(K + M) : q[a] = IF a <= K THEN r[a] ELSE t[a - K]
  BY ConcatProperties
<1> HIDE DEF K, M, q
<1>2. /\ \A k \in 1..K : r[k] \in A
      /\ \A k, l \in 1..K : k < l => r[l] < r[k]
      /\ \A i \in A : \E k \in 1..K : r[k] = i
  BY DEF Descends, K
<1>3. /\ \A k \in 1..M : t[k] \in B
      /\ \A k, l \in 1..M : k < l => t[l] < t[k]
      /\ \A i \in B : \E k \in 1..M : t[k] = i
  BY DEF Descends, M
<1>4. \A a \in 1..(K + M) : (a <= K => a \in 1..K) /\ (~ (a <= K) => a - K \in 1..M)
  BY <1>1
<1>5. \A a \in 1..(K + M) : q[a] \in A \union B
  BY <1>1, <1>2, <1>3, <1>4
<1>6. ASSUME NEW a \in 1..(K + M), NEW b \in 1..(K + M), a < b PROVE q[b] < q[a]
  <2>1. CASE b <= K
    <3>1. a <= K
      BY <1>1, <1>6, <2>1
    <3> QED
      BY <1>1, <1>2, <1>4, <1>6, <2>1, <3>1
  <2>2. CASE ~ (b <= K) /\ a <= K
    BY <1>1, <1>2, <1>3, <1>4, <2>2
  <2>3. CASE ~ (b <= K) /\ ~ (a <= K)
    <3>1. a - K \in 1..M /\ b - K \in 1..M /\ a - K < b - K
      BY <1>1, <1>4, <1>6, <2>3
    <3> QED
      BY <1>1, <1>3, <2>3, <3>1
  <2> QED
    BY <2>1, <2>2, <2>3
<1>7. ASSUME NEW i \in A PROVE \E a \in 1..(K + M) : q[a] = i
  <2>1. PICK k \in 1..K : r[k] = i
    BY <1>2
  <2>2. k \in 1..(K + M) /\ k <= K
    BY <1>1
  <2> QED
    BY <1>1, <2>1, <2>2
<1>8. ASSUME NEW i \in B PROVE \E a \in 1..(K + M) : q[a] = i
  <2>1. PICK k \in 1..M : t[k] = i
    BY <1>3
  <2>2. k + K \in 1..(K + M) /\ ~ (k + K <= K) /\ (k + K) - K = k
    BY <1>1
  <2>3. q[k + K] = i
    BY <1>1, <2>1, <2>2
  <2> QED
    BY <2>2, <2>3
<1> QED
  BY <1>1, <1>5, <1>6, <1>7, <1>8 DEF Descends, q

(* What SignaturesInRange unfolds to. *)
ReachedBack(b, L, first) ==
  \/ Len(Page(b)) < PageLimit
  \/ \E k \in DOMAIN Page(b) : L[Page(b)[k]].slot < first

Walking(f, L, first, last) ==
  f = [b \in 0..(Len(L) + 1) |->
         IF ReachedBack(b, L, first) THEN Picked(Page(b), InRange(L, first, last))
         ELSE Picked(Page(b), InRange(L, first, last)) \o f[b - PageLimit]]

(* A page that is full begins at least PageLimit after the oldest one. *)
LEMMA FullPage ==
  ASSUME NEW N \in Nat, NEW b \in 0..(N + 1), NEW L, NEW first, ~ ReachedBack(b, L, first)
  PROVE  b \in 1..(N + 1) /\ b - PageLimit \in 1..(N + 1) /\ Span(b) = PageLimit
<1>1. PageLimit \in Nat \ {0}
  BY ReaderAssumption
<1>2. CASE b = 0
  <2>1. Page(b) = <<>>
    BY <1>1, <1>2 DEF Page
  <2> QED
    BY <1>1, <2>1 DEF ReachedBack
<1>3. CASE b # 0
  <2>1. b \in 1..(N + 1)
    BY <1>3
  <2>2. Len(Page(b)) = Span(b)
    BY <2>1, PagePicked
  <2> QED
    BY <1>1, <2>1, <2>2 DEF ReachedBack, Span
<1> QED
  BY <1>2, <1>3

LEMMA WalkingExists ==
  ASSUME NEW L, Readable(L), NEW first, NEW last
  PROVE  \E f : Walking(f, L, first, last)
<1> DEFINE N == Len(L)
           W == InRange(L, first, last)
           X == Seq(1..N)
           stop == {0} \union {b \in 0..(N + 1) : ReachedBack(b, L, first)}
           w == [b \in 0..(N + 1) |-> Picked(Page(b), W)]
           g == [b \in 0..(N + 1) |-> [x \in X |-> Picked(Page(b), W) \o x]]
<1>1. N \in Nat /\ PageLimit \in Nat \ {0}
  BY LengthIsNat, ReaderAssumption DEF Readable
<1>2. \A b \in 0..(N + 1) : Picked(Page(b), W) \in X
  <2>1. ASSUME NEW b \in 1..(N + 1) PROVE Picked(Page(b), W) \in X
    BY <1>1, PagePicked
  <2>2. Picked(Page(0), W) \in X
    <3>1. Page(0) = <<>>
      BY <1>1 DEF Page
    <3>2. <<>> \in X
      OBVIOUS
    <3> HIDE DEF W
    <3> QED
      BY <3>1, <3>2, PickedSelects
  <2>3. \A b \in 0..(N + 1) : b = 0 \/ b \in 1..(N + 1)
    BY <1>1
  <2> QED
    BY <2>1, <2>2, <2>3
<1>3. \A b \in 0..(N + 1) : b \notin stop =>
         b \in 1..(N + 1) /\ b - PageLimit \in 1..(N + 1) /\ b - PageLimit >= 0
  <2>1. ASSUME NEW b \in 0..(N + 1), b \notin stop
        PROVE  b \in 1..(N + 1) /\ b - PageLimit \in 1..(N + 1) /\ b - PageLimit >= 0
    <3>1. ~ ReachedBack(b, L, first)
      BY <2>1
    <3>2. b \in 1..(N + 1) /\ b - PageLimit \in 1..(N + 1)
      BY <1>1, <3>1, FullPage
    <3> QED
      BY <1>1, <3>2
  <2> QED
    BY <2>1
<1>4. \A b \in 0..(N + 1) : w[b] = Picked(Page(b), W)
  OBVIOUS
<1>5. \A b \in 0..(N + 1) : \A x \in X : g[b][x] = Picked(Page(b), W) \o x
  OBVIOUS
<1>6. \A b \in 0..(N + 1) : \A x \in X : g[b][x] \in X
  <2> HIDE DEF W, g
  <2> QED
    BY <1>2, <1>5, ConcatProperties
<1>7. 0 \in Nat /\ N + 1 \in Nat
  BY <1>1
<1>8. \E f \in [0..(N + 1) -> X] : Derived(f, 0, N + 1, stop, w, g, PageLimit)
  <2> HIDE DEF W, X, stop, w, g, N
  <2>1. \A b \in 0..(N + 1) : w[b] \in X
    BY <1>2, <1>4
  <2> QED
    BY <1>1, <1>3, <1>6, <1>7, <2>1, RecursionExists
<1>9. PICK f \in [0..(N + 1) -> X] : Derived(f, 0, N + 1, stop, w, g, PageLimit)
  BY <1>8
<1>10. ASSUME NEW b \in 0..(N + 1)
       PROVE  f[b] = IF ReachedBack(b, L, first) THEN Picked(Page(b), W)
                     ELSE Picked(Page(b), W) \o f[b - PageLimit]
  <2>1. f[b] = IF b \in stop THEN w[b] ELSE g[b][f[b - PageLimit]]
    <3> HIDE DEF W, X, stop, w, g, N
    <3> QED
      BY <1>9 DEF Derived
  <2>2. b \notin stop => f[b - PageLimit] \in X
    <3> HIDE DEF W, X, stop, w, g
    <3> QED
      BY <1>3, <1>9
  <2>3. b \notin stop => g[b][f[b - PageLimit]] = Picked(Page(b), W) \o f[b - PageLimit]
    <3> HIDE DEF W, X, stop, w, g
    <3> QED
      BY <1>5, <2>2
  <2>4. ReachedBack(b, L, first) <=> b \in stop
    <3>1. b = 0 => ReachedBack(b, L, first)
      BY <1>7, FullPage
    <3> QED
      BY <3>1
  <2> HIDE DEF W, X, stop, w, g
  <2> QED
    BY <1>4, <2>1, <2>3, <2>4
<1> HIDE DEF X
<1>11. f = [b \in 0..(N + 1) |-> f[b]]
  BY <1>9
<1> QED
  BY <1>10, <1>11 DEF Walking

LEMMA WalkingCollects ==
  ASSUME NEW L, Readable(L), NEW first \in Int, NEW last, NEW f, Walking(f, L, first, last),
         NEW b \in 1..(Len(L) + 1)
  PROVE  /\ f[b] \in Seq(1..Len(L))
         /\ Descends(f[b], {i \in InRange(L, first, last) : i < b})
<1> DEFINE N == Len(L)
           W == InRange(L, first, last)
           Good(m) == f[m] \in Seq(1..N) /\ Descends(f[m], {i \in W : i < m})
           T == {m \in 1..(N + 1) : ~ Good(m)}
<1>1. N \in Nat /\ DOMAIN L = 1..N /\ PageLimit \in Nat \ {0}
  BY LengthIsNat, ReaderAssumption DEF Readable
<1>2. \A m \in 1..(N + 1) :
        f[m] = IF ReachedBack(m, L, first) THEN Picked(Page(m), W)
               ELSE Picked(Page(m), W) \o f[m - PageLimit]
  <2>1. \A m \in 0..(N + 1) :
          f[m] = IF ReachedBack(m, L, first) THEN Picked(Page(m), W)
                 ELSE Picked(Page(m), W) \o f[m - PageLimit]
    BY Zenon DEF Walking
  <2>2. \A m \in 1..(N + 1) : m \in 0..(N + 1)
    BY <1>1
  <2> HIDE DEF W
  <2> QED
    BY <2>1, <2>2
<1>3. W \subseteq 1..N /\ \A i \in W : L[i].slot \in first..last
  BY <1>1 DEF InRange
<1>4. \A i \in 1..N : L[i].slot \in Nat
  BY DEF Readable
<1>5. \A i, j \in 1..N : i < j => L[i].slot <= L[j].slot
  BY DEF Readable
<1> HIDE DEF W
<1>6. SUFFICES ASSUME T # {} PROVE FALSE
  BY DEF W
<1>7. T \in SUBSET Nat
  BY <1>1
<1>8. PICK m \in T : \A k \in T : m <= k
  <2> HIDE DEF T
  <2> QED
    BY <1>6, <1>7, LeastOf
<1>9. m \in 1..(N + 1) /\ ~ Good(m)
  OBVIOUS
<1> DEFINE r == Picked(Page(m), W)
           P == Span(m)
<1>10. /\ r \in Seq(1..N) /\ Descends(r, {i \in W : i \in (m - P)..(m - 1)})
       /\ Len(Page(m)) = P /\ P \in Nat /\ P < m
       /\ \A k \in 1..P : Page(m)[k] = m - k
  BY <1>1, <1>9, PagePicked
<1> HIDE DEF r
<1>11. CASE ~ ReachedBack(m, L, first)
  <2>1. m - PageLimit \in 1..(N + 1) /\ P = PageLimit
    BY <1>1, <1>9, <1>11, FullPage
  <2>2. ~ (m <= m - PageLimit)
    BY <1>1, <1>9
  <2>3. Good(m - PageLimit)
    BY <1>8, <2>1, <2>2
  <2> DEFINE t == f[m - PageLimit]
             A == {i \in W : i \in (m - P)..(m - 1)}
             B == {i \in W : i < m - PageLimit}
  <2>4. t \in Seq(1..N) /\ Descends(t, B)
    BY <2>3
  <2>5. f[m] = r \o t
    BY <1>2, <1>9, <1>11 DEF r
  <2>6. Descends(r, A) /\ r \in Seq(1..N)
    BY <1>10
  <2>7. \A x \in A, y \in B : y < x
    BY <1>1, <1>3, <1>9, <2>1
  <2>8. A \union B = {i \in W : i < m}
    <3>1. \A i \in W : i < m <=> i \in (m - P)..(m - 1) \/ i < m - PageLimit
      <4>1. \A i \in W : i \in Nat
        BY <1>1, <1>3
      <4> HIDE DEF P
      <4> QED
        BY <1>1, <1>9, <2>1, <4>1
    <3> QED
      BY <3>1
  <2> HIDE DEF t, A, B
  <2>9. r \o t \in Seq(1..N) /\ Descends(r \o t, A \union B)
    <3>1. N \in Nat
      BY <1>1
    <3> HIDE DEF N
    <3> QED
      BY ONLY <2>4, <2>6, <2>7, <3>1, DescendsOn
  <2> QED
    BY <1>9, <2>5, <2>8, <2>9
<1>12. CASE ReachedBack(m, L, first)
  <2>1. f[m] = r
    BY <1>2, <1>9, <1>12 DEF r
  <2>2. ASSUME NEW i \in W, i < m PROVE i \in (m - P)..(m - 1)
    <3>1. i \in 1..N /\ i \in Int
      BY <1>3
    <3>2. CASE P < PageLimit
      <4>1. P = m - 1
        BY <1>1, <3>2 DEF Span
      <4> QED
        BY <1>9, <2>2, <3>1, <4>1
    <3>3. CASE \E k \in DOMAIN Page(m) : L[Page(m)[k]].slot < first
      <4>1. PICK k \in DOMAIN Page(m) : L[Page(m)[k]].slot < first
        BY <3>3
      <4>2. k \in 1..P
        BY <1>10 DEF Page, Span
      <4>3. Page(m)[k] = m - k
        BY <1>10, <4>2
      <4>4. m - k \in 1..N
        BY <1>1, <1>9, <1>10, <4>2
      <4>5. L[i].slot >= first /\ L[i].slot \in Nat /\ L[m - k].slot \in Nat
        BY <1>3, <1>4, <3>1, <4>4
      <4>6. ~ (i < m - k)
        BY <1>5, <3>1, <4>1, <4>3, <4>4, <4>5
      <4> QED
        BY <1>9, <1>10, <2>2, <3>1, <4>2, <4>6
    <3> QED
      BY <1>10, <1>12, <3>2, <3>3 DEF ReachedBack
  <2>3. {i \in W : i \in (m - P)..(m - 1)} = {i \in W : i < m}
    BY <1>9, <1>10, <2>2
  <2> QED
    BY <1>9, <1>10, <2>1, <2>3
<1> QED
  BY <1>11, <1>12

(* The walk through the pages collects every wanted transaction, whatever  *)
(* the size of a page.                                                     *)
LEMMA SignaturesDescend ==
  ASSUME NEW L, Readable(L), NEW first \in Int, NEW last
  PROVE  /\ SignaturesInRange(L, first, last) \in Seq(1..Len(L))
         /\ Descends(SignaturesInRange(L, first, last), InRange(L, first, last))
<1> DEFINE F == CHOOSE f : Walking(f, L, first, last)
           S == InRange(L, first, last)
           b == Len(L) + 1
<1>1. Walking(F, L, first, last)
  BY WalkingExists
<1>2. SignaturesInRange(L, first, last) = F[b]
  BY DEF SignaturesInRange, Walking, ReachedBack
<1>3. Len(L) \in Nat /\ DOMAIN L = 1..Len(L)
  BY LengthIsNat DEF Readable
<1>4. {i \in S : i < b} = S
  BY <1>3 DEF InRange
<1>5. F[b] \in Seq(1..Len(L)) /\ Descends(F[b], {i \in S : i < b})
  <2>1. b \in 1..(Len(L) + 1)
    BY <1>3
  <2> HIDE DEF F, b
  <2> QED
    BY <1>1, <2>1, WalkingCollects
<1> HIDE DEF F, b, S
<1> QED
  BY <1>2, <1>4, <1>5 DEF S

(* The sort: oldest slot first, and in a slot as they were listed. *)
LEMMA SlotsAscend ==
  ASSUME NEW L, Readable(L), NEW first \in Nat, NEW last \in Nat, first <= last,
         NEW sig \in Seq(1..Len(L)), Descends(sig, InRange(L, first, last))
  PROVE  LET txs == OldestSlotFirst(L, first, last)[sig]
         IN  /\ txs \in Seq(1..Len(L))
             /\ \A k \in 1..Len(txs) : txs[k] \in InRange(L, first, last)
             /\ \A i \in InRange(L, first, last) : \E k \in 1..Len(txs) : txs[k] = i
             /\ \A k, l \in 1..Len(txs) : k < l =>
                  \/ L[txs[k]].slot < L[txs[l]].slot
                  \/ L[txs[k]].slot = L[txs[l]].slot /\ txs[l] < txs[k]
<1> DEFINE N == Len(L)
           M == last - first + 1
           At(k) == {i \in DOMAIN L : L[i].slot = first + k - 1}
           s == [k \in 1..M |-> Picked(sig, At(k))]
           txs == OldestSlotFirst(L, first, last)[sig]
           W == InRange(L, first, last)
<1>1. N \in Nat /\ DOMAIN L = 1..N /\ M \in Nat
  BY LengthIsNat DEF Readable
<1>2. txs = FlattenSeq(s)
  <2>1. sig \in Seq(DOMAIN L)
    BY <1>1
  <2> QED
    BY <2>1 DEF OldestSlotFirst
<1>3. \A i \in W : i \in 1..N /\ L[i].slot \in first..last
  BY <1>1 DEF InRange
<1>4. \A i \in 1..N : L[i].slot \in Nat
  BY DEF Readable
<1>5. \A k, i : i \in At(k) <=> i \in 1..N /\ L[i].slot = first + k - 1
  BY <1>1
<1> HIDE DEF txs, W, N, At
<1>6. ASSUME NEW k \in 1..M
      PROVE  /\ Picked(sig, At(k)) \in Seq(1..N)
             /\ \E g : Selects(g, Picked(sig, At(k)), sig, At(k), Len(sig))
  BY PickedSelects DEF N
<1>7. s \in Seq(Seq(1..N)) /\ Len(s) = M
  <2>1. s \in [1..M -> Seq(1..N)]
    <3> HIDE DEF M
    <3> QED
      BY <1>6
  <2> QED
    BY <1>1, <2>1
<1>8. \A k \in 1..M : s[k] = Picked(sig, At(k))
  OBVIOUS
<1> HIDE DEF s, M
<1>9. txs \in Seq(1..N) /\ \E g, h : Joins(g, h, txs, s, M)
  <2>1. FlattenSeq(s) \in Seq(1..N) /\ \E g, h : Joins(g, h, FlattenSeq(s), s, Len(s))
    BY <1>7, FlattenJoins
  <2> QED
    BY <1>2, <1>7, <2>1
<1>10. PICK g, h : Joins(g, h, txs, s, M)
  BY <1>9
<1>11. /\ \A a \in 1..Len(txs) : g[a] \in 1..M
       /\ \A a \in 1..Len(txs) : h[a] \in 1..Len(s[g[a]]) /\ txs[a] = s[g[a]][h[a]]
       /\ \A a, b \in 1..Len(txs) : a < b => Before(g[a], h[a], g[b], h[b])
       /\ \A i \in 1..M : \A j \in 1..Len(s[i]) : \E a \in 1..Len(txs) : g[a] = i /\ h[a] = j
  BY <1>10 DEF Joins
<1>12. /\ \A a \in 1..Len(sig) : sig[a] \in W
       /\ \A a, b \in 1..Len(sig) : a < b => sig[b] < sig[a]
       /\ \A i \in W : \E a \in 1..Len(sig) : sig[a] = i
  BY DEF Descends, W
<1>13. ASSUME NEW k \in 1..M
       PROVE  /\ \A a \in 1..Len(s[k]) : s[k][a] \in W /\ s[k][a] \in At(k)
              /\ \A a, b \in 1..Len(s[k]) : a < b => s[k][b] < s[k][a]
              /\ \A i \in W : i \in At(k) => \E a \in 1..Len(s[k]) : s[k][a] = i
  <2>1. PICK f : Selects(f, s[k], sig, At(k), Len(sig))
    BY <1>6, <1>8
  <2>2. /\ \A a \in 1..Len(s[k]) : f[a] \in 1..Len(sig) /\ s[k][a] = sig[f[a]] /\ s[k][a] \in At(k)
        /\ \A a, b \in 1..Len(s[k]) : a < b => f[a] < f[b]
        /\ \A i \in 1..Len(sig) : sig[i] \in At(k) => \E a \in 1..Len(s[k]) : f[a] = i
    BY <2>1 DEF Selects, Places
  <2>3. \A a \in 1..Len(s[k]) : s[k][a] \in W /\ s[k][a] \in At(k)
    BY <1>12, <2>2
  <2>4. \A a, b \in 1..Len(s[k]) : a < b => s[k][b] < s[k][a]
    BY <1>12, <2>2, ZenonT(60)
  <2>5. ASSUME NEW i \in W, i \in At(k) PROVE \E a \in 1..Len(s[k]) : s[k][a] = i
    <3>1. PICK n \in 1..Len(sig) : sig[n] = i
      BY <1>12
    <3>2. PICK a \in 1..Len(s[k]) : f[a] = n
      BY <2>2, <2>5, <3>1
    <3> QED
      BY <2>2, <3>1, <3>2
  <2> QED
    BY <2>3, <2>4, <2>5
<1>14. ASSUME NEW a \in 1..Len(txs)
       PROVE  txs[a] \in W /\ L[txs[a]].slot = first + g[a] - 1 /\ g[a] \in 1..M
  <2>1. g[a] \in 1..M /\ h[a] \in 1..Len(s[g[a]]) /\ txs[a] = s[g[a]][h[a]]
    BY <1>11
  <2>2. txs[a] \in W /\ txs[a] \in At(g[a])
    BY <1>13, <2>1
  <2> QED
    BY <1>5, <2>1, <2>2
<1>15. ASSUME NEW i \in W PROVE \E a \in 1..Len(txs) : txs[a] = i
  <2> DEFINE k == L[i].slot - first + 1
  <2>1. k \in 1..M /\ L[i].slot = first + k - 1 /\ i \in 1..N
    <3>1. i \in 1..N /\ L[i].slot \in first..last
      BY <1>3, <1>15
    <3>2. L[i].slot \in Nat
      BY <1>4, <3>1
    <3>3. L[i].slot - first + 1 \in 1..(last - first + 1)
      BY ONLY <3>1, <3>2, first \in Nat, last \in Nat
    <3>4. L[i].slot = first + (L[i].slot - first + 1) - 1
      BY ONLY <3>2, first \in Nat
    <3> QED
      BY <3>1, <3>3, <3>4 DEF M
  <2>2. i \in At(k)
    BY <1>5, <2>1
  <2> HIDE DEF k
  <2>3. PICK j \in 1..Len(s[k]) : s[k][j] = i
    BY <1>13, <2>1, <2>2
  <2>4. PICK a \in 1..Len(txs) : g[a] = k /\ h[a] = j
    BY <1>11, <2>1
  <2> QED
    BY <1>11, <2>3, <2>4
<1>16. ASSUME NEW a \in 1..Len(txs), NEW b \in 1..Len(txs), a < b
       PROVE  \/ L[txs[a]].slot < L[txs[b]].slot
              \/ L[txs[a]].slot = L[txs[b]].slot /\ txs[b] < txs[a]
  <2>1. Before(g[a], h[a], g[b], h[b])
    BY <1>11, <1>16
  <2>2. CASE g[a] < g[b]
    BY <1>14, <2>2
  <2>3. CASE g[a] = g[b] /\ h[a] < h[b]
    <3>1. g[a] \in 1..M /\ h[a] \in 1..Len(s[g[a]]) /\ h[b] \in 1..Len(s[g[a]])
      BY <1>11, <2>3
    <3>2. s[g[a]][h[b]] < s[g[a]][h[a]]
      BY <1>13, <2>3, <3>1
    <3>3. txs[b] < txs[a]
      BY <1>11, <2>3, <3>2
    <3> QED
      BY <1>14, <2>3, <3>3
  <2> QED
    BY <2>1, <2>2, <2>3 DEF Before
<1> QED
  BY <1>9, <1>14, <1>15, <1>16 DEF txs, W, N

(* The Solana reader hands on the same events as the EVM reader, whatever  *)
(* the size of a page of signatures: none is lost where a page ends and    *)
(* none is read twice.  They come slot by slot, but inside a slot the      *)
(* transactions come newest first (svm/client.go:123-193).                 *)
THEOREM SvmReaderIsExact ==
  ASSUME NEW L, Readable(L), NEW first \in Nat, NEW last \in Nat, first <= last, NEW names
  PROVE  LET r == SvmLogsInRange(L, first, last, names)
         IN  /\ Exact(r, L, first, last, names)
             /\ \A a, b \in 1..Len(r) : a < b =>
                  \/ r[a].block < r[b].block
                  \/ /\ r[a].block = r[b].block
                     /\ \/ r[b].at[1] < r[a].at[1]
                        \/ r[a].at[1] = r[b].at[1] /\ r[a].at[2] < r[b].at[2]
<1> DEFINE sig == SignaturesInRange(L, first, last)
           txs == OldestSlotFirst(L, first, last)[sig]
           r == SvmLogsInRange(L, first, last, names)
<1>1. sig \in Seq(1..Len(L)) /\ Descends(sig, InRange(L, first, last))
  BY SignaturesDescend
<1>2. r = EventsOf(L, names)[txs]
  BY DEF SvmLogsInRange
<1> HIDE DEF sig
<1>3. /\ txs \in Seq(1..Len(L))
      /\ \A k \in 1..Len(txs) : txs[k] \in InRange(L, first, last)
      /\ \A i \in InRange(L, first, last) : \E k \in 1..Len(txs) : txs[k] = i
      /\ \A k, l \in 1..Len(txs) : k < l =>
           \/ L[txs[k]].slot < L[txs[l]].slot
           \/ L[txs[k]].slot = L[txs[l]].slot /\ txs[l] < txs[k]
  BY <1>1, SlotsAscend
<1> HIDE DEF txs, r
<1>4. Exact(r, L, first, last, names) /\ \E g, h : Reads(g, h, r, L, names, txs)
  BY <1>2, <1>3, EventsAreExact
<1>5. PICK g, h : Reads(g, h, r, L, names, txs)
  BY <1>4
<1>6. ASSUME NEW a \in 1..Len(r), NEW b \in 1..Len(r), a < b
      PROVE  \/ r[a].block < r[b].block
             \/ /\ r[a].block = r[b].block
                /\ \/ r[b].at[1] < r[a].at[1]
                   \/ r[a].at[1] = r[b].at[1] /\ r[a].at[2] < r[b].at[2]
  <2>1. /\ g[a] \in 1..Len(txs) /\ g[b] \in 1..Len(txs)
        /\ r[a] = Decode(L, txs[g[a]], h[a])
        /\ r[b] = Decode(L, txs[g[b]], h[b])
        /\ Before(g[a], h[a], g[b], h[b])
    BY <1>5, <1>6 DEF Reads
  <2>2. /\ r[a].at[1] = txs[g[a]] /\ r[a].at[2] = h[a] /\ r[a].block = L[txs[g[a]]].slot
        /\ r[b].at[1] = txs[g[b]] /\ r[b].at[2] = h[b] /\ r[b].block = L[txs[g[b]]].slot
    BY <2>1 DEF Decode
  <2>3. g[a] < g[b] =>
          \/ L[txs[g[a]]].slot < L[txs[g[b]]].slot
          \/ L[txs[g[a]]].slot = L[txs[g[b]]].slot /\ txs[g[b]] < txs[g[a]]
    BY <1>3, <2>1
  <2> QED
    BY <2>1, <2>2, <2>3 DEF Before
<1> QED
  BY <1>4, <1>6 DEF r
=============================================================================
