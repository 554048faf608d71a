----------------------------- MODULE FoldProofs -----------------------------
(***************************************************************************)
(* What the folds of the community modules return: sums over finite sets,  *)
(* in any order (MapThenSumSet, SumFunction), and folds over sequences     *)
(* (FoldLeft).                                                             *)
(***************************************************************************)
EXTENDS FiniteSetsExt, Functions, FiniteSetTheorems, WellFoundedInduction, TLAPS

\* A set of naturals that is not empty has a least member.
LEMMA LeastNatural ==
    ASSUME NEW T, T \subseteq Nat, T # {}
    PROVE  \E n \in T : \A m \in T : n <= m
  <1> DEFINE R == {p \in Nat \X Nat : p[1] < p[2]}
  <1>1. IsWellFoundedOn(R, Nat)
    BY NatLessThanWellFounded DEF OpToRel
  <1> HIDE DEF R
  <1>2. PICK n \in T : \A m \in T : ~(<<m, n>> \in R)
    BY <1>1, WFMin
  <1>3. \A m \in T : ~(m < n)
    BY <1>2 DEF R
  <1>4. QED
    BY <1>3

\* The partial sums of the figures F, in the order a fold (MapThenSumSet) takes.
IsSum(sum, S, F) ==
    sum = [s \in SUBSET S |->
              IF s = {} THEN 0
              ELSE F[CHOOSE x \in s : TRUE] + sum[s \ {CHOOSE x \in s : TRUE}]]

\* The sums of a fold over a finite set exist for all its subsets: those of at
\* most n elements give those of n + 1.
LEMMA SumsExist ==
    ASSUME NEW S, IsFiniteSet(S), NEW F
    PROVE  \E g : IsSum(g, S, F)
  <1> DEFINE Upto(n) == {s \in SUBSET S : Cardinality(s) <= n}
             first(s) == CHOOSE x \in s : TRUE
             Body(g, s) == IF s = {} THEN 0 ELSE F[first(s)] + g[s \ {first(s)}]
             Bad == {n \in Nat : ~ \E g : g = [s \in Upto(n) |-> Body(g, s)]}
  <1>1. \A s \in SUBSET S : IsFiniteSet(s) /\ Cardinality(s) \in Nat
    BY FS_Subset, FS_CardinalityType
  <1>2. \A s \in SUBSET S : s # {} =>
            /\ first(s) \in s
            /\ s \ {first(s)} \in SUBSET S
            /\ Cardinality(s \ {first(s)}) = Cardinality(s) - 1
    BY <1>1, FS_RemoveElement
  <1> HIDE DEF first
  <1>3. 0 \notin Bad
    <2>1. Upto(0) = {{}}
      BY <1>1, FS_EmptySet
    <2>2. [s \in Upto(0) |-> 0] = [s \in Upto(0) |-> Body([t \in Upto(0) |-> 0], s)]
      BY <2>1
    <2>3. QED
      BY <2>2
  <1>4. ASSUME NEW n \in Nat, n \notin Bad
        PROVE  n + 1 \notin Bad
    <2>1. PICK g : g = [s \in Upto(n) |-> Body(g, s)]
      BY <1>4
    <2> DEFINE h == [s \in Upto(n + 1) |-> Body(g, s)]
    <2>2. Upto(n) \subseteq Upto(n + 1)
      BY <1>1
    <2>3. \A s \in Upto(n) : h[s] = g[s]
      BY <2>1, <2>2
    <2>4. \A s \in Upto(n + 1) : s # {} => s \ {first(s)} \in Upto(n)
      BY <1>1, <1>2
    <2>5. \A s \in Upto(n + 1) : Body(g, s) = Body(h, s)
      BY <2>3, <2>4
    <2>6. h = [s \in Upto(n + 1) |-> Body(h, s)]
      BY <2>5
    <2>7. QED
      BY <2>6
  <1>5. Bad = {}
    <2> SUFFICES ASSUME Bad # {} PROVE FALSE
      OBVIOUS
    <2> HIDE DEF Bad
    <2>1. Bad \subseteq Nat
      BY DEF Bad
    <2>2. PICK n \in Bad : \A m \in Bad : n <= m
      BY <2>1, LeastNatural
    <2>3. n # 0 /\ n - 1 \in Nat /\ n - 1 \notin Bad
      BY <1>3, <2>1, <2>2
    <2>4. QED
      BY <1>4, <2>1, <2>2, <2>3
  <1>6. Cardinality(S) \in Nat /\ Upto(Cardinality(S)) = SUBSET S
    BY <1>1, FS_Subset
  <1>7. PICK g : g = [s \in Upto(Cardinality(S)) |-> Body(g, s)]
    BY <1>5, <1>6
  <1>8. g = [s \in SUBSET S |-> Body(g, s)]
    BY <1>6, <1>7
  <1>9. QED
    BY <1>8 DEF first, IsSum

LEMMA DisjointSizes ==
    ASSUME NEW A, IsFiniteSet(A), NEW B, IsFiniteSet(B), A \cap B = {}
    PROVE  /\ IsFiniteSet(A \cup B)
           /\ Cardinality(A \cup B) = Cardinality(A) + Cardinality(B)
           /\ Cardinality(A) \in Nat /\ Cardinality(B) \in Nat
  <1>1. Cardinality(A) \in Nat /\ Cardinality(B) \in Nat
    BY FS_CardinalityType
  <1>2. Cardinality(A \cap B) = 0
    BY FS_EmptySet
  <1>3. /\ IsFiniteSet(A \cup B)
        /\ Cardinality(A \cup B) = Cardinality(A) + Cardinality(B) - Cardinality(A \cap B)
    BY FS_Union
  <1>4. QED
    BY <1>1, <1>2, <1>3

\* What agrees with the figures of single members and adds up is the sum.
LEMMA SumIsAdditive ==
    ASSUME NEW S, IsFiniteSet(S), NEW F, NEW sum, IsSum(sum, S, F),
           NEW G, G[{}] = 0,
           \A s \in SUBSET S : \A x \in s : G[s] = F[x] + G[s \ {x}]
    PROVE  sum[S] = G[S]
  <1> DEFINE first(s) == CHOOSE x \in s : TRUE
             Bad == {n \in Nat : \E s \in SUBSET S : Cardinality(s) = n /\ sum[s] # G[s]}
  <1>1. \A s \in SUBSET S : IsFiniteSet(s) /\ Cardinality(s) \in Nat
    BY FS_Subset, FS_CardinalityType
  <1>2. \A s \in SUBSET S : s # {} =>
            /\ first(s) \in s
            /\ s \ {first(s)} \in SUBSET S
            /\ Cardinality(s \ {first(s)}) = Cardinality(s) - 1
    BY <1>1, FS_RemoveElement
  <1>3. \A s \in SUBSET S :
            sum[s] = IF s = {} THEN 0 ELSE F[first(s)] + sum[s \ {first(s)}]
    BY DEF IsSum
  <1> HIDE DEF first
  <1>4. ASSUME Bad # {} PROVE FALSE
    <2> HIDE DEF Bad
    <2>1. Bad \subseteq Nat
      BY DEF Bad
    <2>2. PICK n \in Bad : \A m \in Bad : n <= m
      BY <1>4, <2>1, LeastNatural
    <2>3. PICK s \in SUBSET S : Cardinality(s) = n /\ sum[s] # G[s]
      BY <2>2 DEF Bad
    <2>4. s # {}
      BY <1>3, <2>3
    <2> DEFINE rest == s \ {first(s)}
    <2>5. /\ rest \in SUBSET S /\ Cardinality(rest) = n - 1
          /\ n \in Nat /\ n - 1 \in Nat
      BY <1>1, <1>2, <2>1, <2>3, <2>4
    <2>6. sum[s] = F[first(s)] + sum[rest] /\ G[s] = F[first(s)] + G[rest]
      BY <1>2, <1>3, <2>4
    <2> HIDE DEF rest
    <2>7. n - 1 \notin Bad
      BY <2>2, <2>5
    <2>8. sum[rest] = G[rest]
      BY <2>5, <2>7 DEF Bad
    <2>9. QED
      BY <2>3, <2>6, <2>8
  <1>5. Cardinality(S) \in Nat /\ Cardinality(S) \notin Bad
    BY <1>1, <1>4
  <1>6. QED
    BY <1>5

\* Adding up the sizes of the parts of a set that is divided along a first
\* component gives its size.
LEMMA SumOfParts ==
    ASSUME NEW S, IsFiniteSet(S), NEW K, IsFiniteSet(K), NEW F,
           \A d \in S : F[d] = Cardinality({k \in K : k[1] = d}),
           NEW sum, IsSum(sum, S, F)
    PROVE  sum[S] = Cardinality({k \in K : k[1] \in S})
  <1> DEFINE Part(s) == {k \in K : k[1] \in s}
             G == [s \in SUBSET S |-> Cardinality(Part(s))]
  <1>1. G[{}] = 0
    <2>1. Part({}) = {}
      OBVIOUS
    <2>2. QED
      BY <2>1, FS_EmptySet
  <1>2. ASSUME NEW s \in SUBSET S, NEW d \in s
        PROVE  G[s] = F[d] + G[s \ {d}]
    <2> DEFINE rest == s \ {d}
               A == {k \in K : k[1] = d}
    <2>1. A \in SUBSET K /\ Part(rest) \in SUBSET K
      OBVIOUS
    <2>2. IsFiniteSet(A) /\ IsFiniteSet(Part(rest))
      BY <2>1, FS_Subset
    <2>3. Part(s) = A \cup Part(rest) /\ A \cap Part(rest) = {}
      OBVIOUS
    <2>4. G[s] = Cardinality(Part(s)) /\ G[rest] = Cardinality(Part(rest)) /\ d \in S
      OBVIOUS
    <2> HIDE DEF G, Part, rest, A
    <2>5. Cardinality(Part(s)) = Cardinality(A) + Cardinality(Part(rest))
      BY <2>2, <2>3, DisjointSizes
    <2>6. F[d] = Cardinality(A)
      BY <2>4 DEF A
    <2>7. QED
      BY <2>4, <2>5, <2>6 DEF rest
  <1>3. G[S] = Cardinality(Part(S))
    OBVIOUS
  <1> HIDE DEF G
  <1>4. sum[S] = G[S]
    BY <1>1, <1>2, SumIsAdditive
  <1>5. QED
    BY <1>3, <1>4

\* G gives every part of S the sum of its figures, whichever comes first.
AddsUp(G, S, F) ==
    /\ G[{}] = 0
    /\ \A s \in SUBSET S : \A x \in s : G[s] = F[x] + G[s \ {x}]

LEMMA SumThatAddsUp ==
    ASSUME NEW S, IsFiniteSet(S), NEW F, NEW sum, IsSum(sum, S, F),
           NEW G, AddsUp(G, S, F)
    PROVE  sum[S] = G[S]
  BY SumIsAdditive DEF AddsUp

\* The sum of integers can be taken in any order.
LEMMA SumInAnyOrder ==
    ASSUME NEW S, IsFiniteSet(S), NEW F \in [S -> Int]
    PROVE  \E G \in [SUBSET S -> Int] : AddsUp(G, S, F)
  <1> DEFINE first(s) == CHOOSE x \in s : TRUE
             Odd(g, s) == g[s] \notin Int \/ \E x \in s : g[s] # F[x] + g[s \ {x}]
  <1>1. \A s \in SUBSET S : IsFiniteSet(s) /\ Cardinality(s) \in Nat
    BY FS_Subset, FS_CardinalityType
  <1>2. \A s \in SUBSET S : \A x \in s :
            /\ s \ {x} \in SUBSET S
            /\ Cardinality(s \ {x}) = Cardinality(s) - 1
    BY <1>1, FS_RemoveElement
  <1>3. PICK g : IsSum(g, S, F)
    BY SumsExist
  <1>4. /\ g = [s \in SUBSET S |-> g[s]]
        /\ g[{}] = 0
        /\ \A s \in SUBSET S : s # {} => first(s) \in s /\ g[s] = F[first(s)] + g[s \ {first(s)}]
    BY <1>3 DEF IsSum
  <1> DEFINE Bad == {n \in Nat : \E s \in SUBSET S : Cardinality(s) = n /\ Odd(g, s)}
  <1> HIDE DEF first, Odd
  <1>5. ASSUME Bad # {} PROVE FALSE
    <2> HIDE DEF Bad
    <2>1. Bad \subseteq Nat
      BY DEF Bad
    <2>2. PICK n \in Bad : \A m \in Bad : n <= m
      BY <1>5, <2>1, LeastNatural
    <2>3. PICK s \in SUBSET S : Cardinality(s) = n /\ Odd(g, s)
      BY <2>2 DEF Bad
    <2>4. \A t \in SUBSET S : Cardinality(t) < n => ~ Odd(g, t)
      <3>1. SUFFICES ASSUME NEW t \in SUBSET S, Cardinality(t) < n, Odd(g, t)
                     PROVE  FALSE
        OBVIOUS
      <3>2. Cardinality(t) \in Bad
        BY <1>1, <3>1 DEF Bad
      <3>3. QED
        BY <1>1, <2>1, <2>2, <3>1, <3>2
    <2>5. s # {}
      <3>1. g[{}] = 0 /\ \A x \in {} : g[{}] = F[x] + g[{} \ {x}]
        BY <1>4
      <3>2. ~ Odd(g, {})
        BY <3>1 DEF Odd
      <3>3. QED
        BY <2>3, <3>2
    <2> DEFINE a == first(s)
    <2>6. a \in s /\ g[s] = F[a] + g[s \ {a}]
      BY <1>4, <2>5
    <2> HIDE DEF a
    <2>7. ~ Odd(g, s \ {a}) /\ g[s \ {a}] \in Int
      <3>1. Cardinality(s \ {a}) < n
        BY <1>1, <1>2, <2>1, <2>3, <2>6
      <3>2. QED
        BY <1>2, <2>4, <2>6, <3>1 DEF Odd
    <2>8. g[s] \in Int
      BY <2>6, <2>7
    <2>9. PICK b \in s : g[s] # F[b] + g[s \ {b}]
      BY <2>3, <2>8 DEF Odd
    <2>10. a # b /\ b \in s \ {a} /\ a \in s \ {b}
      BY <2>6, <2>9
    <2> DEFINE rest == (s \ {a}) \ {b}
    <2>11. rest = (s \ {b}) \ {a} /\ rest \in SUBSET S
      OBVIOUS
    <2> HIDE DEF rest
    <2>12. g[s \ {a}] = F[b] + g[rest]
      BY <2>7, <2>10 DEF Odd, rest
    <2>13. ~ Odd(g, s \ {b})
      <3>1. Cardinality(s \ {b}) < n
        BY <1>1, <1>2, <2>1, <2>3, <2>9
      <3>2. QED
        BY <1>2, <2>4, <2>9, <3>1
    <2>14. g[s \ {b}] = F[a] + g[rest]
      BY <2>10, <2>11, <2>13 DEF Odd
    <2>15. Cardinality(rest) < n
      <3>1. Cardinality(s \ {a}) = Cardinality(s) - 1 /\ Cardinality(rest) = Cardinality(s \ {a}) - 1
        BY <1>2, <2>6, <2>10 DEF rest
      <3>2. QED
        BY <1>1, <2>1, <2>3, <2>6, <3>1
    <2>16. g[rest] \in Int
      BY <2>4, <2>11, <2>15 DEF Odd
    <2>17. F[a] \in Int /\ F[b] \in Int
      BY <2>6, <2>9
    <2>18. QED
      BY <2>6, <2>9, <2>12, <2>14, <2>16, <2>17
  <1>6. \A s \in SUBSET S : ~ Odd(g, s)
    BY <1>1, <1>5
  <1>7. g \in [SUBSET S -> Int]
    BY <1>4, <1>6 DEF Odd
  <1>8. AddsUp(g, S, F)
    BY <1>4, <1>6 DEF AddsUp, Odd
  <1>9. QED
    BY <1>7, <1>8

SumBy(F, S) == MapThenSumSet(LAMBDA x : F[x], S)

LEMMA SumByAddsUp ==
    ASSUME NEW S, IsFiniteSet(S), NEW F, NEW G, AddsUp(G, S, F)
    PROVE  SumBy(F, S) = G[S]
  <1> DEFINE sum == CHOOSE g : g = [s \in SUBSET S |->
                 IF s = {} THEN 0
                 ELSE F[CHOOSE x \in s : TRUE] + g[s \ {CHOOSE x \in s : TRUE}]]
  <1>1. SumBy(F, S) = sum[S]
    BY DEF SumBy, MapThenSumSet, MapThenFoldSet
  <1>2. \E g : IsSum(g, S, F)
    BY SumsExist
  <1>3. IsSum(sum, S, F)
    BY <1>2 DEF IsSum
  <1> HIDE DEF sum
  <1>4. QED
    BY <1>1, <1>3, SumThatAddsUp

\* A sum lies between its terms' least and largest value, as often as there are
\* terms.
LEMMA SumBetween ==
    ASSUME NEW S, IsFiniteSet(S), NEW F \in [S -> Int], NEW lo \in Int, NEW hi \in Int,
           \A x \in S : lo <= F[x] /\ F[x] <= hi
    PROVE  /\ SumBy(F, S) \in Int
           /\ Cardinality(S) * lo <= SumBy(F, S)
           /\ SumBy(F, S) <= Cardinality(S) * hi
  <1>1. PICK G \in [SUBSET S -> Int] : AddsUp(G, S, F)
    BY SumInAnyOrder
  <1> DEFINE Within(s) == Cardinality(s) * lo <= G[s] /\ G[s] <= Cardinality(s) * hi
             Bad == {n \in Nat : \E s \in SUBSET S : Cardinality(s) = n /\ ~Within(s)}
  <1>2. \A s \in SUBSET S : IsFiniteSet(s) /\ Cardinality(s) \in Nat
    BY FS_Subset, FS_CardinalityType
  <1>3. ASSUME Bad # {} PROVE FALSE
    <2>1. Bad \subseteq Nat
      OBVIOUS
    <2>2. PICK n \in Bad : \A m \in Bad : n <= m
      BY <1>3, <2>1, LeastNatural
    <2>3. PICK s \in SUBSET S : Cardinality(s) = n /\ ~Within(s)
      BY <2>2
    <2>4. s # {}
      <3>1. G[{}] = 0 /\ Cardinality({}) = 0 /\ 0 * lo = 0 /\ 0 * hi = 0
        BY <1>1, FS_EmptySet DEF AddsUp
      <3>2. Within({})
        BY <3>1
      <3> HIDE DEF Within
      <3>3. QED
        BY <2>3, <3>2
    <2>5. PICK x \in s : TRUE
      BY <2>4
    <2> DEFINE t == s \ {x}
    <2>6. t \in SUBSET S /\ Cardinality(t) = n - 1 /\ n \in Nat /\ n - 1 \in Nat
      <3>1. Cardinality(t) = Cardinality(s) - 1 /\ Cardinality(t) \in Nat
        BY <1>2, <2>5, FS_RemoveElement
      <3>2. QED
        BY <2>1, <2>2, <2>3, <3>1
    <2>7. Within(t)
      <3>1. n - 1 \notin Bad
        BY <2>1, <2>2, <2>6
      <3> HIDE DEF Within, t
      <3>2. QED
        BY <2>6, <3>1
    <2>8. G[s] = F[x] + G[t] /\ G[t] \in Int /\ F[x] \in Int /\ lo <= F[x] /\ F[x] <= hi
      BY <1>1, <2>5, <2>6 DEF AddsUp
    <2>9. n * lo = (n - 1) * lo + lo /\ n * hi = (n - 1) * hi + hi
      BY <2>6
    <2>10. (n - 1) * lo <= G[t] /\ G[t] <= (n - 1) * hi
      BY <2>6, <2>7
    <2>11. (n - 1) * lo \in Int /\ (n - 1) * hi \in Int
      BY <2>6
    <2> HIDE DEF t
    <2>12. n * lo <= G[s] /\ G[s] <= n * hi
      BY <2>8, <2>9, <2>10, <2>11
    <2>13. QED
      BY <2>3, <2>12
  <1>4. Within(S)
    <2>1. Cardinality(S) \in Nat /\ Cardinality(S) \notin Bad
      BY <1>2, <1>3
    <2> HIDE DEF Within
    <2>2. QED
      BY <2>1
  <1>5. SumBy(F, S) = G[S]
    BY <1>1, SumByAddsUp
  <1>6. QED
    BY <1>1, <1>4, <1>5

\* The value of a fold over positions that adds F's figures.
LEMMA SumsOfFigures ==
    ASSUME NEW n \in Nat, NEW F \in [1 .. n -> Int], NEW sum, IsSum(sum, 1 .. n, F)
    PROVE  /\ sum[1 .. n] \in Int
           /\ (\A i \in 1 .. n : F[i] = 0) => sum[1 .. n] = 0
  <1> DEFINE S == 1 .. n
  <1>1. IsFiniteSet(S) /\ F \in [S -> Int] /\ IsSum(sum, S, F)
    BY FS_Interval
  <1>2. sum[S] \in Int
    <2> HIDE DEF S
    <2>1. PICK G \in [SUBSET S -> Int] : AddsUp(G, S, F)
      BY <1>1, SumInAnyOrder
    <2>2. sum[S] = G[S]
      BY <1>1, <2>1, SumThatAddsUp
    <2>3. QED
      BY <2>1, <2>2
  <1>3. ASSUME \A i \in S : F[i] = 0
        PROVE  sum[S] = 0
    <2> DEFINE G == [s \in SUBSET S |-> 0]
    <2> HIDE DEF S
    <2>1. AddsUp(G, S, F) /\ G[S] = 0
      BY <1>3 DEF AddsUp
    <2> HIDE DEF G
    <2>2. QED
      BY <1>1, <2>1, SumThatAddsUp
  <1>4. QED
    BY <1>2, <1>3

-----------------------------------------------------------------------------
(* Folds over sequences *)

\* Positions have a largest one.
LEMMA LargestMember ==
    ASSUME NEW n \in Nat, NEW s \in SUBSET (1 .. n), s # {}
    PROVE  /\ Max(s) \in s
           /\ \A x \in s : x <= Max(s)
  <1> DEFINE T == {n - x : x \in s}
  <1>1. T \subseteq Nat
    OBVIOUS
  <1>2. T # {}
    OBVIOUS
  <1> HIDE DEF T
  <1>3. PICK d \in T : \A e \in T : d <= e
    BY <1>1, <1>2, LeastNatural
  <1>4. PICK x \in s : d = n - x
    BY DEF T
  <1>5. \A y \in s : x >= y
    <2>1. TAKE y \in s
    <2>2. n - y \in T
      BY DEF T
    <2>3. QED
      BY <1>3, <1>4, <2>2
  <1>6. QED
    BY <1>5 DEF Max

\* The steps of a fold over n positions from a first value, the last position
\* folded last (FoldLeft).
IsFold(fold, n, first, F) ==
    fold = [s \in SUBSET (1 .. n) |->
               IF s = {} THEN first ELSE F[<<fold[s \ {Max(s)}], Max(s)>>]]

\* A fold whose steps keep a type exists, with that type.
LEMMA FoldsExist ==
    ASSUME NEW n \in Nat, NEW T, NEW first \in T, NEW F \in [T \X (1 .. n) -> T]
    PROVE  \E g \in [SUBSET (1 .. n) -> T] : IsFold(g, n, first, F)
  <1> DEFINE S == 1 .. n
             Upto(k) == {s \in SUBSET S : Cardinality(s) <= k}
             Body(g, s) == IF s = {} THEN first ELSE F[<<g[s \ {Max(s)}], Max(s)>>]
             Bad == {k \in Nat : ~ \E g \in [Upto(k) -> T] : g = [s \in Upto(k) |-> Body(g, s)]}
  <1>1. IsFiniteSet(S) /\ \A s \in SUBSET S : IsFiniteSet(s) /\ Cardinality(s) \in Nat
    <2>1. IsFiniteSet(S)
      BY FS_Interval
    <2> HIDE DEF S
    <2>2. QED
      BY <2>1, FS_Subset, FS_CardinalityType
  <1>2. \A s \in SUBSET S : s # {} =>
            /\ Max(s) \in s
            /\ s \ {Max(s)} \in SUBSET S
            /\ Cardinality(s \ {Max(s)}) = Cardinality(s) - 1
    BY <1>1, LargestMember, FS_RemoveElement
  <1> HIDE DEF S
  <1>3. 0 \notin Bad
    <2>1. Upto(0) = {{}}
      BY <1>1, FS_EmptySet
    <2> DEFINE h == [s \in Upto(0) |-> first]
    <2>2. h = [s \in Upto(0) |-> Body(h, s)]
      BY <2>1
    <2>3. h \in [Upto(0) -> T]
      OBVIOUS
    <2> HIDE DEF h
    <2>4. QED
      BY <2>2, <2>3
  <1>4. ASSUME NEW k \in Nat, k \notin Bad
        PROVE  k + 1 \notin Bad
    <2>1. PICK g \in [Upto(k) -> T] : g = [s \in Upto(k) |-> Body(g, s)]
      BY <1>4
    <2> DEFINE h == [s \in Upto(k + 1) |-> Body(g, s)]
    <2>2. Upto(k) \subseteq Upto(k + 1)
      BY <1>1
    <2>3. \A s \in Upto(k) : h[s] = g[s]
      BY <2>1, <2>2
    <2>4. \A s \in Upto(k + 1) : s # {} => s \ {Max(s)} \in Upto(k)
      BY <1>1, <1>2
    <2>5. \A s \in Upto(k + 1) : Body(g, s) = Body(h, s)
      BY <2>3, <2>4
    <2>6. h = [s \in Upto(k + 1) |-> Body(h, s)]
      BY <2>5
    <2>7. \A s \in Upto(k + 1) : Body(g, s) \in T
      <3>1. TAKE s \in Upto(k + 1)
      <3>2. CASE s # {}
        <4>1. g[s \ {Max(s)}] \in T /\ Max(s) \in S
          BY <1>2, <2>4, <3>2
        <4>2. F \in [T \X S -> T]
          BY DEF S
        <4>3. QED
          BY <3>2, <4>1, <4>2
      <3>3. QED
        BY <3>2
    <2>8. h \in [Upto(k + 1) -> T]
      BY <2>7
    <2> HIDE DEF h
    <2>9. QED
      BY <2>6, <2>8
  <1>5. Bad = {}
    <2> SUFFICES ASSUME Bad # {} PROVE FALSE
      OBVIOUS
    <2> HIDE DEF Bad
    <2>1. Bad \subseteq Nat
      BY DEF Bad
    <2>2. PICK k \in Bad : \A m \in Bad : k <= m
      BY <2>1, LeastNatural
    <2>3. k # 0 /\ k - 1 \in Nat /\ k - 1 \notin Bad
      BY <1>3, <2>1, <2>2
    <2>4. QED
      BY <1>4, <2>1, <2>2, <2>3
  <1>6. Cardinality(S) \in Nat /\ Upto(Cardinality(S)) = SUBSET S
    BY <1>1, FS_Subset
  <1>7. PICK g \in [Upto(Cardinality(S)) -> T] :
            g = [s \in Upto(Cardinality(S)) |-> Body(g, s)]
    BY <1>5, <1>6
  <1>8. g \in [SUBSET S -> T] /\ g = [s \in SUBSET S |-> Body(g, s)]
    BY <1>6, <1>7
  <1>9. QED
    BY <1>8 DEF S, IsFold

\* The last of the first k positions is k, and the others are the first k - 1.
LEMMA FirstPositions ==
    ASSUME NEW k \in Nat, k # 0
    PROVE  Max(1 .. k) = k /\ (1 .. k) \ {k} = 1 .. k - 1
  <1>1. Max(1 .. k) \in 1 .. k /\ k <= Max(1 .. k)
    <2> DEFINE s == 1 .. k
    <2>1. s \in SUBSET (1 .. k) /\ s # {} /\ k \in s
      OBVIOUS
    <2> HIDE DEF s
    <2>2. Max(s) \in s /\ k <= Max(s)
      BY <2>1, LargestMember
    <2>3. QED
      BY <2>2 DEF s
  <1>2. QED
    BY <1>1

\* A fold that steps through n positions stays within U, and within what each
\* step keeps from one position to the next.
LEMMA FoldKeeps ==
    ASSUME NEW n \in Nat, NEW U, NEW P, NEW F, NEW fold,
           fold[{}] \in U /\ fold[{}] \in P[0],
           \A k \in 1 .. n : fold[1 .. k - 1] \in U => fold[1 .. k] = F[<<fold[1 .. k - 1], k>>],
           \A k \in 1 .. n : \A acc \in U :
               /\ F[<<acc, k>>] \in U
               /\ acc \in P[k - 1] => F[<<acc, k>>] \in P[k]
    PROVE  fold[1 .. n] \in U /\ fold[1 .. n] \in P[n]
  <1> DEFINE Fine(k) == fold[1 .. k] \in U /\ fold[1 .. k] \in P[k]
             Bad == {k \in 0 .. n : ~Fine(k)}
  <1>1. Bad = {}
    <2> SUFFICES ASSUME Bad # {} PROVE FALSE
      OBVIOUS
    <2>1. Bad \subseteq Nat
      OBVIOUS
    <2> HIDE DEF Bad
    <2>2. PICK k \in Bad : \A m \in Bad : k <= m
      BY <2>1, LeastNatural
    <2>3. k \in 0 .. n /\ ~Fine(k)
      BY DEF Bad
    <2>4. k # 0
      <3>1. 1 .. 0 = {}
        OBVIOUS
      <3>2. QED
        BY <2>3, <3>1
    <2>5. k \in 1 .. n /\ k - 1 \in 0 .. n /\ k - 1 \notin Bad
      BY <2>1, <2>2, <2>3, <2>4
    <2>6. Fine(k - 1)
      BY <2>5 DEF Bad
    <2>7. Fine(k)
      BY <2>5, <2>6
    <2>8. QED
      BY <2>3, <2>7
  <1>2. n \in 0 .. n
    OBVIOUS
  <1>3. Fine(n)
    BY <1>1, <1>2
  <1>4. QED
    BY <1>3

\* The same of one type for all positions.
LEMMA FoldStays ==
    ASSUME NEW n \in Nat, NEW U, NEW F, NEW fold, fold[{}] \in U,
           \A k \in 1 .. n : fold[1 .. k - 1] \in U => fold[1 .. k] = F[<<fold[1 .. k - 1], k>>],
           \A k \in 1 .. n, acc \in U : F[<<acc, k>>] \in U
    PROVE  fold[1 .. n] \in U
  <1> DEFINE P == [k \in 0 .. n |-> U]
  <1>1. \A k \in 0 .. n : P[k] = U
    OBVIOUS
  <1> HIDE DEF P
  <1>2. fold[{}] \in U /\ fold[{}] \in P[0]
    BY <1>1
  <1>3. \A k \in 1 .. n : \A acc \in U :
            F[<<acc, k>>] \in U /\ (acc \in P[k - 1] => F[<<acc, k>>] \in P[k])
    <2>1. TAKE k \in 1 .. n
    <2>2. TAKE acc \in U
    <2>3. F[<<acc, k>>] \in U /\ P[k] = U
      BY <1>1
    <2>4. QED
      BY <2>3
  <1>4. QED
    BY <1>2, <1>3, FoldKeeps

-----------------------------------------------------------------------------
(* Orders of finite sets *)

\* R puts the members of S in a strict order.
IsOrder(R, S) ==
    /\ \A x \in S : <<x, x>> \notin R
    /\ \A x, y, z \in S : <<x, y>> \in R /\ <<y, z>> \in R => <<x, z>> \in R
    /\ \A x, y \in S : x # y => <<x, y>> \in R \/ <<y, x>> \in R

RankIn(R, S, x) == Cardinality({y \in S : <<y, x>> \in R})

\* The number of those before it tells the place of each member, and there is
\* one member for each place.
LEMMA RanksAreIncreasing ==
    ASSUME NEW S, IsFiniteSet(S), NEW R, IsOrder(R, S)
    PROVE  /\ Cardinality(S) \in Nat
           /\ \A x \in S : RankIn(R, S, x) \in 0 .. Cardinality(S) - 1
           /\ \A x, y \in S : <<x, y>> \in R => RankIn(R, S, x) < RankIn(R, S, y)
  <1> DEFINE Above(x) == {y \in S : <<y, x>> \in R}
  <1>1. Cardinality(S) \in Nat
    BY FS_CardinalityType
  <1>2. \A x \in S : /\ IsFiniteSet(Above(x)) /\ Cardinality(Above(x)) \in Nat
                     /\ x \notin Above(x) /\ Above(x) \in SUBSET S
    <2>1. TAKE x \in S
    <2>2. Above(x) \in SUBSET S /\ x \notin Above(x)
      BY DEF IsOrder
    <2>3. QED
      BY <2>2, FS_Subset, FS_CardinalityType
  <1>3. \A x \in S : Cardinality(Above(x)) < Cardinality(S)
    <2>1. TAKE x \in S
    <2>2. Above(x) \in SUBSET S /\ Above(x) # S
      BY <1>2
    <2> HIDE DEF Above
    <2>3. Cardinality(Above(x)) <= Cardinality(S) /\ Cardinality(S) # Cardinality(Above(x))
      BY <2>2, FS_Subset
    <2>4. QED
      BY <1>1, <1>2, <2>3
  <1>4. ASSUME NEW x \in S, NEW y \in S, <<x, y>> \in R
        PROVE  Cardinality(Above(x)) < Cardinality(Above(y))
    <2> DEFINE A == Above(x)
               B == Above(y)
    <2>1. A \in SUBSET B
      BY <1>4 DEF IsOrder
    <2>2. x \in B /\ x \notin A
      BY <1>2, <1>4
    <2>3. IsFiniteSet(B) /\ Cardinality(A) \in Nat /\ Cardinality(B) \in Nat
      BY <1>2
    <2> HIDE DEF A, B
    <2>4. Cardinality(A) <= Cardinality(B) /\ Cardinality(B) # Cardinality(A)
      BY <2>1, <2>2, <2>3, FS_Subset
    <2>5. Cardinality(A) < Cardinality(B)
      BY <2>3, <2>4
    <2>6. QED
      BY <2>5 DEF A, B
  <1>5. \A x \in S : RankIn(R, S, x) = Cardinality(Above(x))
    BY DEF RankIn
  <1> HIDE DEF Above
  <1>6. \A x \in S : RankIn(R, S, x) \in 0 .. Cardinality(S) - 1
    BY <1>1, <1>2, <1>3, <1>5
  <1>7. \A x, y \in S : <<x, y>> \in R => RankIn(R, S, x) < RankIn(R, S, y)
    BY <1>4, <1>5
  <1>8. QED
    BY <1>1, <1>6, <1>7

LEMMA RanksArePlaces ==
    ASSUME NEW S, IsFiniteSet(S), NEW R, IsOrder(R, S)
    PROVE  /\ \A x, y \in S : RankIn(R, S, x) = RankIn(R, S, y) => x = y
           /\ \A x, y \in S : <<x, y>> \in R <=> RankIn(R, S, x) < RankIn(R, S, y)
           /\ \A k \in 0 .. Cardinality(S) - 1 : \E x \in S : RankIn(R, S, x) = k
  <1> DEFINE n == Cardinality(S)
             rank(x) == RankIn(R, S, x)
             f == [x \in S |-> rank(x)]
  <1>1. /\ n \in Nat
        /\ \A x \in S : rank(x) \in 0 .. n - 1
        /\ \A x, y \in S : <<x, y>> \in R => rank(x) < rank(y)
    BY RanksAreIncreasing
  <1> HIDE DEF n, rank
  <1>2. \A x \in S : rank(x) \in Int
    BY <1>1
  <1>3. \A x, y \in S : rank(x) = rank(y) => x = y
    <2>1. TAKE x, y \in S
    <2>2. x # y => <<x, y>> \in R \/ <<y, x>> \in R
      BY DEF IsOrder
    <2>3. <<x, y>> \in R => rank(x) < rank(y)
      BY <1>1
    <2>4. <<y, x>> \in R => rank(y) < rank(x)
      BY <1>1
    <2>5. rank(x) \in Int /\ rank(y) \in Int
      BY <1>2
    <2>6. QED
      BY <2>2, <2>3, <2>4, <2>5
  <1>4. \A x, y \in S : <<x, y>> \in R <=> rank(x) < rank(y)
    <2>1. TAKE x, y \in S
    <2>2. x # y => <<x, y>> \in R \/ <<y, x>> \in R
      BY DEF IsOrder
    <2>3. <<x, y>> \in R => rank(x) < rank(y)
      BY <1>1
    <2>4. <<y, x>> \in R => rank(y) < rank(x)
      BY <1>1
    <2>5. rank(x) \in Int /\ rank(y) \in Int
      BY <1>2
    <2>6. CASE x = y
      BY <2>3, <2>5, <2>6
    <2>7. CASE x # y
      BY <2>2, <2>3, <2>4, <2>5, <2>7
    <2>8. QED
      BY <2>6, <2>7
  <1>5. f \in Injection(S, 0 .. n - 1)
    BY <1>1, <1>3 DEF Injection, IsInjective
  <1>6. IsFiniteSet(0 .. n - 1) /\ Cardinality(0 .. n - 1) = n
    BY <1>1, FS_Interval
  <1>7. f \in Surjection(S, 0 .. n - 1)
    <2> HIDE DEF f
    <2>1. Cardinality(S) = Cardinality(0 .. n - 1)
      BY <1>6 DEF n
    <2>2. QED
      BY <1>5, <1>6, <2>1, FS_Injection
  <1>8. \A k \in 0 .. n - 1 : \E x \in S : rank(x) = k
    BY <1>7 DEF Surjection
  <1>9. QED
    BY <1>3, <1>4, <1>8 DEF n, rank

\* The members one after the other, from the first to the last.
InOrderOf(R, S) == [k \in 1 .. Cardinality(S) |-> CHOOSE x \in S : RankIn(R, S, x) = k - 1]

LEMMA MembersInOrder ==
    ASSUME NEW S, IsFiniteSet(S), NEW R, IsOrder(R, S)
    PROVE  /\ Cardinality(S) \in Nat
           /\ InOrderOf(R, S) \in [1 .. Cardinality(S) -> S]
           /\ \A k \in 1 .. Cardinality(S) : RankIn(R, S, InOrderOf(R, S)[k]) = k - 1
           /\ \A k, l \in 1 .. Cardinality(S) :
                k < l => <<InOrderOf(R, S)[k], InOrderOf(R, S)[l]>> \in R
           /\ \A x \in S : /\ RankIn(R, S, x) + 1 \in 1 .. Cardinality(S)
                           /\ InOrderOf(R, S)[RankIn(R, S, x) + 1] = x
  <1> DEFINE n == Cardinality(S)
             p == InOrderOf(R, S)
             rank(x) == RankIn(R, S, x)
  <1>1. /\ n \in Nat
        /\ \A x \in S : rank(x) \in 0 .. n - 1
        /\ \A x, y \in S : rank(x) = rank(y) => x = y
        /\ \A x, y \in S : <<x, y>> \in R <=> rank(x) < rank(y)
        /\ \A k \in 0 .. n - 1 : \E x \in S : rank(x) = k
    BY RanksAreIncreasing, RanksArePlaces
  <1>2. p = [k \in 1 .. n |-> CHOOSE x \in S : rank(x) = k - 1]
    BY DEF InOrderOf
  <1> HIDE DEF n, rank, p
  <1>3. ASSUME NEW k \in 1 .. n
        PROVE  p[k] \in S /\ rank(p[k]) = k - 1
    <2>1. k - 1 \in 0 .. n - 1
      BY <1>1
    <2>2. PICK x \in S : rank(x) = k - 1
      BY <1>1, <2>1
    <2>3. QED
      BY <1>2, <2>2
  <1>4. p \in [1 .. n -> S]
    BY <1>2, <1>3
  <1>5. \A k, l \in 1 .. n : k < l => <<p[k], p[l]>> \in R
    <2>1. TAKE k, l \in 1 .. n
    <2>2. HAVE k < l
    <2>3. /\ p[k] \in S /\ rank(p[k]) = k - 1
          /\ p[l] \in S /\ rank(p[l]) = l - 1
      BY <1>3
    <2>4. rank(p[k]) < rank(p[l])
      BY <1>1, <2>2, <2>3
    <2>5. QED
      BY <1>1, <2>3, <2>4
  <1>6. ASSUME NEW x \in S
        PROVE  rank(x) + 1 \in 1 .. n /\ p[rank(x) + 1] = x
    <2>1. rank(x) + 1 \in 1 .. n /\ (rank(x) + 1) - 1 = rank(x)
      BY <1>1
    <2>2. p[rank(x) + 1] \in S /\ rank(p[rank(x) + 1]) = rank(x)
      BY <1>3, <2>1
    <2>3. QED
      BY <1>1, <2>1, <2>2
  <1>7. QED
    BY <1>1, <1>3, <1>4, <1>5, <1>6 DEF n, rank, p

\* An order of a finite set has a first and a last member.
LEMMA FirstAndLast ==
    ASSUME NEW S, IsFiniteSet(S), S # {}, NEW R, IsOrder(R, S)
    PROVE  /\ \E x \in S : \A y \in S \ {x} : <<x, y>> \in R
           /\ \E x \in S : \A y \in S \ {x} : <<y, x>> \in R
  <1> DEFINE n == Cardinality(S)
             rank(x) == RankIn(R, S, x)
  <1>1. n \in Nat /\ n # 0
    BY FS_CardinalityType, FS_EmptySet
  <1>2. /\ \A x \in S : rank(x) \in 0 .. n - 1
        /\ \A x, y \in S : <<x, y>> \in R => rank(x) < rank(y)
        /\ \A k \in 0 .. n - 1 : \E x \in S : rank(x) = k
    BY RanksAreIncreasing, RanksArePlaces
  <1> HIDE DEF n, rank
  <1>3. PICK a \in S : rank(a) = 0
    BY <1>1, <1>2
  <1>4. PICK b \in S : rank(b) = n - 1
    BY <1>1, <1>2
  <1>5. \A y \in S : <<y, a>> \notin R /\ <<b, y>> \notin R
    <2>1. TAKE y \in S
    <2>2. rank(y) \in 0 .. n - 1
      BY <1>2
    <2>3. ~ rank(y) < rank(a) /\ ~ rank(b) < rank(y)
      BY <1>1, <1>3, <1>4, <2>2
    <2>4. QED
      BY <1>2, <2>3
  <1>6. \A y \in S \ {a} : <<a, y>> \in R
    BY <1>5 DEF IsOrder
  <1>7. \A y \in S \ {b} : <<y, b>> \in R
    BY <1>5 DEF IsOrder
  <1>8. QED
    BY <1>6, <1>7

\* There are finitely many values over a finite set.
LEMMA ValuesAreFinite ==
    ASSUME NEW S, IsFiniteSet(S), NEW F
    PROVE  IsFiniteSet({F[x] : x \in S})
  <1> DEFINE V == {F[x] : x \in S}
             g == [x \in S |-> F[x]]
  <1>1. g \in Surjection(S, V)
    BY DEF Surjection
  <1> HIDE DEF g
  <1>2. QED
    BY <1>1, FS_Surjection

\* A finite set of numbers has a least and a largest one.
LEMMA LeastAndLargest ==
    ASSUME NEW V, IsFiniteSet(V), V # {}, V \subseteq Int
    PROVE  /\ Min(V) \in V /\ \A x \in V : Min(V) <= x
           /\ Max(V) \in V /\ \A x \in V : x <= Max(V)
  <1> DEFINE R == {p \in V \X V : p[1] < p[2]}
  <1>1. \A x, y \in V : <<x, y>> \in R <=> x < y
    OBVIOUS
  <1> HIDE DEF R
  <1>2. IsOrder(R, V)
    BY <1>1 DEF IsOrder
  <1>3. PICK a \in V : \A y \in V \ {a} : <<a, y>> \in R
    BY <1>2, FirstAndLast
  <1>4. PICK b \in V : \A y \in V \ {b} : <<y, b>> \in R
    BY <1>2, FirstAndLast
  <1>5. \A x \in V : a <= x /\ x <= b
    <2>1. TAKE x \in V
    <2>2. x \in Int /\ a \in Int /\ b \in Int
      OBVIOUS
    <2>3. x = a \/ a < x
      BY <1>1, <1>3
    <2>4. x = b \/ x < b
      BY <1>1, <1>4
    <2>5. QED
      BY <2>2, <2>3, <2>4
  <1>6. Min(V) \in V /\ \A x \in V : Min(V) <= x
    BY <1>5 DEF Min
  <1>7. Max(V) \in V /\ \A x \in V : Max(V) >= x
    BY <1>5 DEF Max
  <1>8. QED
    BY <1>6, <1>7

\* A member not above the others is the least one.
LEMMA LeastIsMin ==
    ASSUME NEW S, S \subseteq Int, NEW a \in S, \A x \in S : a <= x
    PROVE  Min(S) = a
  <1>1. \E y \in S : \A x \in S : y <= x
    OBVIOUS
  <1>2. Min(S) \in S /\ \A x \in S : Min(S) <= x
    BY <1>1 DEF Min
  <1>3. Min(S) <= a /\ a <= Min(S) /\ Min(S) \in Int
    BY <1>2
  <1>4. QED
    BY <1>3

\* The larger and the smaller of two numbers.
LEMMA ExtremesOfTwo ==
    ASSUME NEW a \in Int, NEW b \in Int
    PROVE  /\ Max({a, b}) \in {a, b} /\ Max({a, b}) >= a /\ Max({a, b}) >= b
           /\ Min({a, b}) \in {a, b} /\ Min({a, b}) <= a /\ Min({a, b}) <= b
  <1>1. \E x \in {a, b} : \A y \in {a, b} : x >= y
    OBVIOUS
  <1>2. \E x \in {a, b} : \A y \in {a, b} : x <= y
    OBVIOUS
  <1>3. Max({a, b}) \in {a, b} /\ \A y \in {a, b} : Max({a, b}) >= y
    BY <1>1 DEF Max
  <1>4. Min({a, b}) \in {a, b} /\ \A y \in {a, b} : Min({a, b}) <= y
    BY <1>2 DEF Min
  <1>5. QED
    BY <1>3, <1>4

-----------------------------------------------------------------------------
(* Sets whose members are paired *)

\* f pairs the members of S with those of T.
Pairs(f, S, T) ==
    /\ f \in [S -> T]
    /\ \A x, y \in S : f[x] = f[y] => x = y
    /\ \A z \in T : \E x \in S : f[x] = z

LEMMA PairedSizes ==
    ASSUME NEW S, NEW T, NEW f, Pairs(f, S, T), IsFiniteSet(S) \/ IsFiniteSet(T)
    PROVE  IsFiniteSet(S) /\ IsFiniteSet(T) /\ Cardinality(S) = Cardinality(T)
  <1>1. f \in Injection(S, T) /\ f \in Surjection(S, T)
    BY DEF Pairs, Injection, IsInjective, Surjection
  <1>2. IsFiniteSet(S)
    BY <1>1, FS_Injection
  <1>3. QED
    BY <1>1, <1>2, FS_Surjection, FS_Injection

\* As many of S are paired with members of U as U has.
LEMMA PairedParts ==
    ASSUME NEW S, NEW T, NEW f, Pairs(f, S, T), IsFiniteSet(T), NEW U \in SUBSET T
    PROVE  Cardinality({x \in S : f[x] \in U}) = Cardinality(U)
  <1> DEFINE R == {x \in S : f[x] \in U}
             g == [x \in R |-> f[x]]
  <1>1. g \in [R -> U]
    OBVIOUS
  <1>2. Pairs(g, R, U)
    BY <1>1 DEF Pairs
  <1>3. IsFiniteSet(U)
    BY FS_Subset
  <1> HIDE DEF R, g
  <1>4. QED
    BY <1>2, <1>3, PairedSizes DEF R

-----------------------------------------------------------------------------
(* Sums over functions *)

\* What SumFunction adds is the sum of the values, whichever comes first.
LEMMA SumFunctionAddsUp ==
    ASSUME NEW S, IsFiniteSet(S), NEW F, DOMAIN F = S, NEW G, AddsUp(G, S, F)
    PROVE  SumFunction(F) = G[S]
  <1> DEFINE sum == CHOOSE g : g = [s \in SUBSET S |->
                 IF s = {} THEN 0
                 ELSE F[CHOOSE x \in s : TRUE] + g[s \ {CHOOSE x \in s : TRUE}]]
  <1>1. SumFunction(F) = sum[S]
    BY DEF SumFunction, SumFunctionOnSet, FoldFunctionOnSet, MapThenFoldSet
  <1>2. \E g : IsSum(g, S, F)
    BY SumsExist
  <1>3. IsSum(sum, S, F)
    BY <1>2 DEF IsSum
  <1> HIDE DEF sum
  <1>4. QED
    BY <1>1, <1>3, SumThatAddsUp

\* The sum of what F gives the members of s.
PartialSum(F, s) == SumFunction([x \in s |-> F[x]])

LEMMA SumsOfParts ==
    ASSUME NEW S, IsFiniteSet(S), NEW F \in [S -> Int]
    PROVE  \E G \in [SUBSET S -> Int] :
               /\ AddsUp(G, S, F)
               /\ \A s \in SUBSET S : PartialSum(F, s) = G[s]
               /\ SumFunction(F) = G[S]
  <1>1. PICK G \in [SUBSET S -> Int] : AddsUp(G, S, F)
    BY SumInAnyOrder
  <1>2. ASSUME NEW s \in SUBSET S
        PROVE  PartialSum(F, s) = G[s]
    <2> DEFINE P == [x \in s |-> F[x]]
    <2>1. AddsUp(G, s, P)
      BY <1>1 DEF AddsUp
    <2>2. IsFiniteSet(s) /\ DOMAIN P = s
      BY FS_Subset
    <2> HIDE DEF P
    <2>3. SumFunction(P) = G[s]
      BY <2>1, <2>2, SumFunctionAddsUp
    <2>4. QED
      BY <2>3 DEF PartialSum, P
  <1>3. SumFunction(F) = G[S]
    <2>1. DOMAIN F = S
      OBVIOUS
    <2>2. QED
      BY <1>1, <2>1, SumFunctionAddsUp
  <1>4. QED
    BY <1>1, <1>2, <1>3

LEMMA SumIsWhole ==
    ASSUME NEW S, IsFiniteSet(S), NEW F \in [S -> Int]
    PROVE  SumFunction(F) \in Int
  <1>1. PICK G \in [SUBSET S -> Int] : SumFunction(F) = G[S]
    BY SumsOfParts
  <1>2. QED
    BY <1>1

\* Nothing adds up to 0, and one value to itself.
LEMMA SumOfOne ==
    ASSUME NEW F
    PROVE  /\ PartialSum(F, {}) = 0
           /\ \A x : F[x] \in Int => PartialSum(F, {x}) = F[x]
  <1>1. PartialSum(F, {}) = 0
    <2> DEFINE P == [x \in {} |-> F[x]]
               G == [s \in {{}} |-> 0]
    <2>1. AddsUp(G, {}, P) /\ DOMAIN P = {} /\ G[{}] = 0
      BY DEF AddsUp
    <2> HIDE DEF P, G
    <2>2. SumFunction(P) = 0
      BY <2>1, FS_EmptySet, SumFunctionAddsUp
    <2>3. QED
      BY <2>2 DEF PartialSum, P
  <1>2. ASSUME NEW x, F[x] \in Int
        PROVE  PartialSum(F, {x}) = F[x]
    <2> DEFINE P == [y \in {x} |-> F[y]]
               G == [s \in SUBSET {x} |-> IF s = {} THEN 0 ELSE F[x]]
    <2>1. AddsUp(G, {x}, P) /\ DOMAIN P = {x} /\ G[{x}] = F[x]
      <3>1. \A s \in SUBSET {x} : \A y \in s : y = x /\ s \ {y} = {} /\ G[s] = F[x]
        OBVIOUS
      <3>2. G[{}] = 0 /\ P[x] = F[x]
        OBVIOUS
      <3>3. G[{x}] = F[x]
        OBVIOUS
      <3> HIDE DEF G, P
      <3>4. ASSUME NEW s \in SUBSET {x}, NEW y \in s
            PROVE  G[s] = P[y] + G[s \ {y}]
        <4>1. y = x /\ s \ {y} = {} /\ G[s] = F[x]
          BY <3>1
        <4>2. P[y] = F[x] /\ G[s \ {y}] = 0
          BY <3>2, <4>1
        <4>3. F[x] + 0 = F[x]
          BY <1>2
        <4>4. QED
          BY <4>1, <4>2, <4>3
      <3>4a. AddsUp(G, {x}, P)
        BY <3>2, <3>4 DEF AddsUp
      <3>5. QED
        BY <3>3, <3>4a DEF P
    <2>2. IsFiniteSet({x})
      BY FS_Singleton
    <2> HIDE DEF P, G
    <2>3. SumFunction(P) = F[x]
      BY <2>1, <2>2, SumFunctionAddsUp
    <2>4. QED
      BY <2>3 DEF PartialSum, P
  <1>3. QED
    BY <1>1, <1>2

\* Two parts without a common member add up.
LEMMA SumOfTwoParts ==
    ASSUME NEW S, IsFiniteSet(S), NEW F \in [S -> Int],
           NEW A \in SUBSET S, NEW B \in SUBSET S, A \cap B = {}
    PROVE  /\ PartialSum(F, A \cup B) = PartialSum(F, A) + PartialSum(F, B)
           /\ PartialSum(F, A) \in Int /\ PartialSum(F, B) \in Int
           /\ PartialSum(F, A \cup B) \in Int
  <1>1. PICK G \in [SUBSET S -> Int] :
            /\ AddsUp(G, S, F)
            /\ \A s \in SUBSET S : PartialSum(F, s) = G[s]
            /\ SumFunction(F) = G[S]
    BY SumsOfParts
  <1> DEFINE P == [x \in B |-> F[x]]
             H == [s \in SUBSET B |-> G[A \cup s] - G[A]]
  <1>2. AddsUp(H, B, P)
    <2>1. H[{}] = 0
      <3>1. A \cup {} = A /\ G[A] \in Int /\ {} \in SUBSET B
        OBVIOUS
      <3>2. QED
        BY <3>1
    <2>2. ASSUME NEW s \in SUBSET B, NEW x \in s
          PROVE  H[s] = P[x] + H[s \ {x}]
      <3>1. A \cup s \in SUBSET S /\ x \in A \cup s /\ (A \cup s) \ {x} = A \cup (s \ {x})
        OBVIOUS
      <3>2. G[A \cup s] = F[x] + G[A \cup (s \ {x})]
        BY <1>1, <3>1 DEF AddsUp
      <3>3. G[A \cup (s \ {x})] \in Int /\ G[A] \in Int /\ F[x] \in Int
        BY <3>1
      <3>4. H[s] = G[A \cup s] - G[A] /\ H[s \ {x}] = G[A \cup (s \ {x})] - G[A] /\ P[x] = F[x]
        OBVIOUS
      <3> HIDE DEF H, P
      <3>5. QED
        BY <3>2, <3>3, <3>4
    <2> HIDE DEF H
    <2>3. QED
      BY <2>1, <2>2 DEF AddsUp
  <1>3. IsFiniteSet(B) /\ DOMAIN P = B
    BY FS_Subset
  <1>4. H[B] = G[A \cup B] - G[A]
    OBVIOUS
  <1> HIDE DEF P, H
  <1>5. SumFunction(P) = H[B]
    BY <1>2, <1>3, SumFunctionAddsUp
  <1>6. PartialSum(F, B) = G[A \cup B] - G[A]
    BY <1>4, <1>5 DEF PartialSum, P
  <1>7. /\ PartialSum(F, A) = G[A] /\ PartialSum(F, A \cup B) = G[A \cup B]
        /\ G[A] \in Int /\ G[A \cup B] \in Int
    <2>1. A \cup B \in SUBSET S
      OBVIOUS
    <2>2. QED
      BY <1>1, <2>1
  <1>8. QED
    BY <1>6, <1>7

\* The sums of the classes f puts the members of S into add up to the whole.
LEMMA SumOfClasses ==
    ASSUME NEW S, IsFiniteSet(S), NEW F \in [S -> Int],
           NEW K, IsFiniteSet(K), NEW f \in [S -> K],
           NEW C, DOMAIN C = K,
           \A k \in K : C[k] = PartialSum(F, {x \in S : f[x] = k})
    PROVE  SumFunction(C) = SumFunction(F)
  <1>1. PICK G \in [SUBSET S -> Int] :
            /\ AddsUp(G, S, F)
            /\ \A s \in SUBSET S : PartialSum(F, s) = G[s]
            /\ SumFunction(F) = G[S]
    BY SumsOfParts
  <1> DEFINE Of(J) == {x \in S : f[x] \in J}
             H == [J \in SUBSET K |-> PartialSum(F, Of(J))]
  <1>2. AddsUp(H, K, C)
    <2>1. H[{}] = 0
      <3>1. Of({}) = {} /\ {} \in SUBSET K
        OBVIOUS
      <3>2. H[{}] = PartialSum(F, {})
        BY <3>1
      <3>3. QED
        BY <3>2, SumOfOne
    <2>2. ASSUME NEW J \in SUBSET K, NEW k \in J
          PROVE  H[J] = C[k] + H[J \ {k}]
      <3> DEFINE A == {x \in S : f[x] = k}
                 B == Of(J \ {k})
      <3>1. A \in SUBSET S /\ B \in SUBSET S /\ A \cap B = {} /\ A \cup B = Of(J)
        OBVIOUS
      <3>2. H[J] = PartialSum(F, Of(J)) /\ H[J \ {k}] = PartialSum(F, B)
        OBVIOUS
      <3>3. C[k] = PartialSum(F, A)
        OBVIOUS
      <3> HIDE DEF A, B, H, Of
      <3>4. PartialSum(F, A \cup B) = PartialSum(F, A) + PartialSum(F, B)
        BY <3>1, SumOfTwoParts
      <3>5. QED
        BY <3>1, <3>2, <3>3, <3>4
    <2> HIDE DEF H
    <2>3. QED
      BY <2>1, <2>2 DEF AddsUp
  <1>3. H[K] = G[S]
    <2>1. Of(K) = S /\ S \in SUBSET S
      OBVIOUS
    <2>2. PartialSum(F, S) = G[S]
      BY <1>1, <2>1
    <2>3. QED
      BY <2>1, <2>2
  <1> HIDE DEF H
  <1>4. SumFunction(C) = H[K]
    BY <1>2, SumFunctionAddsUp
  <1>5. QED
    BY <1>1, <1>3, <1>4

\* The sum of integers does not depend on what they are attached to.
LEMMA SumOfPairs ==
    ASSUME NEW S, NEW T, NEW f, Pairs(f, S, T), IsFiniteSet(S) \/ IsFiniteSet(T),
           NEW F \in [S -> Int], NEW C, DOMAIN C = T, \A x \in S : C[f[x]] = F[x]
    PROVE  SumFunction(C) = SumFunction(F)
  <1>1. IsFiniteSet(S) /\ IsFiniteSet(T)
    BY PairedSizes
  <1>2. f \in [S -> T]
    BY DEF Pairs
  <1>3. ASSUME NEW t \in T
        PROVE  C[t] = PartialSum(F, {x \in S : f[x] = t})
    <2>1. PICK x \in S : f[x] = t
      BY DEF Pairs
    <2>2. {y \in S : f[y] = t} = {x}
      BY <2>1 DEF Pairs
    <2>3. PartialSum(F, {x}) = F[x]
      <3>1. F[x] \in Int
        OBVIOUS
      <3>2. QED
        BY <3>1, SumOfOne
    <2>4. C[t] = F[x]
      BY <2>1
    <2>5. QED
      BY <2>2, <2>3, <2>4
  <1>4. QED
    BY <1>1, <1>2, <1>3, SumOfClasses

\* A sum lies between its terms' least and largest value, as often as there are
\* terms.
LEMMA SumWithin ==
    ASSUME NEW S, IsFiniteSet(S), NEW F \in [S -> Int], NEW lo \in Int, NEW hi \in Int,
           \A x \in S : lo <= F[x] /\ F[x] <= hi
    PROVE  /\ SumFunction(F) \in Int
           /\ Cardinality(S) * lo <= SumFunction(F)
           /\ SumFunction(F) <= Cardinality(S) * hi
  <1>1. PICK G \in [SUBSET S -> Int] : AddsUp(G, S, F) /\ SumFunction(F) = G[S]
    BY SumsOfParts
  <1>2. SumBy(F, S) = G[S]
    BY <1>1, SumByAddsUp
  <1>3. /\ SumBy(F, S) \in Int
        /\ Cardinality(S) * lo <= SumBy(F, S)
        /\ SumBy(F, S) <= Cardinality(S) * hi
    BY SumBetween
  <1>4. QED
    BY <1>1, <1>2, <1>3

\* What is never negative adds up to nothing negative, what is never positive to
\* nothing positive, and zeros to zero.
LEMMA SumOfOneSign ==
    ASSUME NEW S, IsFiniteSet(S), NEW F \in [S -> Int]
    PROVE  /\ (\A x \in S : F[x] >= 0) => SumFunction(F) >= 0
           /\ (\A x \in S : F[x] <= 0) => SumFunction(F) <= 0
           /\ (\A x \in S : F[x] = 0) => SumFunction(F) = 0
  <1>1. PICK G \in [SUBSET S -> Int] : AddsUp(G, S, F) /\ SumFunction(F) = G[S]
    BY SumsOfParts
  <1> DEFINE Up(s) == G[s] >= 0
             Down(s) == G[s] <= 0
             Odd(s) == \/ (\A x \in S : F[x] >= 0) /\ ~Up(s)
                       \/ (\A x \in S : F[x] <= 0) /\ ~Down(s)
             Bad == {n \in Nat : \E s \in SUBSET S : Cardinality(s) = n /\ Odd(s)}
  <1>2. \A s \in SUBSET S : IsFiniteSet(s) /\ Cardinality(s) \in Nat
    BY FS_Subset, FS_CardinalityType
  <1>3. ASSUME Bad # {} PROVE FALSE
    <2>1. Bad \subseteq Nat
      OBVIOUS
    <2>2. PICK n \in Bad : \A m \in Bad : n <= m
      <3> HIDE DEF Bad
      <3>1. QED
        BY <1>3, <2>1, LeastNatural
    <2>3. PICK s \in SUBSET S : Cardinality(s) = n /\ Odd(s)
      BY <2>2
    <2>4. s # {}
      <3>1. G[{}] = 0
        BY <1>1 DEF AddsUp
      <3>2. ~Odd({})
        BY <3>1
      <3>3. Odd(s)
        BY <2>3
      <3> HIDE DEF Odd
      <3>4. QED
        BY <3>2, <3>3
    <2>5. PICK x \in s : TRUE
      BY <2>4
    <2> DEFINE t == s \ {x}
    <2>6. t \in SUBSET S /\ Cardinality(t) = n - 1 /\ n - 1 \in Nat
      <3>1. Cardinality(t) = Cardinality(s) - 1 /\ IsFiniteSet(s)
        BY <1>2, <2>5, FS_RemoveElement
      <3>2. t \in SUBSET S /\ Cardinality(t) \in Nat /\ Cardinality(s) \in Nat
        BY <1>2
      <3>3. QED
        BY <2>3, <3>1, <3>2
    <2>7. n - 1 \notin Bad
      BY <2>1, <2>2, <2>6
    <2>8. ~Odd(t)
      BY <2>6, <2>7
    <2>9. G[s] = F[x] + G[t] /\ F[x] \in Int /\ G[t] \in Int
      BY <1>1, <2>5, <2>6 DEF AddsUp
    <2> HIDE DEF t
    <2>10. QED
      BY <2>3, <2>8, <2>9
  <1>4. ~Odd(S)
    BY <1>2, <1>3
  <1>5. SumFunction(F) \in Int
    BY <1>1
  <1>6. (\A x \in S : F[x] = 0) => \A x \in S : F[x] >= 0 /\ F[x] <= 0
    OBVIOUS
  <1>7. QED
    BY <1>1, <1>4, <1>5, <1>6

LEMMA SizeIsASum ==
    ASSUME NEW S, IsFiniteSet(S)
    PROVE  SumFunction([x \in S |-> 1]) = Cardinality(S)
  <1> DEFINE F == [x \in S |-> 1]
  <1>1. F \in [S -> Int] /\ \A x \in S : 1 <= F[x] /\ F[x] <= 1
    OBVIOUS
  <1> HIDE DEF F
  <1>2. SumFunction(F) \in Int /\ Cardinality(S) * 1 <= SumFunction(F)
        /\ SumFunction(F) <= Cardinality(S) * 1
    BY <1>1, SumWithin
  <1>3. Cardinality(S) \in Nat
    BY FS_CardinalityType
  <1>4. SumFunction(F) = Cardinality(S)
    BY <1>2, <1>3
  <1>5. QED
    BY <1>4 DEF F
=============================================================================
