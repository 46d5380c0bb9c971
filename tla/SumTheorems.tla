------------------------------ MODULE SumTheorems ------------------------------
(* Facts about SumFunctionOnSet, the sum of a function over a finite set, that *)
(* the budget's and the gateway's proofs rest on: the counters of              *)
(* src/packages/core/src/token-usage.ts and src/packages/gateway/src/index.ts  *)
(* equal the sum of what the open operations hold.                             *)
(*                                                                             *)
(* The community module defines the sum by a recursive function on the subsets *)
(* of a set. No induction theorem is instantiated: a fact about every finite   *)
(* set is proved by taking its smallest counterexample (SmallestBad), which    *)
(* exists because strict inclusion is well founded on finite sets.             *)
EXTENDS Integers, Functions, FiniteSetTheorems, TLAPS

\* The element the fold takes first from a set.
First(s) == CHOOSE x \in s : TRUE

\* g computes the sums of f over the subsets of S by the recursion of the fold.
Sums(f, S, g) ==
  g = [s \in SUBSET S |-> IF s = {} THEN 0 ELSE f[First(s)] + g[s \ {First(s)}]]

\* The sum of the community module is the value at S of a function obeying that recursion.
LEMMA FoldIsRecursion ==
  ASSUME NEW f, NEW S
  PROVE  SumFunctionOnSet(f, S) = (CHOOSE g : Sums(f, S, g))[S]
  BY DEF SumFunctionOnSet, FoldFunctionOnSet, MapThenFoldSet, Sums, First

\* The first element of a set that is not empty is one of its elements.
LEMMA FirstIn == ASSUME NEW s, s # {} PROVE First(s) \in s
  BY DEF First

\* A set of counterexamples among the subsets of a finite set has a smallest one: each
\* of its strict subsets is none. This is the induction every sum below is proved by.
LEMMA SmallestBad ==
  ASSUME NEW S, IsFiniteSet(S), NEW Bad \in SUBSET SUBSET S, Bad # {}
  PROVE  \E T \in Bad : \A U \in SUBSET T : U # T => U \notin Bad
  <1>1. IsWellFoundedOn(StrictSubsetOrdering(S), SUBSET S)
    BY FS_StrictSubsetOrderingWellFounded, FS_FiniteSubsetsOfFinite
  <1>2. PICK T \in Bad : \A U \in Bad : <<U, T>> \notin StrictSubsetOrdering(S)
    BY <1>1, WFMin
  <1>3. ASSUME NEW U \in SUBSET T, U # T, U \in Bad PROVE FALSE
    <2>1. <<U, T>> \in (SUBSET S) \X (SUBSET S)
      BY <1>3
    <2>2. <<U, T>> \in StrictSubsetOrdering(S)
      BY <2>1, <1>3 DEF StrictSubsetOrdering
    <2> QED  BY <2>2, <1>2, <1>3
  <1> QED  BY <1>3

\* Two functions obeying the recursion on S and on a part T of it agree on every part of T.
LEMMA SumsUnique ==
  ASSUME NEW f, NEW S, IsFiniteSet(S), NEW T \in SUBSET S, NEW g, NEW h,
         Sums(f, S, g), Sums(f, T, h)
  PROVE  \A s \in SUBSET T : g[s] = h[s]
  <1> DEFINE Bad == {s \in SUBSET T : g[s] # h[s]}
  <1> SUFFICES ASSUME Bad # {} PROVE FALSE
    OBVIOUS
  <1>1. IsFiniteSet(T)
    BY FS_Subset
  <1>2. PICK s \in Bad : \A U \in SUBSET s : U # s => U \notin Bad
    <2>1. Bad \in SUBSET SUBSET T
      OBVIOUS
    <2> HIDE DEF Bad
    <2> QED  BY <1>1, <2>1, SmallestBad
  <1>3. s \in SUBSET T /\ s \in SUBSET S /\ g[s] # h[s]
    BY <1>2
  <1>4. g[s] = IF s = {} THEN 0 ELSE f[First(s)] + g[s \ {First(s)}]
    BY <1>3 DEF Sums
  <1>5. h[s] = IF s = {} THEN 0 ELSE f[First(s)] + h[s \ {First(s)}]
    BY <1>3 DEF Sums
  <1>6. s # {}
    BY <1>3, <1>4, <1>5
  <1>7. s \ {First(s)} \in SUBSET s /\ s \ {First(s)} # s /\ s \ {First(s)} \in SUBSET T
    BY <1>3, <1>6, FirstIn
  <1>8. g[s \ {First(s)}] = h[s \ {First(s)}]
    BY <1>2, <1>7
  <1> QED  BY <1>3, <1>4, <1>5, <1>6, <1>8

\* Over a finite set a function obeying the recursion exists.
LEMMA SumsExist ==
  ASSUME NEW f, NEW S, IsFiniteSet(S)
  PROVE  \E g : Sums(f, S, g)
  <1> DEFINE Bad == {T \in SUBSET S : ~ \E g : Sums(f, T, g)}
  <1> SUFFICES ASSUME Bad # {} PROVE FALSE
    OBVIOUS
  <1>1. PICK T \in Bad : \A U \in SUBSET T : U # T => U \notin Bad
    <2>1. Bad \in SUBSET SUBSET S
      OBVIOUS
    <2> HIDE DEF Bad
    <2> QED  BY <2>1, SmallestBad
  <1>2. T \in SUBSET S /\ IsFiniteSet(T) /\ ~ \E g : Sums(f, T, g)
    BY <1>1, FS_Subset
  <1> DEFINE G(U) == CHOOSE g : Sums(f, U, g)
             g == [s \in SUBSET T |-> IF s = {} THEN 0
                                      ELSE f[First(s)] + G(s \ {First(s)})[s \ {First(s)}]]
  <1>3. ASSUME NEW U \in SUBSET T, U # T PROVE Sums(f, U, G(U)) /\ IsFiniteSet(U)
    BY <1>1, <1>2, <1>3, FS_Subset
  <1>4. ASSUME NEW s \in SUBSET T, s # T PROVE g[s] = G(s)[s]
    <2>1. Sums(f, s, G(s)) /\ IsFiniteSet(s)
      BY <1>3, <1>4
    <2>2. G(s)[s] = IF s = {} THEN 0 ELSE f[First(s)] + G(s)[s \ {First(s)}]
      <3> HIDE DEF G
      <3> QED  BY <2>1 DEF Sums
    <2>3. CASE s = {}
      BY <2>2, <2>3
    <2>4. CASE s # {}
      <3> DEFINE r == s \ {First(s)}
      <3>1. r \in SUBSET s /\ r \in SUBSET T /\ r # T
        BY <2>4, FirstIn
      <3>2. r \in SUBSET r
        OBVIOUS
      <3>3. Sums(f, r, G(r))
        BY <3>1, <1>3, <1>4
      <3> HIDE DEF G
      <3>4. G(s)[r] = G(r)[r]
        BY <2>1, <3>1, <3>2, <3>3, SumsUnique
      <3> QED  BY <2>2, <2>4, <3>4
    <2> QED  BY <2>3, <2>4
  <1>5. ASSUME NEW s \in SUBSET T, s # {} PROVE g[s] = f[First(s)] + g[s \ {First(s)}]
    <2>1. s \ {First(s)} \in SUBSET T /\ s \ {First(s)} # T
      BY <1>5, FirstIn
    <2> HIDE DEF G
    <2> QED  BY <1>4, <1>5, <2>1
  <1>6. g = [s \in SUBSET T |-> IF s = {} THEN 0 ELSE f[First(s)] + g[s \ {First(s)}]]
    <2> HIDE DEF G
    <2> QED  BY <1>5
  <1>7. Sums(f, T, g)
    <2> HIDE DEF g
    <2> QED  BY <1>6 DEF Sums
  <1> QED  BY <1>2, <1>7

\* The sum over a finite set is the value of a function obeying the recursion.
LEMMA SumIs ==
  ASSUME NEW f, NEW S, IsFiniteSet(S)
  PROVE  \E g : Sums(f, S, g) /\ SumFunctionOnSet(f, S) = g[S]
  BY SumsExist, FoldIsRecursion

\* Nothing sums to zero.
LEMMA SumEmpty == ASSUME NEW f PROVE SumFunctionOnSet(f, {}) = 0
  <1>1. PICK g : Sums(f, {}, g) /\ SumFunctionOnSet(f, {}) = g[{}]
    BY FS_EmptySet, SumIs
  <1>2. {} \in SUBSET {}
    OBVIOUS
  <1>3. g[{}] = 0
    BY <1>1, <1>2 DEF Sums
  <1> QED  BY <1>1, <1>3

\* The sum over a finite set is its first element plus the sum over the rest.
LEMMA SumFirst ==
  ASSUME NEW f, NEW S, IsFiniteSet(S), S # {}
  PROVE  SumFunctionOnSet(f, S) = f[First(S)] + SumFunctionOnSet(f, S \ {First(S)})
  <1> DEFINE R == S \ {First(S)}
  <1>1. PICK g : Sums(f, S, g) /\ SumFunctionOnSet(f, S) = g[S]
    BY SumIs
  <1>2. IsFiniteSet(R) /\ R \in SUBSET S
    BY FS_RemoveElement
  <1>3. PICK h : Sums(f, R, h) /\ SumFunctionOnSet(f, R) = h[R]
    BY <1>2, SumIs
  <1>4. g[R] = h[R]
    <2>1. R \in SUBSET R
      OBVIOUS
    <2> HIDE DEF R
    <2> QED  BY <1>1, <1>2, <1>3, <2>1, SumsUnique
  <1>5. S \in SUBSET S
    OBVIOUS
  <1>6. g[S] = f[First(S)] + g[R]
    BY <1>1, <1>5 DEF Sums
  <1> QED  BY <1>1, <1>3, <1>4, <1>6

\* A finite sum of integers is an integer.
LEMMA SumType ==
  ASSUME NEW f, NEW S, IsFiniteSet(S), \A x \in S : f[x] \in Int
  PROVE  SumFunctionOnSet(f, S) \in Int
  <1> DEFINE Bad == {T \in SUBSET S : SumFunctionOnSet(f, T) \notin Int}
  <1> SUFFICES ASSUME Bad # {} PROVE FALSE
    OBVIOUS
  <1>1. PICK T \in Bad : \A U \in SUBSET T : U # T => U \notin Bad
    <2>1. Bad \in SUBSET SUBSET S
      OBVIOUS
    <2> HIDE DEF Bad
    <2> QED  BY <2>1, SmallestBad
  <1>2. T \in SUBSET S /\ IsFiniteSet(T) /\ SumFunctionOnSet(f, T) \notin Int
    BY <1>1, FS_Subset
  <1>3. T # {}
    BY <1>2, SumEmpty
  <1>4. First(T) \in T
    BY <1>3, FirstIn
  <1>5. SumFunctionOnSet(f, T \ {First(T)}) \in Int
    BY <1>1, <1>2, <1>4
  <1>6. f[First(T)] \in Int
    BY <1>2, <1>4
  <1> QED  BY <1>2, <1>3, <1>5, <1>6, SumFirst

\* Any element may be taken out of the sum, not only the first.
LEMMA SumTake ==
  ASSUME NEW f, NEW S, IsFiniteSet(S), \A x \in S : f[x] \in Int
  PROVE  \A x \in S : SumFunctionOnSet(f, S) = f[x] + SumFunctionOnSet(f, S \ {x})
  <1> DEFINE Bad == {T \in SUBSET S : \E x \in T :
                       SumFunctionOnSet(f, T) # f[x] + SumFunctionOnSet(f, T \ {x})}
  <1> SUFFICES ASSUME Bad # {} PROVE FALSE
    OBVIOUS
  <1>1. PICK T \in Bad : \A U \in SUBSET T : U # T => U \notin Bad
    <2>1. Bad \in SUBSET SUBSET S
      OBVIOUS
    <2> HIDE DEF Bad
    <2> QED  BY <2>1, SmallestBad
  <1>2. T \in SUBSET S /\ IsFiniteSet(T)
    BY <1>1, FS_Subset
  <1>3. PICK x \in T : SumFunctionOnSet(f, T) # f[x] + SumFunctionOnSet(f, T \ {x})
    BY <1>1
  <1> DEFINE y == First(T)
             A == T \ {x}
             B == T \ {y}
             C == A \ {y}
  <1>4. y \in T
    BY FirstIn
  <1>5. SumFunctionOnSet(f, T) = f[y] + SumFunctionOnSet(f, B)
    BY <1>2, SumFirst
  <1>6. x # y
    BY <1>3, <1>5
  <1>7. A \in SUBSET T /\ B \in SUBSET T /\ A # T /\ B # T
    BY <1>4
  <1>8. A \notin Bad /\ B \notin Bad
    BY <1>1, <1>7
  <1>9. SumFunctionOnSet(f, A) = f[y] + SumFunctionOnSet(f, A \ {y})
    BY <1>2, <1>4, <1>6, <1>7, <1>8
  <1>10. SumFunctionOnSet(f, B) = f[x] + SumFunctionOnSet(f, B \ {x})
    BY <1>2, <1>6, <1>7, <1>8
  <1>11. B \ {x} = C
    OBVIOUS
  <1>12. SumFunctionOnSet(f, C) \in Int /\ f[x] \in Int /\ f[y] \in Int
    <2>1. C \in SUBSET S /\ IsFiniteSet(C)
      BY <1>2, FS_Subset
    <2>2. SumFunctionOnSet(f, C) \in Int
      BY <2>1, SumType
    <2> QED  BY <2>2, <1>2, <1>4
  <1> HIDE DEF y, A, B, C
  <1>13. /\ SumFunctionOnSet(f, T) = f[y] + (f[x] + SumFunctionOnSet(f, C))
         /\ SumFunctionOnSet(f, A) = f[y] + SumFunctionOnSet(f, C)
    BY <1>5, <1>9, <1>10, <1>11 DEF C
  <1>14. SumFunctionOnSet(f, T) = f[x] + SumFunctionOnSet(f, A)
    BY <1>12, <1>13, SMT
  <1> QED  BY <1>14, <1>3 DEF A

\* Functions that agree on a finite set have the same sum over it.
LEMMA SumSame ==
  ASSUME NEW f, NEW g, NEW S, IsFiniteSet(S), \A x \in S : f[x] = g[x]
  PROVE  SumFunctionOnSet(f, S) = SumFunctionOnSet(g, S)
  <1> DEFINE Bad == {T \in SUBSET S : SumFunctionOnSet(f, T) # SumFunctionOnSet(g, T)}
  <1> SUFFICES ASSUME Bad # {} PROVE FALSE
    OBVIOUS
  <1>1. PICK T \in Bad : \A U \in SUBSET T : U # T => U \notin Bad
    <2>1. Bad \in SUBSET SUBSET S
      OBVIOUS
    <2> HIDE DEF Bad
    <2> QED  BY <2>1, SmallestBad
  <1>2. /\ T \in SUBSET S /\ IsFiniteSet(T)
        /\ SumFunctionOnSet(f, T) # SumFunctionOnSet(g, T)
    BY <1>1, FS_Subset
  <1>3. T # {}
    BY <1>2, SumEmpty
  <1>4. First(T) \in T
    BY <1>3, FirstIn
  <1>5. SumFunctionOnSet(f, T \ {First(T)}) = SumFunctionOnSet(g, T \ {First(T)})
    BY <1>1, <1>2, <1>4
  <1>6. f[First(T)] = g[First(T)]
    BY <1>2, <1>4
  <1> QED  BY <1>2, <1>3, <1>5, <1>6, SumFirst

\* Changing the function at one element changes the sum by the difference at it.
LEMMA SumChange ==
  ASSUME NEW f, NEW g, NEW S, IsFiniteSet(S), NEW y \in S,
         \A x \in S : f[x] \in Int, g[y] \in Int,
         \A x \in S : x # y => g[x] = f[x]
  PROVE  SumFunctionOnSet(g, S) = SumFunctionOnSet(f, S) - f[y] + g[y]
  <1> DEFINE R == S \ {y}
  <1>1. IsFiniteSet(R) /\ \A x \in R : f[x] = g[x] /\ f[x] \in Int
    BY FS_RemoveElement
  <1>2. \A x \in S : g[x] \in Int
    OBVIOUS
  <1>3. SumFunctionOnSet(f, S) = f[y] + SumFunctionOnSet(f, R)
    BY SumTake
  <1>4. SumFunctionOnSet(g, S) = g[y] + SumFunctionOnSet(g, R)
    BY <1>2, SumTake
  <1> HIDE DEF R
  <1>5. SumFunctionOnSet(f, R) = SumFunctionOnSet(g, R) /\ SumFunctionOnSet(f, R) \in Int
    BY <1>1, SumSame, SumType
  <1>6. f[y] \in Int
    OBVIOUS
  <1> QED  BY <1>3, <1>4, <1>5, <1>6, SMT

\* A function at most another everywhere on a finite set sums to at most the other.
LEMMA SumAtMost ==
  ASSUME NEW f, NEW g, NEW S, IsFiniteSet(S),
         \A x \in S : f[x] \in Int /\ g[x] \in Int /\ f[x] <= g[x]
  PROVE  SumFunctionOnSet(f, S) <= SumFunctionOnSet(g, S)
  <1> DEFINE Bad == {T \in SUBSET S : ~(SumFunctionOnSet(f, T) <= SumFunctionOnSet(g, T))}
  <1> SUFFICES ASSUME Bad # {} PROVE FALSE
    <2>1. S \in SUBSET S
      OBVIOUS
    <2> QED  BY <2>1
  <1>1. PICK T \in Bad : \A U \in SUBSET T : U # T => U \notin Bad
    <2>1. Bad \in SUBSET SUBSET S
      OBVIOUS
    <2> HIDE DEF Bad
    <2> QED  BY <2>1, SmallestBad
  <1>2. /\ T \in SUBSET S /\ IsFiniteSet(T)
        /\ ~(SumFunctionOnSet(f, T) <= SumFunctionOnSet(g, T))
    BY <1>1, FS_Subset
  <1>3. T # {}
    BY <1>2, SumEmpty
  <1> DEFINE y == First(T)
             R == T \ {y}
  <1>4. y \in T
    BY <1>3, FirstIn
  <1>5. SumFunctionOnSet(f, R) <= SumFunctionOnSet(g, R)
    BY <1>1, <1>2, <1>4
  <1>6. /\ SumFunctionOnSet(f, T) = f[y] + SumFunctionOnSet(f, R)
        /\ SumFunctionOnSet(g, T) = g[y] + SumFunctionOnSet(g, R)
    BY <1>2, <1>3, SumFirst
  <1>7. f[y] \in Int /\ g[y] \in Int /\ f[y] <= g[y]
    BY <1>2, <1>4
  <1>8. SumFunctionOnSet(f, R) \in Int /\ SumFunctionOnSet(g, R) \in Int
    <2>1. IsFiniteSet(R) /\ R \in SUBSET S
      BY <1>2, FS_RemoveElement
    <2> QED  BY <2>1, SumType
  <1> HIDE DEF y, R
  <1> QED  BY <1>2, <1>5, <1>6, <1>7, <1>8, SMT

\* A finite sum of natural numbers is a natural number.
LEMMA SumNatural ==
  ASSUME NEW f, NEW S, IsFiniteSet(S), \A x \in S : f[x] \in Nat
  PROVE  SumFunctionOnSet(f, S) \in Nat
  <1> DEFINE Bad == {T \in SUBSET S : SumFunctionOnSet(f, T) \notin Nat}
  <1> SUFFICES ASSUME Bad # {} PROVE FALSE
    OBVIOUS
  <1>1. PICK T \in Bad : \A U \in SUBSET T : U # T => U \notin Bad
    <2>1. Bad \in SUBSET SUBSET S
      OBVIOUS
    <2> HIDE DEF Bad
    <2> QED  BY <2>1, SmallestBad
  <1>2. T \in SUBSET S /\ IsFiniteSet(T) /\ SumFunctionOnSet(f, T) \notin Nat
    BY <1>1, FS_Subset
  <1>3. T # {}
    BY <1>2, SumEmpty
  <1>4. First(T) \in T
    BY <1>3, FirstIn
  <1>5. SumFunctionOnSet(f, T \ {First(T)}) \in Nat
    BY <1>1, <1>2, <1>4
  <1>6. f[First(T)] \in Nat
    BY <1>2, <1>4
  <1> QED  BY <1>2, <1>3, <1>5, <1>6, SumFirst

\* When h sends the elements of S that count to different elements of R that count at
\* least as much, the sum over S is at most the sum over R.
LEMMA SumInjected ==
  ASSUME NEW f, NEW S, IsFiniteSet(S), NEW g, NEW R, IsFiniteSet(R), NEW h,
         \A x \in S : f[x] \in Nat,
         \A z \in R : g[z] \in Nat,
         \A x \in S : f[x] # 0 => h[x] \in R /\ f[x] <= g[h[x]],
         \A x, y \in S : x # y /\ f[x] # 0 /\ f[y] # 0 => h[x] # h[y]
  PROVE  SumFunctionOnSet(f, S) <= SumFunctionOnSet(g, R)
  <1> DEFINE Into(T, U) == \A x \in T : f[x] # 0 => h[x] \in U
             Bad == {T \in SUBSET S : \E U \in SUBSET R :
                       Into(T, U) /\ ~(SumFunctionOnSet(f, T) <= SumFunctionOnSet(g, U))}
  <1> SUFFICES ASSUME Bad # {} PROVE FALSE
    <2>1. S \in SUBSET S /\ R \in SUBSET R /\ Into(S, R)
      OBVIOUS
    <2> HIDE DEF Into
    <2> QED  BY <2>1
  <1>1. PICK T \in Bad : \A V \in SUBSET T : V # T => V \notin Bad
    <2>1. Bad \in SUBSET SUBSET S
      OBVIOUS
    <2> HIDE DEF Bad
    <2> QED  BY <2>1, SmallestBad
  <1>2. T \in SUBSET S /\ IsFiniteSet(T)
    BY <1>1, FS_Subset
  <1>3. PICK U \in SUBSET R :
          Into(T, U) /\ ~(SumFunctionOnSet(f, T) <= SumFunctionOnSet(g, U))
    BY <1>1
  <1>4. IsFiniteSet(U) /\ SumFunctionOnSet(g, U) \in Nat
    BY FS_Subset, SumNatural
  <1>5. T # {}
    <2>1. CASE T = {}
      <3>1. SumFunctionOnSet(f, T) = 0
        BY <2>1, SumEmpty
      <3> QED  BY <1>3, <1>4, <3>1, SMT
    <2> QED  BY <2>1
  <1> DEFINE y == First(T)
             Q == T \ {y}
             o == h[y]
             P == U \ {o}
  <1>6. y \in T /\ y \in S
    BY <1>2, <1>5, FirstIn
  <1>7. SumFunctionOnSet(f, T) = f[y] + SumFunctionOnSet(f, Q) /\ f[y] \in Nat
    BY <1>2, <1>5, <1>6, SumFirst
  <1>8. Q \in SUBSET T /\ Q # T /\ Q \in SUBSET S /\ IsFiniteSet(Q)
    BY <1>2, <1>6, FS_Subset
  <1>9. \A V \in SUBSET R : Into(Q, V) => SumFunctionOnSet(f, Q) <= SumFunctionOnSet(g, V)
    BY <1>1, <1>8
  <1>10. SumFunctionOnSet(f, Q) \in Nat
    BY <1>8, SumNatural
  <1>11. CASE f[y] = 0
    <2>1. Into(Q, U)
      BY <1>3
    <2>2. SumFunctionOnSet(f, Q) <= SumFunctionOnSet(g, U)
      BY <1>9, <2>1
    <2> HIDE DEF Q, y
    <2> QED  BY <1>3, <1>4, <1>7, <1>10, <1>11, <2>2, SMT
  <1>12. CASE f[y] # 0
    <2>1. o \in U /\ f[y] <= g[o] /\ g[o] \in Nat
      BY <1>3, <1>6, <1>12
    <2>2. Into(Q, P)
      BY <1>2, <1>3, <1>6, <1>12
    <2>3. P \in SUBSET R
      OBVIOUS
    <2>4. SumFunctionOnSet(f, Q) <= SumFunctionOnSet(g, P)
      BY <1>9, <2>2, <2>3
    <2>5. SumFunctionOnSet(g, U) = g[o] + SumFunctionOnSet(g, P)
      <3>1. \A z \in U : g[z] \in Int
        OBVIOUS
      <3> QED  BY <1>4, <2>1, <3>1, SumTake
    <2>6. SumFunctionOnSet(g, P) \in Nat
      BY <1>4, FS_RemoveElement, SumNatural
    <2> HIDE DEF Q, P, o, y
    <2> QED  BY <1>3, <1>7, <1>10, <2>1, <2>4, <2>5, <2>6, SMT
  <1> QED  BY <1>11, <1>12

\* A sum of zeros is zero.
LEMMA SumZero ==
  ASSUME NEW f, NEW S, IsFiniteSet(S), \A x \in S : f[x] = 0
  PROVE  SumFunctionOnSet(f, S) = 0
  <1> DEFINE Bad == {T \in SUBSET S : SumFunctionOnSet(f, T) # 0}
  <1> SUFFICES ASSUME Bad # {} PROVE FALSE
    OBVIOUS
  <1>1. PICK T \in Bad : \A U \in SUBSET T : U # T => U \notin Bad
    <2>1. Bad \in SUBSET SUBSET S
      OBVIOUS
    <2> HIDE DEF Bad
    <2> QED  BY <2>1, SmallestBad
  <1>2. T \in SUBSET S /\ IsFiniteSet(T) /\ SumFunctionOnSet(f, T) # 0
    BY <1>1, FS_Subset
  <1>3. T # {}
    BY <1>2, SumEmpty
  <1>4. First(T) \in T
    BY <1>3, FirstIn
  <1>5. SumFunctionOnSet(f, T \ {First(T)}) = 0 /\ f[First(T)] = 0
    BY <1>1, <1>2, <1>4
  <1> QED  BY <1>2, <1>3, <1>5, SumFirst

\* A sum of ones and zeros counts the ones.
LEMMA SumCounts ==
  ASSUME NEW f, NEW S, IsFiniteSet(S), NEW T \in SUBSET S,
         \A x \in S : f[x] = IF x \in T THEN 1 ELSE 0
  PROVE  SumFunctionOnSet(f, S) = Cardinality(T)
  <1> DEFINE Bad == {U \in SUBSET S : SumFunctionOnSet(f, U) # Cardinality(T \cap U)}
  <1> SUFFICES ASSUME Bad # {} PROVE FALSE
    <2>1. S \in SUBSET S /\ T \cap S = T
      OBVIOUS
    <2> QED  BY <2>1
  <1>1. PICK U \in Bad : \A V \in SUBSET U : V # U => V \notin Bad
    <2>1. Bad \in SUBSET SUBSET S
      OBVIOUS
    <2> HIDE DEF Bad
    <2> QED  BY <2>1, SmallestBad
  <1>2. /\ U \in SUBSET S /\ IsFiniteSet(U) /\ IsFiniteSet(T \cap U)
        /\ SumFunctionOnSet(f, U) # Cardinality(T \cap U)
    <2>1. U \in SUBSET S /\ SumFunctionOnSet(f, U) # Cardinality(T \cap U)
      BY <1>1
    <2>2. IsFiniteSet(U)
      BY <2>1, FS_Subset
    <2>3. (T \cap U) \in SUBSET U
      OBVIOUS
    <2>4. IsFiniteSet(T \cap U)
      BY <2>2, <2>3, FS_Subset
    <2> QED  BY <2>1, <2>2, <2>4
  <1>3. U # {}
    <2>1. CASE U = {}
      <3>1. T \cap U = {}
        BY <2>1
      <3> QED  BY <1>2, <2>1, <3>1, SumEmpty, FS_EmptySet
    <2> QED  BY <2>1
  <1> DEFINE y == First(U)
             V == U \ {y}
  <1>4. y \in U /\ y \in S
    BY <1>2, <1>3, FirstIn
  <1>5. SumFunctionOnSet(f, V) = Cardinality(T \cap V)
    BY <1>1, <1>2, <1>4
  <1>6. SumFunctionOnSet(f, U) = f[y] + SumFunctionOnSet(f, V)
    BY <1>2, <1>3, SumFirst
  <1>7. T \cap V = (T \cap U) \ {y}
    OBVIOUS
  <1>8. Cardinality(T \cap V) = IF y \in T \cap U THEN Cardinality(T \cap U) - 1
                                               ELSE Cardinality(T \cap U)
    <2> HIDE DEF y, V
    <2>1. Cardinality((T \cap U) \ {y}) = IF y \in T \cap U THEN Cardinality(T \cap U) - 1
                                                          ELSE Cardinality(T \cap U)
      BY <1>2, FS_RemoveElement
    <2> QED  BY <1>7, <2>1
  <1>9. f[y] = IF y \in T \cap U THEN 1 ELSE 0
    BY <1>4
  <1>10. Cardinality(T \cap U) \in Nat
    BY <1>2, FS_CardinalityType
  <1> HIDE DEF y, V
  <1> QED  BY <1>2, <1>5, <1>6, <1>8, <1>9, <1>10, SMT

\* What is zero outside a set is summed over the set.
LEMMA SumRestricted ==
  ASSUME NEW f, NEW g, NEW S, IsFiniteSet(S), NEW T \in SUBSET S,
         \A x \in T : f[x] \in Int,
         \A x \in S : g[x] = IF x \in T THEN f[x] ELSE 0
  PROVE  SumFunctionOnSet(g, S) = SumFunctionOnSet(f, T)
  <1> DEFINE Bad == {U \in SUBSET S : SumFunctionOnSet(g, U) # SumFunctionOnSet(f, T \cap U)}
  <1> SUFFICES ASSUME Bad # {} PROVE FALSE
    <2>1. S \in SUBSET S /\ T \cap S = T
      OBVIOUS
    <2> QED  BY <2>1
  <1>1. PICK U \in Bad : \A V \in SUBSET U : V # U => V \notin Bad
    <2>1. Bad \in SUBSET SUBSET S
      OBVIOUS
    <2> HIDE DEF Bad
    <2> QED  BY <2>1, SmallestBad
  <1>2. /\ U \in SUBSET S /\ IsFiniteSet(U) /\ IsFiniteSet(T \cap U)
        /\ SumFunctionOnSet(g, U) # SumFunctionOnSet(f, T \cap U)
    <2>1. U \in SUBSET S /\ SumFunctionOnSet(g, U) # SumFunctionOnSet(f, T \cap U)
      BY <1>1
    <2>2. IsFiniteSet(U)
      BY <2>1, FS_Subset
    <2>3. (T \cap U) \in SUBSET U
      OBVIOUS
    <2>4. IsFiniteSet(T \cap U)
      BY <2>2, <2>3, FS_Subset
    <2> QED  BY <2>1, <2>2, <2>4
  <1>3. U # {}
    <2>1. CASE U = {}
      <3>1. T \cap U = {}
        BY <2>1
      <3> QED  BY <1>2, <2>1, <3>1, SumEmpty
    <2> QED  BY <2>1
  <1> DEFINE y == First(U)
             V == U \ {y}
  <1>4. y \in U /\ y \in S
    BY <1>2, <1>3, FirstIn
  <1>5. SumFunctionOnSet(g, V) = SumFunctionOnSet(f, T \cap V)
    BY <1>1, <1>2, <1>4
  <1>6. SumFunctionOnSet(g, U) = g[y] + SumFunctionOnSet(g, V)
    BY <1>2, <1>3, SumFirst
  <1>7. \A x \in T \cap U : f[x] \in Int
    OBVIOUS
  <1>8. CASE y \in T
    <2>1. y \in T \cap U /\ T \cap V = (T \cap U) \ {y} /\ g[y] = f[y]
      BY <1>4, <1>8
    <2>2. SumFunctionOnSet(f, T \cap U) = f[y] + SumFunctionOnSet(f, T \cap V)
      BY <1>2, <1>7, <2>1, SumTake
    <2> QED  BY <1>2, <1>5, <1>6, <2>1, <2>2
  <1>9. CASE y \notin T
    <2>1. T \cap V = T \cap U /\ g[y] = 0
      BY <1>4, <1>9
    <2>2. SumFunctionOnSet(f, T \cap U) \in Int
      BY <1>2, <1>7, SumType
    <2> HIDE DEF y, V
    <2> QED  BY <1>2, <1>5, <1>6, <2>1, <2>2, SMT
  <1> QED  BY <1>8, <1>9
================================================================================
