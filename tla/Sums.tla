--------------------------------- MODULE Sums ---------------------------------
(***************************************************************************)
(* Facts about sums over finite sets, for any summands.                    *)
(*                                                                         *)
(* SumFunctionOnSet is a fold, that is, a recursive function over the      *)
(* subsets of a set.  What it computes is shown by looking at a smallest   *)
(* subset for which it would be something else: the strict subsets of a    *)
(* finite set are well-founded, so if there is one there is a smallest     *)
(* one.                                                                    *)
(***************************************************************************)
EXTENDS Integers, FiniteSets, Functions, FiniteSetTheorems, TLAPS

\* The element a fold takes from a set.
First(s) == CHOOSE x \in s : TRUE

\* g is the fold's function on the subsets of S.
IsFold(g, f, S) ==
  g = [s \in SUBSET S |-> IF s = {} THEN 0 ELSE f[First(s)] + g[s \ {First(s)}]]

\* The sum, by its definition.
LEMMA SumIsFold ==
  ASSUME NEW f, NEW S
  PROVE  SumFunctionOnSet(f, S) = (CHOOSE g : IsFold(g, f, S))[S]
BY DEF SumFunctionOnSet, FoldFunctionOnSet, MapThenFoldSet, IsFold, First

\* Any set of subsets of a finite set has a smallest one in it.
LEMMA SmallestSubset ==
  ASSUME NEW S, IsFiniteSet(S), NEW Bad \in SUBSET SUBSET S, Bad # {}
  PROVE  \E T \in Bad : \A U \in SUBSET T : U # T => U \notin Bad
<1>1. IsWellFoundedOn(StrictSubsetOrdering(S), SUBSET S)
  BY FS_StrictSubsetOrderingWellFounded, FS_FiniteSubsetsOfFinite, Zenon
<1>2. PICK T \in Bad : \A U \in Bad : <<U, T>> \notin StrictSubsetOrdering(S)
  BY <1>1, WFMin, Zenon
<1>3. ASSUME NEW U \in SUBSET T, U # T, U \in Bad PROVE FALSE
  <2>1. <<U, T>> \in StrictSubsetOrdering(S)
    BY <1>3 DEF StrictSubsetOrdering
  <2>. QED
    BY <1>2, <1>3, <2>1
<1>. QED
  BY <1>2, <1>3

\* Two folds over different sets agree on the subsets of both.
LEMMA FoldsAgree ==
  ASSUME NEW f, NEW S, NEW T \in SUBSET S, IsFiniteSet(T),
         NEW g, IsFold(g, f, S), NEW h, IsFold(h, f, T)
  PROVE  \A s \in SUBSET T : g[s] = h[s]
<1>. DEFINE Bad == {s \in SUBSET T : g[s] # h[s]}
<1>. SUFFICES ASSUME Bad # {} PROVE FALSE
  OBVIOUS
<1>1. PICK s \in Bad : \A u \in SUBSET s : u # s => u \notin Bad
  <2>1. Bad \in SUBSET SUBSET T
    OBVIOUS
  <2>. HIDE DEF Bad
  <2>. QED
    BY <2>1, SmallestSubset
<1>2. s \in SUBSET T /\ s \in SUBSET S /\ g[s] # h[s]
  OBVIOUS
<1>3. /\ g[s] = IF s = {} THEN 0 ELSE f[First(s)] + g[s \ {First(s)}]
      /\ h[s] = IF s = {} THEN 0 ELSE f[First(s)] + h[s \ {First(s)}]
  BY <1>2 DEF IsFold
<1>4. s # {}
  BY <1>2, <1>3
<1>5. First(s) \in s
  BY <1>4 DEF First
<1>6. g[s \ {First(s)}] = h[s \ {First(s)}]
  BY <1>1, <1>2, <1>5
<1>. QED
  BY <1>2, <1>3, <1>4, <1>6

\* There is a fold over every finite set: one built from those over its subsets.
LEMMA FoldExists ==
  ASSUME NEW f, NEW S, IsFiniteSet(S)
  PROVE  \E g : IsFold(g, f, S)
<1>. DEFINE Bad == {T \in SUBSET S : ~ \E g : IsFold(g, f, T)}
<1>. SUFFICES ASSUME Bad # {} PROVE FALSE
  OBVIOUS
<1>1. PICK T \in Bad : \A U \in SUBSET T : U # T => U \notin Bad
  <2>1. Bad \in SUBSET SUBSET S
    OBVIOUS
  <2>. HIDE DEF Bad
  <2>. QED
    BY <2>1, SmallestSubset
<1>2. T \in SUBSET S /\ ~ \E g : IsFold(g, f, T)
  OBVIOUS
<1>3. \A U \in SUBSET T : IsFiniteSet(U) /\ (U # T => \E g : IsFold(g, f, U))
  BY <1>1, <1>2, FS_Subset
<1>. DEFINE Fold(U) == CHOOSE g : IsFold(g, f, U)
            V(U) == Fold(U)[U]
            rest == T \ {First(T)}
            G == [s \in SUBSET T |-> IF s # T THEN V(s)
                                     ELSE IF s = {} THEN 0 ELSE f[First(s)] + V(rest)]
<1>4. ASSUME NEW s \in SUBSET T, s # T
      PROVE  V(s) = IF s = {} THEN 0 ELSE f[First(s)] + V(s \ {First(s)})
  <2>1. IsFold(Fold(s), f, s)
    BY <1>3, <1>4
  <2>2. CASE s = {}
    BY <2>1, <2>2 DEF IsFold
  <2>3. CASE s # {}
    <3>. DEFINE r == s \ {First(s)}
    <3>1. First(s) \in s
      BY <2>3 DEF First
    <3>2. r \in SUBSET s /\ r \in SUBSET T /\ r # T /\ IsFiniteSet(r)
      BY <1>3, <1>4, <3>1
    <3>3. IsFold(Fold(r), f, r)
      BY <1>3, <3>2
    <3>4. Fold(s)[r] = Fold(r)[r]
      <4>. HIDE DEF Fold, r
      <4>. QED
        BY <2>1, <3>2, <3>3, FoldsAgree
    <3>5. V(s) = f[First(s)] + Fold(s)[r]
      <4>. HIDE DEF Fold
      <4>. QED
        BY <2>1, <2>3 DEF IsFold
    <3>. QED
      BY <2>3, <3>4, <3>5
  <2>. QED
    BY <2>2, <2>3
<1>5. ASSUME NEW s \in SUBSET T
      PROVE  G[s] = IF s = {} THEN 0 ELSE f[First(s)] + G[s \ {First(s)}]
  <2>. DEFINE r == s \ {First(s)}
  <2>1. s # {} => r \in SUBSET T /\ r # T
    <3>1. s # {} => First(s) \in s
      BY DEF First
    <3>. QED
      BY <3>1
  <2>. HIDE DEF V
  <2>2. s # {} => G[r] = V(r)
    BY <2>1
  <2>3. CASE s = T
    BY <2>2, <2>3
  <2>4. CASE s # T
    BY <1>4, <2>2, <2>4
  <2>. QED
    BY <2>3, <2>4
<1>6. IsFold(G, f, T)
  <2>1. G = [s \in SUBSET T |-> G[s]]
    OBVIOUS
  <2>. HIDE DEF G
  <2>. QED
    BY <1>5, <2>1 DEF IsFold
<1>. QED
  BY <1>2, <1>6

-----------------------------------------------------------------------------

\* The sum over a finite set, one element at a time.
LEMMA SumUnfolds ==
  ASSUME NEW f, NEW S, IsFiniteSet(S)
  PROVE  SumFunctionOnSet(f, S)
           = IF S = {} THEN 0
             ELSE f[First(S)] + SumFunctionOnSet(f, S \ {First(S)})
<1>. DEFINE g == CHOOSE g : IsFold(g, f, S)
            rest == S \ {First(S)}
            h == CHOOSE h : IsFold(h, f, rest)
<1>1. IsFold(g, f, S) /\ IsFold(h, f, rest)
  BY FoldExists, FS_Difference
<1>2. g[rest] = h[rest]
  <2>1. rest \in SUBSET S /\ IsFiniteSet(rest)
    BY FS_Difference
  <2>. HIDE DEF g, h, rest
  <2>. QED
    BY <1>1, <2>1, FoldsAgree
<1>3. SumFunctionOnSet(f, S) = g[S] /\ SumFunctionOnSet(f, rest) = h[rest]
  BY SumIsFold
<1>4. g[S] = IF S = {} THEN 0 ELSE f[First(S)] + g[rest]
  <2>. HIDE DEF g
  <2>. QED
    BY <1>1 DEF IsFold
<1>. QED
  BY <1>2, <1>3, <1>4

\* The empty sum is zero.
LEMMA SumEmpty ==
  ASSUME NEW f
  PROVE  SumFunctionOnSet(f, {}) = 0
BY SumUnfolds, FS_EmptySet

\* A sum is where its summands are, if zero is there and addition stays there.
LEMMA SumClosed ==
  ASSUME NEW f, NEW S, IsFiniteSet(S),
         NEW D, 0 \in D, \A a, b \in D : a + b \in D, \A x \in S : f[x] \in D
  PROVE  SumFunctionOnSet(f, S) \in D
<1>. DEFINE Bad == {T \in SUBSET S : SumFunctionOnSet(f, T) \notin D}
<1>. SUFFICES ASSUME Bad # {} PROVE FALSE
  OBVIOUS
<1>1. PICK T \in Bad : \A U \in SUBSET T : U # T => U \notin Bad
  <2>1. Bad \in SUBSET SUBSET S
    OBVIOUS
  <2>. HIDE DEF Bad
  <2>. QED
    BY <2>1, SmallestSubset
<1>2. /\ T \in SUBSET S /\ IsFiniteSet(T)
      /\ SumFunctionOnSet(f, T) \notin D
  BY FS_Subset
<1>3. SumFunctionOnSet(f, T)
        = IF T = {} THEN 0 ELSE f[First(T)] + SumFunctionOnSet(f, T \ {First(T)})
  BY <1>2, SumUnfolds
<1>4. T # {} => First(T) \in T
  BY DEF First
<1>5. T # {} => SumFunctionOnSet(f, T \ {First(T)}) \in D
  BY <1>1, <1>2, <1>4
<1>. QED
  BY <1>2, <1>3, <1>4, <1>5

\* A sum of integers is an integer, a sum of natural numbers a natural number.
LEMMA SumType ==
  ASSUME NEW f, NEW S, IsFiniteSet(S)
  PROVE  /\ (\A x \in S : f[x] \in Int) => SumFunctionOnSet(f, S) \in Int
         /\ (\A x \in S : f[x] \in Nat) => SumFunctionOnSet(f, S) \in Nat
<1>1. /\ 0 \in Int /\ \A a, b \in Int : a + b \in Int
      /\ 0 \in Nat /\ \A a, b \in Nat : a + b \in Nat
  OBVIOUS
<1>. QED
  BY <1>1, SumClosed, Zenon

\* The order of summation does not matter: any element may be taken first.
LEMMA SumTakes ==
  ASSUME NEW f, NEW S, IsFiniteSet(S), \A x \in S : f[x] \in Int, NEW x \in S
  PROVE  SumFunctionOnSet(f, S) = f[x] + SumFunctionOnSet(f, S \ {x})
<1>. DEFINE Sum(T) == SumFunctionOnSet(f, T)
            Bad == {T \in SUBSET S : \E y \in T : Sum(T) # f[y] + Sum(T \ {y})}
<1>. SUFFICES ASSUME Bad # {} PROVE FALSE
  OBVIOUS
<1>1. PICK T \in Bad : \A U \in SUBSET T : U # T => U \notin Bad
  <2>1. Bad \in SUBSET SUBSET S
    OBVIOUS
  <2>. HIDE DEF Bad
  <2>. QED
    BY <2>1, SmallestSubset
<1>2. T \in SUBSET S /\ IsFiniteSet(T)
  BY FS_Subset
<1>3. PICK y \in T : Sum(T) # f[y] + Sum(T \ {y})
  OBVIOUS
<1>. DEFINE z == First(T)
            both == (T \ {y}) \ {z}
<1>4. z \in T
  BY <1>3 DEF First
<1>5. Sum(T) = f[z] + Sum(T \ {z})
  BY <1>2, <1>4, SumUnfolds
<1>6. y # z
  BY <1>3, <1>5
<1>. HIDE DEF z
<1>7. Sum(T \ {z}) = f[y] + Sum((T \ {z}) \ {y})
  BY <1>1, <1>2, <1>4, <1>6
<1>8. Sum(T \ {y}) = f[z] + Sum(both)
  BY <1>1, <1>2, <1>3, <1>4, <1>6
<1>9. (T \ {z}) \ {y} = both
  OBVIOUS
<1>10. f[y] \in Int /\ f[z] \in Int /\ Sum(both) \in Int
  BY <1>2, <1>3, <1>4, FS_Subset, SumType
<1>11. Sum(T \ {z}) = f[y] + Sum(both)
  BY <1>7, <1>9
<1>12. f[z] + (f[y] + Sum(both)) = f[y] + (f[z] + Sum(both))
  <2>. HIDE DEF Sum, both
  <2>. QED
    BY ONLY <1>10
<1>. QED
  BY <1>3, <1>5, <1>8, <1>11, <1>12, Zenon

\* A new element adds its summand.
LEMMA SumAdds ==
  ASSUME NEW f, NEW S, IsFiniteSet(S), NEW x, x \notin S,
         \A y \in S \cup {x} : f[y] \in Int
  PROVE  SumFunctionOnSet(f, S \cup {x}) = SumFunctionOnSet(f, S) + f[x]
<1>1. IsFiniteSet(S \cup {x}) /\ (S \cup {x}) \ {x} = S
  BY FS_AddElement
<1>2. SumFunctionOnSet(f, S) \in Int
  BY SumType
<1>. QED
  BY <1>1, <1>2, SumTakes

\* Sums of equal summands are equal.
LEMMA SumSame ==
  ASSUME NEW f, NEW g, NEW S, IsFiniteSet(S), \A x \in S : f[x] = g[x]
  PROVE  SumFunctionOnSet(f, S) = SumFunctionOnSet(g, S)
<1>. DEFINE Bad == {T \in SUBSET S : SumFunctionOnSet(f, T) # SumFunctionOnSet(g, T)}
<1>. SUFFICES ASSUME Bad # {} PROVE FALSE
  OBVIOUS
<1>1. PICK T \in Bad : \A U \in SUBSET T : U # T => U \notin Bad
  <2>1. Bad \in SUBSET SUBSET S
    OBVIOUS
  <2>. HIDE DEF Bad
  <2>. QED
    BY <2>1, SmallestSubset
<1>2. /\ T \in SUBSET S /\ IsFiniteSet(T)
      /\ SumFunctionOnSet(f, T) # SumFunctionOnSet(g, T)
  BY FS_Subset
<1>3. T # {} => First(T) \in T
  BY DEF First
<1>4. T # {} => SumFunctionOnSet(f, T \ {First(T)}) = SumFunctionOnSet(g, T \ {First(T)})
  BY <1>1, <1>2, <1>3
<1>. QED
  BY <1>2, <1>3, <1>4, SumUnfolds

\* A sum of smaller summands is no larger.
LEMMA SumMonotone ==
  ASSUME NEW f, NEW g, NEW S, IsFiniteSet(S),
         \A x \in S : f[x] \in Int /\ g[x] \in Int /\ f[x] <= g[x]
  PROVE  SumFunctionOnSet(f, S) <= SumFunctionOnSet(g, S)
<1>. DEFINE Bad == {T \in SUBSET S : ~(SumFunctionOnSet(f, T) <= SumFunctionOnSet(g, T))}
<1>. SUFFICES ASSUME Bad # {} PROVE FALSE
  OBVIOUS
<1>1. PICK T \in Bad : \A U \in SUBSET T : U # T => U \notin Bad
  <2>1. Bad \in SUBSET SUBSET S
    OBVIOUS
  <2>. HIDE DEF Bad
  <2>. QED
    BY <2>1, SmallestSubset
<1>2. /\ T \in SUBSET S /\ IsFiniteSet(T)
      /\ ~(SumFunctionOnSet(f, T) <= SumFunctionOnSet(g, T))
  BY FS_Subset
<1>. DEFINE x == First(T)
            rest == T \ {x}
<1>3. T # {} => x \in T
  BY DEF First
<1>4. T # {} => /\ SumFunctionOnSet(f, rest) <= SumFunctionOnSet(g, rest)
                /\ SumFunctionOnSet(f, rest) \in Int
                /\ SumFunctionOnSet(g, rest) \in Int
  BY <1>1, <1>2, <1>3, SumType, FS_Subset
<1>5. T # {} => /\ SumFunctionOnSet(f, T) = f[x] + SumFunctionOnSet(f, rest)
                /\ SumFunctionOnSet(g, T) = g[x] + SumFunctionOnSet(g, rest)
  BY <1>2, SumUnfolds
<1>6. T = {} => SumFunctionOnSet(f, T) = 0 /\ SumFunctionOnSet(g, T) = 0
  BY SumEmpty
<1>. HIDE DEF x, rest
<1>. QED
  BY <1>2, <1>3, <1>4, <1>5, <1>6

\* A natural summand is a part of its sum.
LEMMA SumBoundsParts ==
  ASSUME NEW f, NEW S, IsFiniteSet(S), \A x \in S : f[x] \in Nat, NEW x \in S
  PROVE  f[x] <= SumFunctionOnSet(f, S)
<1>1. SumFunctionOnSet(f, S \ {x}) \in Nat
  BY SumType, FS_Difference
<1>2. SumFunctionOnSet(f, S) = f[x] + SumFunctionOnSet(f, S \ {x})
  BY SumTakes
<1>. QED
  BY <1>1, <1>2

\* When one summand changes, the sum changes by as much.
LEMMA SumUpdates ==
  ASSUME NEW f, NEW g, NEW S, IsFiniteSet(S), NEW x \in S,
         \A y \in S : f[y] \in Int /\ g[y] \in Int,
         \A y \in S \ {x} : g[y] = f[y]
  PROVE  SumFunctionOnSet(g, S) = SumFunctionOnSet(f, S) - f[x] + g[x]
<1>. DEFINE rest == S \ {x}
<1>1. IsFiniteSet(rest)
  BY FS_Difference
<1>2. SumFunctionOnSet(g, rest) = SumFunctionOnSet(f, rest)
  BY <1>1, SumSame
<1>3. SumFunctionOnSet(f, rest) \in Int
  BY <1>1, SumType
<1>4. /\ SumFunctionOnSet(f, S) = f[x] + SumFunctionOnSet(f, rest)
      /\ SumFunctionOnSet(g, S) = g[x] + SumFunctionOnSet(g, rest)
  BY SumTakes
<1>5. f[x] \in Int /\ g[x] \in Int
  OBVIOUS
<1>. HIDE DEF rest
<1>. QED
  BY ONLY <1>2, <1>3, <1>4, <1>5

\* A new summand is added, whatever the summands outside the set become.
LEMMA SumGains ==
  ASSUME NEW f, NEW g, NEW S, IsFiniteSet(S), NEW x, x \notin S,
         \A y \in S : f[y] \in Int, g[x] \in Int,
         \A y \in S : g[y] = f[y]
  PROVE  SumFunctionOnSet(g, S \cup {x}) = SumFunctionOnSet(f, S) + g[x]
<1>1. SumFunctionOnSet(g, S \cup {x}) = SumFunctionOnSet(g, S) + g[x]
  BY SumAdds
<1>2. SumFunctionOnSet(g, S) = SumFunctionOnSet(f, S)
  BY SumSame
<1>. QED
  BY <1>1, <1>2

\* A summand that leaves is taken off.
LEMMA SumLoses ==
  ASSUME NEW f, NEW g, NEW S, IsFiniteSet(S), NEW x \in S,
         NEW R, R = S \ {x},
         \A y \in S : f[y] \in Int,
         \A y \in R : g[y] = f[y]
  PROVE  SumFunctionOnSet(g, R) = SumFunctionOnSet(f, S) - f[x]
<1>1. IsFiniteSet(R)
  BY FS_Difference
<1>2. SumFunctionOnSet(g, R) = SumFunctionOnSet(f, R)
  BY <1>1, SumSame
<1>3. SumFunctionOnSet(f, R) \in Int /\ f[x] \in Int
  BY <1>1, SumType
<1>4. SumFunctionOnSet(f, S) = f[x] + SumFunctionOnSet(f, R)
  BY SumTakes
<1>. QED
  BY ONLY <1>2, <1>3, <1>4

\* A sum over another set is no smaller, if what both sets have is no smaller
\* there, what only the first has is not positive, and what only the second has
\* not negative.
LEMMA SumDominates ==
  ASSUME NEW A, IsFiniteSet(A), NEW S \in SUBSET A, NEW T \in SUBSET A, NEW f, NEW g,
         \A x \in S : f[x] \in Int, \A x \in T : g[x] \in Int,
         \A x \in S \cap T : f[x] <= g[x],
         \A x \in S \ T : f[x] <= 0, \A x \in T \ S : 0 <= g[x]
  PROVE  SumFunctionOnSet(f, S) <= SumFunctionOnSet(g, T)
<1>. DEFINE F(U) == SumFunctionOnSet(f, U \cap S)
            G(U) == SumFunctionOnSet(g, U \cap T)
            Bad == {U \in SUBSET A : ~(F(U) <= G(U))}
<1>1. ASSUME NEW U \in SUBSET A
      PROVE  F(U) \in Int /\ G(U) \in Int
  BY SumType, FS_Subset
<1>2. ASSUME NEW U \in SUBSET A, NEW x \in U
      PROVE  /\ x \in S => F(U) = f[x] + F(U \ {x})
             /\ x \notin S => F(U) = F(U \ {x})
             /\ x \in T => G(U) = g[x] + G(U \ {x})
             /\ x \notin T => G(U) = G(U \ {x})
  <2>1. ASSUME x \in S PROVE F(U) = f[x] + F(U \ {x})
    <3>1. PICK P : P = U \cap S
      OBVIOUS
    <3>2. (U \ {x}) \cap S = P \ {x}
      BY <3>1
    <3>3. x \in P /\ IsFiniteSet(P) /\ \A y \in P : f[y] \in Int
      BY <2>1, <3>1, FS_Subset
    <3>4. SumFunctionOnSet(f, P) = f[x] + SumFunctionOnSet(f, P \ {x})
      BY <3>3, SumTakes
    <3>. QED
      BY <3>1, <3>2, <3>4
  <2>2. ASSUME x \in T PROVE G(U) = g[x] + G(U \ {x})
    <3>1. PICK P : P = U \cap T
      OBVIOUS
    <3>2. (U \ {x}) \cap T = P \ {x}
      BY <3>1
    <3>3. x \in P /\ IsFiniteSet(P) /\ \A y \in P : g[y] \in Int
      BY <2>2, <3>1, FS_Subset
    <3>4. SumFunctionOnSet(g, P) = g[x] + SumFunctionOnSet(g, P \ {x})
      BY <3>3, SumTakes
    <3>. QED
      BY <3>1, <3>2, <3>4
  <2>3. x \notin S => U \cap S = (U \ {x}) \cap S
    OBVIOUS
  <2>4. x \notin T => U \cap T = (U \ {x}) \cap T
    OBVIOUS
  <2>. QED
    BY <2>1, <2>2, <2>3, <2>4
<1>3. ASSUME Bad # {} PROVE FALSE
  <2>1. PICK U \in Bad : \A V \in SUBSET U : V # U => V \notin Bad
    <3>1. Bad \in SUBSET SUBSET A
      OBVIOUS
    <3>. HIDE DEF Bad
    <3>. QED
      BY <1>3, <3>1, SmallestSubset
  <2>2. U \in SUBSET A /\ ~(F(U) <= G(U))
    OBVIOUS
  <2>3. CASE U = {}
    BY <2>2, <2>3, SumEmpty
  <2>4. CASE U # {}
    <3>1. PICK x : x \in U
      BY <2>4
    <3>2. F(U \ {x}) <= G(U \ {x}) /\ F(U \ {x}) \in Int /\ G(U \ {x}) \in Int
      BY <1>1, <2>1, <2>2, <3>1
    <3>3. /\ x \in S => F(U) = f[x] + F(U \ {x})
          /\ x \notin S => F(U) = F(U \ {x})
          /\ x \in T => G(U) = g[x] + G(U \ {x})
          /\ x \notin T => G(U) = G(U \ {x})
      BY <1>2, <2>2, <3>1
    <3>4. /\ x \in S => f[x] \in Int
          /\ x \in T => g[x] \in Int
          /\ x \in S /\ x \in T => f[x] <= g[x]
          /\ x \in S /\ x \notin T => f[x] <= 0
          /\ x \in T /\ x \notin S => 0 <= g[x]
      OBVIOUS
    <3>. HIDE DEF F, G, Bad
    <3>. QED
      BY <2>2, <3>2, <3>3, <3>4
  <2>. QED
    BY <2>3, <2>4
<1>4. F(A) <= G(A)
  BY <1>3
<1>5. A \cap S = S /\ A \cap T = T
  OBVIOUS
<1>. QED
  BY <1>4, <1>5
===============================================================================
