----------------------------- MODULE SumTheorems -----------------------------
(***************************************************************************)
(* What the proofs need to know about sums over finite sets, that is about *)
(* MapThenSumSet of the community modules, stated for the sum of a          *)
(* function: an expression e(x) summed over S is the sum of                *)
(* [x \in S |-> e(x)].  Where a fact needs induction, it is shown of a      *)
(* smallest counterexample among the subsets of S.                          *)
(***************************************************************************)
EXTENDS Integers, FiniteSets, FiniteSetsExt, FiniteSetTheorems, WellFoundedInduction, TLAPS

SumOf(f, S) == MapThenSumSet(LAMBDA x : f[x], S)

\* The element a sum takes first.
First(s) == CHOOSE x \in s : TRUE

\* The recursive function behind the sum, on the subsets of S.
Unfolds(iter, f, S) ==
    iter = [s \in SUBSET S |-> IF s = {} THEN 0
                               ELSE f[First(s)] + iter[s \ {First(s)}]]

\* Every set of subsets of a finite set that is not empty has a smallest one.
LEMMA Smallest ==
    ASSUME NEW S, IsFiniteSet(S), NEW B \in SUBSET SUBSET S, B # {}
    PROVE  \E T \in B : \A U \in B : U \subseteq T => U = T
<1>1. IsWellFoundedOn(StrictSubsetOrdering(S), FiniteSubsetsOf(S))
  BY FS_StrictSubsetOrderingWellFounded
<1>2. B \subseteq FiniteSubsetsOf(S)
  BY FS_FiniteSubsetsOfFinite
<1>3. PICK T \in B : \A U \in B : ~ (<<U, T>> \in StrictSubsetOrdering(S))
  BY <1>1, <1>2, WFMin
<1>4. ASSUME NEW U \in B, U \subseteq T PROVE U = T
  BY <1>3, <1>4 DEF StrictSubsetOrdering
<1> QED BY <1>4

\* Two recursive functions agree where both are defined.
LEMMA UnfoldsOnce ==
    ASSUME NEW S, IsFiniteSet(S), NEW T, NEW f, NEW i, NEW j,
           Unfolds(i, f, S), Unfolds(j, f, T)
    PROVE  \A s \in SUBSET S : s \subseteq T => i[s] = j[s]
<1> DEFINE B == {s \in SUBSET S : s \subseteq T /\ i[s] # j[s]}
<1> SUFFICES ASSUME B # {} PROVE FALSE
  OBVIOUS
<1>0. B \in SUBSET SUBSET S
  OBVIOUS
<1>1. PICK s \in B : \A u \in B : u \subseteq s => u = s
  <2> HIDE DEF B
  <2> QED BY <1>0, Smallest
<1>2. CASE s = {}
  <2>1. i[s] = 0 /\ j[s] = 0
    BY <1>2 DEF Unfolds
  <2> QED BY <2>1
<1>3. CASE s # {}
  <2> DEFINE u == s \ {First(s)}
  <2>1. First(s) \in s
    BY <1>3 DEF First
  <2>2. u \notin B /\ u \in SUBSET S /\ u \subseteq T
    BY <1>1, <2>1
  <2>3. i[s] = f[First(s)] + i[u] /\ j[s] = f[First(s)] + j[u]
    BY <1>3 DEF Unfolds
  <2> QED BY <2>2, <2>3
<1> QED BY <1>2, <1>3

\* There is such a function on every finite set.
LEMMA UnfoldsSomehow ==
    ASSUME NEW S, IsFiniteSet(S), NEW f
    PROVE  \E i : Unfolds(i, f, S)
<1> DEFINE B == {T \in SUBSET S : ~ \E i : Unfolds(i, f, T)}
<1> SUFFICES ASSUME B # {} PROVE FALSE
  OBVIOUS
<1>0. B \in SUBSET SUBSET S
  OBVIOUS
<1>1. PICK T \in B : \A U \in B : U \subseteq T => U = T
  <2> HIDE DEF B
  <2> QED BY <1>0, Smallest
<1> DEFINE of(U) == CHOOSE i : Unfolds(i, f, U)
           up(s) == s \ {First(s)}
           iter == [s \in SUBSET T |-> IF s = {} THEN 0 ELSE f[First(s)] + of(up(s))[up(s)]]
<1>2. ASSUME NEW U \in SUBSET T, U # T PROVE Unfolds(of(U), f, U)
  BY <1>1, <1>2
<1>3. \A s \in SUBSET T : s # {} => up(s) \in SUBSET T /\ up(s) # s /\ up(s) # T
  BY DEF First
<1>4. ASSUME NEW s \in SUBSET T, s # T PROVE iter[s] = of(s)[s]
  <2>1. Unfolds(of(s), f, s)
    BY <1>2, <1>4
  <2>2. CASE s = {}
    <3> HIDE DEF of
    <3>1. of(s)[s] = 0 BY <2>1, <2>2 DEF Unfolds
    <3> QED BY <3>1, <2>2
  <2>3. CASE s # {}
    <3>1. Unfolds(of(up(s)), f, up(s))
      BY <1>2, <1>3, <2>3
    <3>2. IsFiniteSet(up(s)) 
      BY FS_Subset, <1>1
    <3>3. up(s) \in SUBSET up(s) /\ up(s) \subseteq s
      OBVIOUS
    <3> HIDE DEF of
    <3>4. of(up(s))[up(s)] = of(s)[up(s)]
      <4> HIDE DEF up
      <4> QED BY <2>1, <3>1, <3>2, <3>3, UnfoldsOnce
    <3>5. of(s)[s] = f[First(s)] + of(s)[up(s)]
      BY <2>1, <2>3 DEF Unfolds
    <3> QED BY <2>3, <3>4, <3>5
  <2> QED BY <2>2, <2>3
<1>5. Unfolds(iter, f, T)
  <2>1. ASSUME NEW s \in SUBSET T, s # {} PROVE iter[s] = f[First(s)] + iter[up(s)]
    <3>1. iter[up(s)] = of(up(s))[up(s)]
      <4> HIDE DEF iter, of, up
      <4> QED BY <1>3, <1>4, <2>1
    <3> HIDE DEF of
    <3> QED BY <2>1, <3>1
  <2>2. \A s \in SUBSET T : iter[s] = IF s = {} THEN 0 ELSE f[First(s)] + iter[up(s)]
    <3> HIDE DEF of
    <3> QED BY <2>1
  <2>3. iter = [s \in SUBSET T |-> iter[s]]
    OBVIOUS
  <2> HIDE DEF iter
  <2> QED BY <2>2, <2>3 DEF Unfolds
<1> QED BY <1>1, <1>5

\* A sum is the value of the recursive function on the whole set.
LEMMA SumUnfolds ==
    ASSUME NEW S, IsFiniteSet(S), NEW f
    PROVE  \E i : Unfolds(i, f, S) /\ SumOf(f, S) = i[S]
<1> DEFINE i == CHOOSE i : Unfolds(i, f, S)
<1>1. Unfolds(i, f, S)
  BY UnfoldsSomehow
<1>2. SumOf(f, S) = i[S]
  BY DEF SumOf, MapThenSumSet, MapThenFoldSet, Unfolds, First
<1> QED BY <1>1, <1>2

\* The sum over no element.
LEMMA SumEmpty == \A f : SumOf(f, {}) = 0
<1> TAKE f
<1>1. PICK i : Unfolds(i, f, {}) /\ SumOf(f, {}) = i[{}]
  BY SumUnfolds, FS_EmptySet
<1> QED BY <1>1 DEF Unfolds

\* The equation of the sum, with the element it takes first.
LEMMA SumFirst ==
    ASSUME NEW S, IsFiniteSet(S), S # {}, NEW f
    PROVE  First(S) \in S /\ SumOf(f, S) = f[First(S)] + SumOf(f, S \ {First(S)})
<1> DEFINE U == S \ {First(S)}
<1>1. PICK i : Unfolds(i, f, S) /\ SumOf(f, S) = i[S]
  BY SumUnfolds
<1>2. IsFiniteSet(U)
  BY FS_Subset
<1>3. PICK j : Unfolds(j, f, U) /\ SumOf(f, U) = j[U]
  BY <1>2, SumUnfolds
<1>4. j[U] = i[U]
  BY <1>1, <1>2, <1>3, UnfoldsOnce
<1>5. i[S] = f[First(S)] + i[U]
  BY <1>1 DEF Unfolds
<1>6. First(S) \in S
  BY DEF First
<1> QED BY <1>1, <1>3, <1>4, <1>5, <1>6

\* The sum of integers is an integer.
LEMMA SumInt ==
    ASSUME NEW S, IsFiniteSet(S), NEW f, \A x \in S : f[x] \in Int
    PROVE  SumOf(f, S) \in Int
<1> DEFINE B == {T \in SUBSET S : SumOf(f, T) \notin Int}
<1> SUFFICES ASSUME B # {} PROVE FALSE
  OBVIOUS
<1>0. B \in SUBSET SUBSET S
  OBVIOUS
<1>1. PICK T \in B : \A U \in B : U \subseteq T => U = T
  <2> HIDE DEF B
  <2> QED BY <1>0, Smallest
<1>2. IsFiniteSet(T)
  BY <1>1, FS_Subset
<1>3. T # {}
  <2> SUFFICES ASSUME T = {} PROVE FALSE
    OBVIOUS
  <2>1. SumOf(f, T) = 0
    BY SumEmpty
  <2> QED BY <1>1, <2>1
<1>4. First(T) \in T /\ SumOf(f, T) = f[First(T)] + SumOf(f, T \ {First(T)})
  BY <1>2, <1>3, SumFirst
<1>5. SumOf(f, T \ {First(T)}) \in Int
  BY <1>1, <1>4
<1> QED BY <1>1, <1>4, <1>5

\* Any element may be taken out of a sum.
LEMMA SumTakeOut ==
    ASSUME NEW S, IsFiniteSet(S), NEW f, \A x \in S : f[x] \in Int, NEW x \in S
    PROVE  SumOf(f, S) = f[x] + SumOf(f, S \ {x})
<1> DEFINE B == {T \in SUBSET S : \E y \in T : SumOf(f, T) # f[y] + SumOf(f, T \ {y})}
<1> SUFFICES ASSUME B # {} PROVE FALSE
  OBVIOUS
<1>0. B \in SUBSET SUBSET S
  OBVIOUS
<1>1. PICK T \in B : \A U \in B : U \subseteq T => U = T
  <2> HIDE DEF B
  <2> QED BY <1>0, Smallest
<1>2. PICK y \in T : SumOf(f, T) # f[y] + SumOf(f, T \ {y})
  BY <1>1
<1>3. \A U \in SUBSET S : IsFiniteSet(U)
  BY FS_Subset
<1> DEFINE c == First(T)
<1>4. c \in T /\ SumOf(f, T) = f[c] + SumOf(f, T \ {c})
  BY <1>1, <1>2, <1>3, SumFirst
<1> HIDE DEF c
<1>5. c # y
  BY <1>2, <1>4
<1> DEFINE W == T \ {c, y}
<1>6. SumOf(f, T \ {c}) = f[y] + SumOf(f, W)
  <2>1. SumOf(f, T \ {c}) = f[y] + SumOf(f, (T \ {c}) \ {y})
    BY <1>1, <1>4, <1>5
  <2>2. (T \ {c}) \ {y} = W
    OBVIOUS
  <2> HIDE DEF W
  <2> QED BY <2>1, <2>2
<1>7. SumOf(f, T \ {y}) = f[c] + SumOf(f, W)
  <2>1. SumOf(f, T \ {y}) = f[c] + SumOf(f, (T \ {y}) \ {c})
    BY <1>1, <1>4, <1>5
  <2>2. (T \ {y}) \ {c} = W
    OBVIOUS
  <2> HIDE DEF W
  <2> QED BY <2>1, <2>2
<1>8. SumOf(f, W) \in Int /\ f[y] \in Int /\ f[c] \in Int
  BY <1>1, <1>3, <1>4, SumInt
<1> HIDE DEF W, B
<1> QED BY <1>2, <1>4, <1>6, <1>7, <1>8

\* Functions that agree on a set have the same sum.
LEMMA SumAgree ==
    ASSUME NEW S, IsFiniteSet(S), NEW f, NEW g, \A x \in S : f[x] = g[x]
    PROVE  SumOf(f, S) = SumOf(g, S)
<1>1. PICK i : Unfolds(i, f, S) /\ SumOf(f, S) = i[S]
  BY SumUnfolds
<1>2. PICK j : Unfolds(j, g, S) /\ SumOf(g, S) = j[S]
  BY SumUnfolds
<1>3. \A s \in SUBSET S : s # {} => f[First(s)] = g[First(s)]
  BY DEF First
<1>4. Unfolds(i, g, S)
  BY <1>1, <1>3 DEF Unfolds
<1>5. i[S] = j[S]
  BY <1>2, <1>4, UnfoldsOnce
<1> QED BY <1>1, <1>2, <1>5

\* A sum changes by what one of its terms changes.
LEMMA SumChange ==
    ASSUME NEW S, IsFiniteSet(S), NEW f, NEW g, NEW x \in S,
           \A y \in S : f[y] \in Int /\ g[y] \in Int,
           \A y \in S \ {x} : f[y] = g[y]
    PROVE  SumOf(g, S) = SumOf(f, S) + g[x] - f[x]
<1>1. IsFiniteSet(S \ {x})
  BY FS_Subset
<1>2. SumOf(f, S) = f[x] + SumOf(f, S \ {x})
  BY SumTakeOut
<1>3. SumOf(g, S) = g[x] + SumOf(g, S \ {x})
  BY SumTakeOut
<1>4. SumOf(f, S \ {x}) = SumOf(g, S \ {x})
  BY <1>1, SumAgree
<1>5. SumOf(f, S \ {x}) \in Int
  BY <1>1, SumInt
<1> QED BY <1>2, <1>3, <1>4, <1>5

\* An element joins a sum.
LEMMA SumAdd ==
    ASSUME NEW S, IsFiniteSet(S), NEW x, x \notin S, NEW f,
           \A y \in S \cup {x} : f[y] \in Int
    PROVE  SumOf(f, S \cup {x}) = SumOf(f, S) + f[x]
<1>1. IsFiniteSet(S \cup {x})
  BY FS_AddElement
<1> DEFINE T == S \cup {x}
<1>2. x \in T /\ T \ {x} = S /\ \A y \in T : f[y] \in Int
  OBVIOUS
<1> HIDE DEF T
<1>3. SumOf(f, T) = f[x] + SumOf(f, S)
  <2>1. SumOf(f, T) = f[x] + SumOf(f, T \ {x})
    BY <1>1, <1>2, SumTakeOut DEF T
  <2> QED BY <1>2, <2>1
<1>4. SumOf(f, S) \in Int /\ f[x] \in Int
  BY SumInt
<1> QED BY <1>3, <1>4 DEF T

\* The sum of sums.
LEMMA SumPlus ==
    ASSUME NEW S, IsFiniteSet(S), NEW f, NEW g, NEW h,
           \A x \in S : f[x] \in Int /\ g[x] \in Int /\ h[x] = f[x] + g[x]
    PROVE  SumOf(h, S) = SumOf(f, S) + SumOf(g, S)
<1> DEFINE B == {T \in SUBSET S : SumOf(h, T) # SumOf(f, T) + SumOf(g, T)}
<1> SUFFICES ASSUME B # {} PROVE FALSE
  OBVIOUS
<1>0. B \in SUBSET SUBSET S
  OBVIOUS
<1>1. PICK T \in B : \A U \in B : U \subseteq T => U = T
  <2> HIDE DEF B
  <2> QED BY <1>0, Smallest
<1>2. IsFiniteSet(T)
  BY <1>1, FS_Subset
<1>3. T # {}
  <2> SUFFICES ASSUME T = {} PROVE FALSE
    OBVIOUS
  <2>1. SumOf(f, T) = 0 /\ SumOf(g, T) = 0 /\ SumOf(h, T) = 0
    BY SumEmpty
  <2> QED BY <1>1, <2>1
<1>4. PICK x \in T : TRUE
  BY <1>3
<1> DEFINE U == T \ {x}
<1>5. IsFiniteSet(U) /\ U \in SUBSET S /\ U \notin B
  BY <1>1, <1>2, FS_Subset
<1>6. SumOf(h, T) = h[x] + SumOf(h, U)
  BY <1>2, SumTakeOut
<1>7. SumOf(f, T) = f[x] + SumOf(f, U)
  BY <1>2, SumTakeOut
<1>8. SumOf(g, T) = g[x] + SumOf(g, U)
  BY <1>2, SumTakeOut
<1>9. SumOf(f, U) \in Int /\ SumOf(g, U) \in Int
  BY <1>5, SumInt
<1>10. SumOf(h, U) = SumOf(f, U) + SumOf(g, U)
  BY <1>5
<1> HIDE DEF U
<1> QED BY <1>1, <1>6, <1>7, <1>8, <1>9, <1>10

\* A sum of terms none of which is negative.
LEMMA SumNat ==
    ASSUME NEW S, IsFiniteSet(S), NEW f, \A x \in S : f[x] \in Nat
    PROVE  SumOf(f, S) \in Nat
<1> DEFINE B == {T \in SUBSET S : SumOf(f, T) \notin Nat}
<1> SUFFICES ASSUME B # {} PROVE FALSE
  OBVIOUS
<1>0. B \in SUBSET SUBSET S
  OBVIOUS
<1>1. PICK T \in B : \A U \in B : U \subseteq T => U = T
  <2> HIDE DEF B
  <2> QED BY <1>0, Smallest
<1>2. IsFiniteSet(T)
  BY <1>1, FS_Subset
<1>3. T # {}
  <2> SUFFICES ASSUME T = {} PROVE FALSE
    OBVIOUS
  <2>1. SumOf(f, T) = 0
    BY SumEmpty
  <2> QED BY <1>1, <2>1
<1>4. First(T) \in T /\ SumOf(f, T) = f[First(T)] + SumOf(f, T \ {First(T)})
  BY <1>2, <1>3, SumFirst
<1>5. SumOf(f, T \ {First(T)}) \in Nat
  BY <1>1, <1>4
<1> QED BY <1>1, <1>4, <1>5

\* A sum of terms that are all 0.
LEMMA SumZero ==
    ASSUME NEW S, IsFiniteSet(S), NEW f, \A x \in S : f[x] = 0
    PROVE  SumOf(f, S) = 0
<1> DEFINE B == {T \in SUBSET S : SumOf(f, T) # 0}
<1> SUFFICES ASSUME B # {} PROVE FALSE
  OBVIOUS
<1>0. B \in SUBSET SUBSET S
  OBVIOUS
<1>1. PICK T \in B : \A U \in B : U \subseteq T => U = T
  <2> HIDE DEF B
  <2> QED BY <1>0, Smallest
<1>2. IsFiniteSet(T)
  BY <1>1, FS_Subset
<1>3. T # {}
  <2> SUFFICES ASSUME T = {} PROVE FALSE
    OBVIOUS
  <2>1. SumOf(f, T) = 0
    BY SumEmpty
  <2> QED BY <1>1, <2>1
<1>4. First(T) \in T /\ SumOf(f, T) = f[First(T)] + SumOf(f, T \ {First(T)})
  BY <1>2, <1>3, SumFirst
<1>5. SumOf(f, T \ {First(T)}) = 0
  BY <1>1, <1>4
<1> QED BY <1>1, <1>4, <1>5

\* A sum of smaller terms is smaller.
LEMMA SumMono ==
    ASSUME NEW S, IsFiniteSet(S), NEW f, NEW g,
           \A x \in S : f[x] \in Int /\ g[x] \in Int /\ f[x] <= g[x]
    PROVE  SumOf(f, S) <= SumOf(g, S)
<1> DEFINE h == [x \in S |-> g[x] - f[x]]
<1>1. \A x \in S : h[x] \in Nat /\ h[x] \in Int /\ g[x] = f[x] + h[x]
  OBVIOUS
<1> HIDE DEF h
<1>2. SumOf(g, S) = SumOf(f, S) + SumOf(h, S)
  BY <1>1, SumPlus
<1>3. SumOf(h, S) \in Nat /\ SumOf(f, S) \in Int
  BY <1>1, SumNat, SumInt
<1> QED BY <1>2, <1>3

\* A sum over a part of S is a sum over S of terms that are 0 outside the part.
LEMMA SumWhere ==
    ASSUME NEW S, IsFiniteSet(S), NEW T \in SUBSET S, NEW f, NEW g,
           \A x \in S : g[x] \in Int,
           \A x \in T : f[x] = g[x],
           \A x \in S \ T : g[x] = 0
    PROVE  SumOf(f, T) = SumOf(g, S)
<1> DEFINE B == {U \in SUBSET S : SumOf(f, U \cap T) # SumOf(g, U)}
<1>0. S \cap T = T
  OBVIOUS
<1> SUFFICES ASSUME B # {} PROVE FALSE
  BY <1>0
<1>1. B \in SUBSET SUBSET S
  OBVIOUS
<1>2. PICK U \in B : \A V \in B : V \subseteq U => V = U
  <2> HIDE DEF B
  <2> QED BY <1>1, Smallest
<1>3. IsFiniteSet(U) /\ IsFiniteSet(U \cap T)
  BY <1>2, FS_Subset
<1>4. PICK x \in U : TRUE
  <2> SUFFICES ASSUME U = {} PROVE FALSE
    OBVIOUS
  <2>1. SumOf(f, {}) = 0 /\ SumOf(g, {}) = 0 /\ U \cap T = {}
    BY SumEmpty
  <2> QED BY <1>2, <2>1
<1>5. SumOf(f, (U \ {x}) \cap T) = SumOf(g, U \ {x})
  BY <1>2, <1>4
<1>6. SumOf(g, U) = g[x] + SumOf(g, U \ {x})
  BY <1>2, <1>3, <1>4, SumTakeOut
<1>7. SumOf(g, U \ {x}) \in Int
  <2>1. IsFiniteSet(U \ {x})
    BY <1>3, FS_Subset
  <2> QED BY <1>2, <2>1, SumInt
<1>8. CASE x \in T
  <2> DEFINE W == U \cap T
  <2>1. x \in W /\ W \ {x} = (U \ {x}) \cap T /\ \A y \in W : f[y] \in Int
    BY <1>2, <1>4, <1>8
  <2> HIDE DEF W
  <2>2. SumOf(f, W) = f[x] + SumOf(f, W \ {x})
    BY <1>3, <2>1, SumTakeOut DEF W
  <2> QED BY <1>2, <1>5, <1>6, <1>8, <2>1, <2>2 DEF W
<1>9. CASE x \notin T
  <2>1. (U \ {x}) \cap T = U \cap T
    BY <1>9
  <2>2. g[x] = 0
    BY <1>2, <1>4, <1>9
  <2> QED BY <1>2, <1>5, <1>6, <1>7, <2>1, <2>2
<1> QED BY <1>8, <1>9
=============================================================================
