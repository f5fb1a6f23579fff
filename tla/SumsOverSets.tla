---------------------------- MODULE SumsOverSets ----------------------------
(***************************************************************************)
(* What SumFunctionOnSet of the community modules computes over a finite   *)
(* set.  The induction principles of the library take the property as an   *)
(* operator; here induction is the choice of a minimal counterexample in a *)
(* set of subsets, which is well-founded under strict inclusion.           *)
(***************************************************************************)
EXTENDS Functions, FiniteSetTheorems, TLAPS

AnyOf(s) == CHOOSE x \in s : TRUE

(* The recursion by which the sum is defined, over the subsets of S. *)
IsSum(g, f, S) ==
  g = [s \in SUBSET S |->
         IF s = {} THEN 0 ELSE LET x == AnyOf(s) IN f[x] + g[s \ {x}]]

(* The sum over S is the value at S of a function chosen among the solutions of the recursion. *)
LEMMA SumIsAnySolution ==
  ASSUME NEW f, NEW S
  PROVE  SumFunctionOnSet(f, S) = (CHOOSE g : IsSum(g, f, S))[S]
  BY DEF SumFunctionOnSet, FoldFunctionOnSet, MapThenFoldSet, IsSum, AnyOf

(* A non-empty set of finite subsets of S has a minimal element. *)
LEMMA MinimalSubset ==
  ASSUME NEW S, IsFiniteSet(S), NEW T \in SUBSET (SUBSET S), T # {}
  PROVE  \E U \in T : \A V \in SUBSET U : V \in T => V = U
<1>1. T \subseteq FiniteSubsetsOf(S)
  BY FS_FiniteSubsetsOfFinite
<1>2. PICK U \in T : \A V \in T : ~(<<V, U>> \in StrictSubsetOrdering(S))
  BY <1>1, FS_StrictSubsetOrderingWellFounded, WFMin
<1>3. QED
  BY <1>2 DEF StrictSubsetOrdering

(* A non-empty set contains the element chosen from it. *)
LEMMA AnyOfIn ==
  ASSUME NEW s, s # {}
  PROVE  AnyOf(s) \in s
  BY DEF AnyOf

(* A solution satisfies the recursion at every subset. *)
LEMMA SumValue ==
  ASSUME NEW f, NEW S, NEW g, IsSum(g, f, S), NEW s \in SUBSET S
  PROVE  g[s] = IF s = {} THEN 0 ELSE f[AnyOf(s)] + g[s \ {AnyOf(s)}]
  BY DEF IsSum

(* On the subsets two sums both know they agree. *)
LEMMA SumsAgree ==
  ASSUME NEW f, NEW S, NEW U \in SUBSET S, IsFiniteSet(U), NEW g, NEW h,
         IsSum(g, f, S), IsSum(h, f, U)
  PROVE  \A s \in SUBSET U : g[s] = h[s]
<1> DEFINE T == {s \in SUBSET U : g[s] # h[s]}
<1> SUFFICES ASSUME T # {} PROVE FALSE
  OBVIOUS
<1>0. T \in SUBSET (SUBSET U)
  OBVIOUS
<1>1. PICK s \in T : \A V \in SUBSET s : V \in T => V = s
  <2> HIDE DEF T
  <2>1. QED
    BY <1>0, MinimalSubset
<1>2. /\ g[s] = IF s = {} THEN 0 ELSE f[AnyOf(s)] + g[s \ {AnyOf(s)}]
      /\ h[s] = IF s = {} THEN 0 ELSE f[AnyOf(s)] + h[s \ {AnyOf(s)}]
  BY SumValue
<1>3. s # {}
  BY <1>2
<1>4. AnyOf(s) \in s
  BY <1>3, AnyOfIn
<1>5. g[s \ {AnyOf(s)}] = h[s \ {AnyOf(s)}]
  BY <1>1, <1>4
<1>6. QED
  BY <1>2, <1>5

(* The recursion has a solution on every finite set. *)
Solution(f, V) == CHOOSE g : IsSum(g, f, V)

(* By induction: below a minimal set without a solution every set has one. *)
LEMMA SumExists ==
  ASSUME NEW f, NEW S, IsFiniteSet(S)
  PROVE  \E g : IsSum(g, f, S)
<1> DEFINE T == {U \in SUBSET S : ~ \E g : IsSum(g, f, U)}
<1> SUFFICES ASSUME T # {} PROVE FALSE
  OBVIOUS
<1>1. T \in SUBSET (SUBSET S)
  OBVIOUS
<1>2. PICK U \in T : \A V \in SUBSET U : V \in T => V = U
  <2> HIDE DEF T
  <2>1. QED
    BY <1>1, MinimalSubset
<1>3. ASSUME NEW V \in SUBSET U, V # U
      PROVE  IsSum(Solution(f, V), f, V) /\ IsFiniteSet(V)
  <2>1. V \in SUBSET S /\ V \notin T
    BY <1>2, <1>3
  <2>2. QED
    BY <2>1, FS_Subset DEF Solution
<1> DEFINE Rest(s) == s \ {AnyOf(s)}
           K(s) == IF s = {} THEN 0 ELSE f[AnyOf(s)] + Solution(f, Rest(s))[Rest(s)]
           g == [s \in SUBSET U |-> K(s)]
<1>4. ASSUME NEW V \in SUBSET U, V # U
      PROVE  K(V) = Solution(f, V)[V]
  <2>1. IsSum(Solution(f, V), f, V) /\ V \in SUBSET V
    BY <1>3, <1>4
  <2>2. Solution(f, V)[V] = IF V = {} THEN 0 ELSE f[AnyOf(V)] + Solution(f, V)[Rest(V)]
    <3> HIDE DEF g, K, T
    <3>1. QED
      BY <2>1, SumValue
  <2>3. CASE V = {}
    BY <2>2, <2>3
  <2>4. CASE V # {}
    <3>1. Rest(V) \in SUBSET V /\ Rest(V) \in SUBSET U /\ Rest(V) # U
      BY <1>4, <2>4, AnyOfIn
    <3>2. IsSum(Solution(f, Rest(V)), f, Rest(V)) /\ IsFiniteSet(Rest(V))
      BY <1>3, <3>1
    <3> HIDE DEF Rest
    <3>3. Solution(f, V)[Rest(V)] = Solution(f, Rest(V))[Rest(V)]
      BY <2>1, <3>1, <3>2, SumsAgree
    <3>4. QED
      BY <2>2, <2>4, <3>3
  <2>5. QED
    BY <2>3, <2>4
<1>5. ASSUME NEW s \in SUBSET U, s # {}
      PROVE  g[Rest(s)] = Solution(f, Rest(s))[Rest(s)]
  <2>1. Rest(s) \in SUBSET U /\ Rest(s) # U
    BY <1>5, AnyOfIn
  <2>2. K(Rest(s)) = Solution(f, Rest(s))[Rest(s)]
    BY <1>4, <2>1
  <2> HIDE DEF K
  <2>3. QED
    BY <2>1, <2>2
<1>6. \A s \in SUBSET U : K(s) = IF s = {} THEN 0 ELSE f[AnyOf(s)] + g[Rest(s)]
  <2> HIDE DEF g
  <2>1. QED
    BY <1>5
<1>7. g = [s \in SUBSET U |-> IF s = {} THEN 0 ELSE f[AnyOf(s)] + g[Rest(s)]]
  <2>1. \A h : (\A s \in SUBSET U : K(s) = IF s = {} THEN 0 ELSE f[AnyOf(s)] + h[Rest(s)])
          => [s \in SUBSET U |-> K(s)]
               = [s \in SUBSET U |-> IF s = {} THEN 0 ELSE f[AnyOf(s)] + h[Rest(s)]]
    <3> HIDE DEF K, g, Rest
    <3>1. QED
      OBVIOUS
  <2>2. QED
    BY <1>6, <2>1
<1>8. IsSum(g, f, U)
  BY <1>7 DEF IsSum
<1>9. QED
  BY <1>8

(* What the definition of the sum says. *)
LEMMA SumByChoice ==
  ASSUME NEW f, NEW S, IsFiniteSet(S)
  PROVE  SumFunctionOnSet(f, S) =
           IF S = {} THEN 0
           ELSE f[AnyOf(S)] + SumFunctionOnSet(f, S \ {AnyOf(S)})
<1> DEFINE H(V) == Solution(f, V)
           W == S \ {AnyOf(S)}
<1>1. IsFiniteSet(W) /\ W \in SUBSET S
  BY FS_Subset
<1>2. IsSum(H(S), f, S) /\ IsSum(H(W), f, W)
  BY <1>1, SumExists DEF Solution
<1>3. SumFunctionOnSet(f, S) = H(S)[S] /\ SumFunctionOnSet(f, W) = H(W)[W]
  BY SumIsAnySolution DEF Solution
<1>4. H(S)[S] = IF S = {} THEN 0 ELSE f[AnyOf(S)] + H(S)[W]
  BY <1>2, SumValue
<1>5. H(S)[W] = H(W)[W]
  BY <1>1, <1>2, SumsAgree
<1>6. QED
  BY <1>3, <1>4, <1>5

-----------------------------------------------------------------------------
(* The empty sum. *)
LEMMA SumEmpty ==
  ASSUME NEW f
  PROVE  SumFunctionOnSet(f, {}) = 0
  BY SumByChoice, FS_EmptySet

(* A sum of integers is an integer. *)
LEMMA SumType ==
  ASSUME NEW f, NEW S, IsFiniteSet(S), \A x \in S : f[x] \in Int
  PROVE  SumFunctionOnSet(f, S) \in Int
<1> DEFINE T == {U \in SUBSET S : SumFunctionOnSet(f, U) \notin Int}
<1> SUFFICES ASSUME T # {} PROVE FALSE
  OBVIOUS
<1>1. T \in SUBSET (SUBSET S)
  OBVIOUS
<1>2. PICK U \in T : \A V \in SUBSET U : V \in T => V = U
  <2> HIDE DEF T
  <2>1. QED
    BY <1>1, MinimalSubset
<1>3. U # {}
  BY SumEmpty
<1>4. AnyOf(U) \in U /\ f[AnyOf(U)] \in Int
  BY <1>3, AnyOfIn
<1>5. SumFunctionOnSet(f, U \ {AnyOf(U)}) \in Int
  BY <1>2, <1>4
<1>6. SumFunctionOnSet(f, U) = f[AnyOf(U)] + SumFunctionOnSet(f, U \ {AnyOf(U)})
  BY <1>3, FS_Subset, SumByChoice
<1>7. QED
  BY <1>4, <1>5, <1>6

(* The sum does not depend on the order in which elements are chosen. *)
LEMMA SumRemove ==
  ASSUME NEW f, NEW S, IsFiniteSet(S), \A x \in S : f[x] \in Int, NEW x \in S
  PROVE  SumFunctionOnSet(f, S) = f[x] + SumFunctionOnSet(f, S \ {x})
<1> DEFINE T == {U \in SUBSET S : \E y \in U :
                   SumFunctionOnSet(f, U) # f[y] + SumFunctionOnSet(f, U \ {y})}
<1> SUFFICES ASSUME T # {} PROVE FALSE
  OBVIOUS
<1>1. T \in SUBSET (SUBSET S)
  OBVIOUS
<1>2. PICK U \in T : \A V \in SUBSET U : V \in T => V = U
  <2> HIDE DEF T
  <2>1. QED
    BY <1>1, MinimalSubset
<1>3. PICK y \in U : SumFunctionOnSet(f, U) # f[y] + SumFunctionOnSet(f, U \ {y})
  OBVIOUS
<1> DEFINE c == AnyOf(U)
<1>4. c \in U
  BY AnyOfIn
<1> HIDE DEF c
<1>5. IsFiniteSet(U) /\ IsFiniteSet(U \ {c}) /\ IsFiniteSet(U \ {y}) /\ IsFiniteSet((U \ {c}) \ {y})
  BY FS_Subset
<1>6. SumFunctionOnSet(f, U) = f[c] + SumFunctionOnSet(f, U \ {c})
  BY <1>5, SumByChoice DEF c
<1>7. c # y
  BY <1>3, <1>6
<1>8. \A V \in SUBSET U : V # U =>
        \A z \in V : SumFunctionOnSet(f, V) = f[z] + SumFunctionOnSet(f, V \ {z})
  BY <1>2
<1> HIDE DEF T
<1>9. SumFunctionOnSet(f, U \ {c}) = f[y] + SumFunctionOnSet(f, (U \ {c}) \ {y})
  <2>1. U \ {c} \in SUBSET U /\ U \ {c} # U /\ y \in U \ {c}
    BY <1>4, <1>7
  <2>2. QED
    BY <1>8, <2>1
<1>10. SumFunctionOnSet(f, U \ {y}) = f[c] + SumFunctionOnSet(f, (U \ {c}) \ {y})
  <2>1. U \ {y} \in SUBSET U /\ U \ {y} # U /\ c \in U \ {y}
    BY <1>4, <1>7
  <2>2. (U \ {y}) \ {c} = (U \ {c}) \ {y}
    OBVIOUS
  <2>3. QED
    BY <1>8, <2>1, <2>2
<1>11. f[c] \in Int /\ f[y] \in Int /\ SumFunctionOnSet(f, (U \ {c}) \ {y}) \in Int
  BY <1>1, <1>4, <1>5, SumType
<1> DEFINE rest == SumFunctionOnSet(f, (U \ {c}) \ {y})
<1>12. SumFunctionOnSet(f, U) = f[c] + (f[y] + rest) /\ SumFunctionOnSet(f, U \ {y}) = f[c] + rest
  BY <1>6, <1>9, <1>10
<1> HIDE DEF rest
<1>13. f[c] + (f[y] + rest) = f[y] + (f[c] + rest)
  BY <1>11 DEF rest
<1>14. QED
  BY <1>3, <1>12, <1>13

(* Only the values on the set count. *)
LEMMA SumCongruence ==
  ASSUME NEW f, NEW g, NEW S, IsFiniteSet(S), \A x \in S : f[x] = g[x]
  PROVE  SumFunctionOnSet(f, S) = SumFunctionOnSet(g, S)
<1> DEFINE T == {U \in SUBSET S : SumFunctionOnSet(f, U) # SumFunctionOnSet(g, U)}
<1> SUFFICES ASSUME T # {} PROVE FALSE
  OBVIOUS
<1>1. T \in SUBSET (SUBSET S)
  OBVIOUS
<1>2. PICK U \in T : \A V \in SUBSET U : V \in T => V = U
  <2> HIDE DEF T
  <2>1. QED
    BY <1>1, MinimalSubset
<1>3. U # {}
  BY SumEmpty
<1>4. AnyOf(U) \in U /\ IsFiniteSet(U)
  BY <1>3, AnyOfIn, FS_Subset
<1>5. SumFunctionOnSet(f, U \ {AnyOf(U)}) = SumFunctionOnSet(g, U \ {AnyOf(U)})
  BY <1>2, <1>4
<1>6. /\ SumFunctionOnSet(f, U) = f[AnyOf(U)] + SumFunctionOnSet(f, U \ {AnyOf(U)})
      /\ SumFunctionOnSet(g, U) = g[AnyOf(U)] + SumFunctionOnSet(g, U \ {AnyOf(U)})
  BY <1>3, <1>4, SumByChoice
<1>7. QED
  BY <1>4, <1>5, <1>6

(* Changing the value of one element changes the sum by the difference. *)
LEMMA SumUpdate ==
  ASSUME NEW f, NEW g, NEW S, IsFiniteSet(S), NEW x \in S,
         \A y \in S : f[y] \in Int /\ g[y] \in Int,
         \A y \in S \ {x} : f[y] = g[y]
  PROVE  SumFunctionOnSet(g, S) = SumFunctionOnSet(f, S) - f[x] + g[x]
<1>1. IsFiniteSet(S \ {x})
  BY FS_Subset
<1>2. SumFunctionOnSet(f, S \ {x}) = SumFunctionOnSet(g, S \ {x})
  BY <1>1, SumCongruence
<1>3. /\ SumFunctionOnSet(f, S) = f[x] + SumFunctionOnSet(f, S \ {x})
      /\ SumFunctionOnSet(g, S) = g[x] + SumFunctionOnSet(g, S \ {x})
  BY SumRemove
<1>4. SumFunctionOnSet(f, S \ {x}) \in Int
  BY <1>1, SumType
<1>5. QED
  BY <1>2, <1>3, <1>4

(* Elements of value zero may be left out. *)
LEMMA SumSupport ==
  ASSUME NEW f, NEW S, IsFiniteSet(S), NEW M \in SUBSET S,
         \A x \in S : f[x] \in Int, \A x \in S \ M : f[x] = 0
  PROVE  SumFunctionOnSet(f, M) = SumFunctionOnSet(f, S)
<1> DEFINE T == {U \in SUBSET S : M \subseteq U /\ SumFunctionOnSet(f, U) # SumFunctionOnSet(f, M)}
<1> SUFFICES ASSUME T # {} PROVE FALSE
  OBVIOUS
<1>1. T \in SUBSET (SUBSET S)
  OBVIOUS
<1>2. PICK U \in T : \A V \in SUBSET U : V \in T => V = U
  <2> HIDE DEF T
  <2>1. QED
    BY <1>1, MinimalSubset
<1>3. PICK x \in U : x \notin M
  OBVIOUS
<1>4. SumFunctionOnSet(f, U \ {x}) = SumFunctionOnSet(f, M)
  BY <1>2, <1>3
<1>5. IsFiniteSet(U) /\ IsFiniteSet(U \ {x})
  BY FS_Subset
<1>6. SumFunctionOnSet(f, U) = f[x] + SumFunctionOnSet(f, U \ {x})
  BY <1>5, SumRemove
<1>7. f[x] = 0 /\ SumFunctionOnSet(f, U \ {x}) \in Int
  BY <1>3, <1>5, SumType
<1>8. QED
  BY <1>4, <1>6, <1>7

(* The sum over one element. *)
LEMMA SumSingleton ==
  ASSUME NEW f, NEW x, f[x] \in Int
  PROVE  SumFunctionOnSet(f, {x}) = f[x]
<1>1. IsFiniteSet({x}) /\ {x} \ {x} = {}
  BY FS_Singleton
<1>2. SumFunctionOnSet(f, {x}) = f[x] + SumFunctionOnSet(f, {x} \ {x})
  BY <1>1, SumRemove
<1>3. QED
  BY <1>1, <1>2, SumEmpty

(* The sum of differences is the difference of the sums. *)
LEMMA SumMinus ==
  ASSUME NEW f, NEW g, NEW h, NEW S, IsFiniteSet(S),
         \A x \in S : f[x] \in Int /\ g[x] \in Int /\ h[x] = f[x] - g[x]
  PROVE  SumFunctionOnSet(h, S) = SumFunctionOnSet(f, S) - SumFunctionOnSet(g, S)
<1> DEFINE Fails(U) == SumFunctionOnSet(h, U) # SumFunctionOnSet(f, U) - SumFunctionOnSet(g, U)
           T == {U \in SUBSET S : Fails(U)}
<1> SUFFICES ASSUME T # {} PROVE FALSE
  OBVIOUS
<1>1. T \in SUBSET (SUBSET S)
  OBVIOUS
<1>2. PICK U \in T : \A V \in SUBSET U : V \in T => V = U
  <2> HIDE DEF T
  <2>1. QED
    BY <1>1, MinimalSubset
<1>3. U # {}
  BY SumEmpty
<1>4. PICK x \in U : TRUE
  BY <1>3
<1>5. IsFiniteSet(U) /\ IsFiniteSet(U \ {x})
  BY FS_Subset
<1>6. U \ {x} \in SUBSET U /\ U \ {x} # U /\ U \ {x} \in SUBSET S
  OBVIOUS
<1>7. ~Fails(U \ {x})
  BY <1>2, <1>6
<1>8. /\ SumFunctionOnSet(f, U) = f[x] + SumFunctionOnSet(f, U \ {x})
      /\ SumFunctionOnSet(g, U) = g[x] + SumFunctionOnSet(g, U \ {x})
      /\ SumFunctionOnSet(h, U) = h[x] + SumFunctionOnSet(h, U \ {x})
  <2>1. \A y \in U : f[y] \in Int /\ g[y] \in Int /\ h[y] \in Int
    OBVIOUS
  <2>2. QED
    BY <1>5, <2>1, SumRemove
<1>9. SumFunctionOnSet(f, U \ {x}) \in Int /\ SumFunctionOnSet(g, U \ {x}) \in Int
  BY <1>5, <1>6, SumType
<1>10. f[x] \in Int /\ g[x] \in Int /\ h[x] = f[x] - g[x]
  OBVIOUS
<1>11. SumFunctionOnSet(h, U) = SumFunctionOnSet(f, U) - SumFunctionOnSet(g, U)
  BY <1>7, <1>8, <1>9, <1>10
<1>12. QED
  BY <1>11

(* A sum taken class by class, whatever classes h puts the elements in.     *)
LEMMA SumFibers ==
  ASSUME NEW f, NEW S, IsFiniteSet(S), \A x \in S : f[x] \in Int,
         NEW K, IsFiniteSet(K), NEW h, \A x \in S : h[x] \in K
  PROVE  SumFunctionOnSet(f, S) =
           SumFunctionOnSet([k \in K |-> SumFunctionOnSet(f, {x \in S : h[x] = k})], K)
<1> DEFINE Class(U, k) == {x \in U : h[x] = k}
           G(U) == [k \in K |-> SumFunctionOnSet(f, Class(U, k))]
           Fails(U) == SumFunctionOnSet(f, U) # SumFunctionOnSet(G(U), K)
           T == {U \in SUBSET S : Fails(U)}
<1> SUFFICES ASSUME T # {} PROVE FALSE
  OBVIOUS
<1>1. T \in SUBSET (SUBSET S)
  OBVIOUS
<1>2. PICK U \in T : \A V \in SUBSET U : V \in T => V = U
  <2> HIDE DEF T
  <2>1. QED
    BY <1>1, MinimalSubset
<1>3. Fails(U) /\ U \in SUBSET S
  OBVIOUS
<1>4. U # {}
  <2> SUFFICES ASSUME U = {} PROVE ~Fails(U)
    BY <1>3
  <2>1. \A k \in K : G(U)[k] = 0
    BY SumEmpty
  <2> HIDE DEF G
  <2>2. SumFunctionOnSet(G(U), {}) = SumFunctionOnSet(G(U), K)
    BY <2>1, SumSupport
  <2>3. QED
    BY <2>2, SumEmpty
<1>5. PICK x \in U : TRUE
  BY <1>4
<1> DEFINE V == U \ {x}
<1>6. V \in SUBSET U /\ V # U /\ V \in SUBSET S /\ IsFiniteSet(U) /\ IsFiniteSet(V)
  BY FS_Subset
<1>7. SumFunctionOnSet(f, V) = SumFunctionOnSet(G(V), K)
  BY <1>2, <1>6
<1> HIDE DEF T, Fails, V
<1>8. \A k \in K : G(V)[k] \in Int /\ G(U)[k] \in Int
  <2> SUFFICES ASSUME NEW k \in K PROVE G(V)[k] \in Int /\ G(U)[k] \in Int
    OBVIOUS
  <2>1. IsFiniteSet(Class(V, k)) /\ IsFiniteSet(Class(U, k))
    BY <1>6, FS_Subset
  <2>2. \A y \in Class(V, k) \cup Class(U, k) : f[y] \in Int
    <3>1. Class(V, k) \cup Class(U, k) \subseteq S
      BY <1>3, <1>6
    <3>2. QED
      BY <3>1
  <2> HIDE DEF Class
  <2>3. QED
    BY <2>1, <2>2, SumType
<1>9. \A k \in K \ {h[x]} : G(U)[k] = G(V)[k]
  <2> SUFFICES ASSUME NEW k \in K \ {h[x]} PROVE G(U)[k] = G(V)[k]
    OBVIOUS
  <2>1. Class(U, k) = Class(V, k)
    BY DEF V
  <2> HIDE DEF Class
  <2>2. QED
    BY <2>1
<1>10. h[x] \in K /\ G(U)[h[x]] = f[x] + G(V)[h[x]]
  <2>1. x \in Class(U, h[x]) /\ Class(U, h[x]) \ {x} = Class(V, h[x])
    BY DEF V
  <2>2. IsFiniteSet(Class(U, h[x])) /\ Class(U, h[x]) \subseteq S
    BY <1>3, <1>6, FS_Subset
  <2> HIDE DEF Class
  <2>3. SumFunctionOnSet(f, Class(U, h[x])) = f[x] + SumFunctionOnSet(f, Class(V, h[x]))
    BY <2>1, <2>2, SumRemove
  <2>4. h[x] \in K
    BY <1>3
  <2>5. QED
    BY <2>3, <2>4
<1>11. SumFunctionOnSet(f, U) = f[x] + SumFunctionOnSet(f, V)
  BY <1>3, <1>6, SumRemove DEF V
<1>12. SumFunctionOnSet(f, V) \in Int /\ f[x] \in Int
  BY <1>3, <1>6, SumType
<1> HIDE DEF G
<1>13. SumFunctionOnSet(G(U), K) = SumFunctionOnSet(G(V), K) - G(V)[h[x]] + G(U)[h[x]]
  BY <1>8, <1>9, <1>10, SumUpdate
<1>14. SumFunctionOnSet(f, U) = SumFunctionOnSet(G(U), K)
  BY <1>7, <1>8, <1>10, <1>11, <1>12, <1>13
<1>15. QED
  BY <1>3, <1>14 DEF Fails
=============================================================================
