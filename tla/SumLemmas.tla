----------------------------- MODULE SumLemmas -----------------------------
(***************************************************************************)
(* Sums over a finite set: what the ledgers of the other modules are made  *)
(* of.  A sum is what SumFunction and SumFunctionOnSet of module Functions *)
(* compute, by a recursion over the set; the facts about it are proved by  *)
(* induction on the set.  An induction is stated without a predicate: G is *)
(* the set of the subsets that have the property.                          *)
(***************************************************************************)
EXTENDS Functions, FiniteSetTheorems, WellFoundedInduction, TLAPS

(***************************************************************************)
(* What holds of a set whenever it holds of all its proper subsets holds   *)
(* of every finite set: a smallest counterexample, which well-foundedness  *)
(* of inclusion provides, would have none smaller.                         *)
(***************************************************************************)
LEMMA SubsetInduction ==
  ASSUME NEW S, IsFiniteSet(S), NEW G,
         \A T \in SUBSET S : (\A U \in SUBSET T : U # T => U \in G) => T \in G
  PROVE  S \in G
<1>1. IsWellFoundedOn(StrictSubsetOrdering(S), FiniteSubsetsOf(S))
  BY FS_StrictSubsetOrderingWellFounded
<1>2. FiniteSubsetsOf(S) = SUBSET S
  BY FS_FiniteSubsetsOfFinite
<1>3. SUFFICES ASSUME S \notin G PROVE FALSE
  OBVIOUS
<1> DEFINE B == {T \in SUBSET S : T \notin G}
<1>4. B # {} /\ B \subseteq FiniteSubsetsOf(S)
  BY <1>2, <1>3
<1> HIDE DEF B
<1>5. PICK T \in B : \A U \in B : ~(<<U, T>> \in StrictSubsetOrdering(S))
  BY <1>1, <1>4, WFMin
<1>6. \A U \in SUBSET T : U # T => U \in G
  BY <1>5 DEF StrictSubsetOrdering, B
<1> QED
  BY <1>5, <1>6 DEF B

\* The element a fold takes first, and the recursion that defines a sum.
Pick(s) == CHOOSE x \in s : TRUE
Adds(g, f, S) ==
  g = [s \in SUBSET S |-> IF s = {} THEN 0 ELSE f[Pick(s)] + g[s \ {Pick(s)}]]

(***************************************************************************)
(* What is picked is a member.                                             *)
(***************************************************************************)
LEMMA PickIn == ASSUME NEW s, s # {} PROVE Pick(s) \in s
  BY DEF Pick

(***************************************************************************)
(* SumFunctionOnSet is the value at S of a function that satisfies the     *)
(* recursion.                                                              *)
(***************************************************************************)
LEMMA SumUnfold ==
  ASSUME NEW f, NEW S
  PROVE  SumFunctionOnSet(f, S) = (CHOOSE g : Adds(g, f, S))[S]
  BY DEF SumFunctionOnSet, FoldFunctionOnSet, MapThenFoldSet, Adds, Pick

(***************************************************************************)
(* The recursion, at one set.                                              *)
(***************************************************************************)
LEMMA AddsAt ==
  ASSUME NEW f, NEW S, NEW g, Adds(g, f, S), NEW s \in SUBSET S
  PROVE  g[s] = IF s = {} THEN 0 ELSE f[Pick(s)] + g[s \ {Pick(s)}]
  BY DEF Adds

(***************************************************************************)
(* Two solutions of the recursion, over different sets even, agree on      *)
(* every finite set both are defined on.                                   *)
(***************************************************************************)
LEMMA AddsAgree ==
  ASSUME NEW f, NEW S, NEW T, NEW g, NEW h, Adds(g, f, S), Adds(h, f, T),
         NEW U, IsFiniteSet(U), U \subseteq S, U \subseteq T
  PROVE  g[U] = h[U]
<1> DEFINE G == {V \in SUBSET U : g[V] = h[V]}
<1>1. ASSUME NEW V \in SUBSET U, \A W \in SUBSET V : W # V => W \in G
      PROVE  V \in G
  <2>1. CASE V = {}
    <3>1. g[V] = 0 /\ h[V] = 0
      BY <2>1, AddsAt
    <3> QED
      BY <3>1
  <2>2. CASE V # {}
    <3>1. Pick(V) \in V
      BY <2>2, PickIn
    <3>2. V \ {Pick(V)} \in G
      BY <1>1, <3>1
    <3>3. g[V] = f[Pick(V)] + g[V \ {Pick(V)}]
      BY <2>2, AddsAt
    <3>4. h[V] = f[Pick(V)] + h[V \ {Pick(V)}]
      BY <2>2, AddsAt
    <3> QED
      BY <3>2, <3>3, <3>4
  <2> QED
    BY <2>1, <2>2
<1> HIDE DEF G
<1>2. U \in G
  BY <1>1, SubsetInduction
<1> QED
  BY <1>2 DEF G

(***************************************************************************)
(* The recursion has a solution over every finite set.                     *)
(***************************************************************************)
LEMMA AddsExists ==
  ASSUME NEW f, NEW S, IsFiniteSet(S)
  PROVE  \E g : Adds(g, f, S)
<1> DEFINE G == {T \in SUBSET S : \E g : Adds(g, f, T)}
           Sol(u) == CHOOSE g : Adds(g, f, u)
<1>1. ASSUME NEW T \in SUBSET S, \A U \in SUBSET T : U # T => U \in G
      PROVE  T \in G
  <2>1. ASSUME NEW U \in SUBSET T, U # T PROVE Adds(Sol(U), f, U) /\ IsFiniteSet(U)
    <3>1. U \in G
      BY <1>1, <2>1
    <3>2. \E g : Adds(g, f, U)
      BY <3>1
    <3>3. Adds(Sol(U), f, U)
      BY <3>2
    <3> QED
      BY <3>3, FS_Subset
  <2> DEFINE h == [s \in SUBSET T |-> IF s = {} THEN 0 ELSE f[Pick(s)] + Sol(s \ {Pick(s)})[s \ {Pick(s)}]]
  <2> HIDE DEF Sol
  <2>2. ASSUME NEW s \in SUBSET T, s # {}
        PROVE  h[s \ {Pick(s)}] = Sol(s \ {Pick(s)})[s \ {Pick(s)}]
    <3> DEFINE u == s \ {Pick(s)}
               w == u \ {Pick(u)}
    <3>1. Pick(s) \in s
      BY <2>2, PickIn
    <3>2. u \in SUBSET T /\ u # T
      BY <3>1
    <3>3. Adds(Sol(u), f, u)
      BY <2>1, <3>2
    <3>4. Sol(u)[u] = IF u = {} THEN 0 ELSE f[Pick(u)] + Sol(u)[w]
      <4> HIDE DEF u
      <4>1. u \in SUBSET u
        OBVIOUS
      <4> QED
        BY <3>3, <4>1, AddsAt
    <3>5. ASSUME u # {} PROVE Sol(u)[w] = Sol(w)[w]
      <4>1. Pick(u) \in u
        BY <3>5, PickIn
      <4>2. w \in SUBSET T /\ w # T /\ w \subseteq u
        BY <3>2, <4>1
      <4>3. Adds(Sol(w), f, w) /\ IsFiniteSet(w)
        BY <2>1, <4>2
      <4> QED
        BY <3>3, <4>2, <4>3, AddsAgree
    <3>6. h[u] = IF u = {} THEN 0 ELSE f[Pick(u)] + Sol(w)[w]
      BY <3>2
    <3> QED
      BY <3>4, <3>5, <3>6
  <2>3. Adds(h, f, T)
    <3> DEFINE k == [s \in SUBSET T |-> IF s = {} THEN 0 ELSE f[Pick(s)] + h[s \ {Pick(s)}]]
    <3>1. \A s \in SUBSET T : h[s] = k[s]
      BY <2>2
    <3>2. h = k
      BY <3>1
    <3> QED
      BY <3>2 DEF Adds
  <2> QED
    BY <2>3
<1> HIDE DEF G
<1>2. S \in G
  BY <1>1, SubsetInduction
<1> QED
  BY <1>2 DEF G

(***************************************************************************)
(* A sum is the value of any solution of its recursion.                    *)
(***************************************************************************)
LEMMA SumSolved ==
  ASSUME NEW f, NEW S, IsFiniteSet(S), NEW g, Adds(g, f, S), NEW T \in SUBSET S
  PROVE  SumFunctionOnSet(f, T) = g[T]
<1> DEFINE h == CHOOSE k : Adds(k, f, T)
<1>1. IsFiniteSet(T)
  BY FS_Subset
<1>2. Adds(h, f, T)
  BY <1>1, AddsExists
<1>3. SumFunctionOnSet(f, T) = h[T]
  BY SumUnfold
<1> HIDE DEF h
<1>4. h[T] = g[T]
  BY <1>1, <1>2, AddsAgree
<1> QED
  BY <1>3, <1>4

(***************************************************************************)
(* Nothing adds up to nought.                                              *)
(***************************************************************************)
LEMMA SumEmpty == ASSUME NEW f PROVE SumFunctionOnSet(f, {}) = 0
<1>1. IsFiniteSet({})
  BY FS_EmptySet
<1>2. PICK g : Adds(g, f, {})
  BY <1>1, AddsExists
<1>3. SumFunctionOnSet(f, {}) = g[{}]
  BY <1>1, <1>2, SumSolved
<1>4. g[{}] = 0
  BY <1>2, AddsAt
<1> QED
  BY <1>3, <1>4

(***************************************************************************)
(* One step of the recursion.                                              *)
(***************************************************************************)
LEMMA SumPick ==
  ASSUME NEW f, NEW S, IsFiniteSet(S), S # {}
  PROVE  SumFunctionOnSet(f, S) = f[Pick(S)] + SumFunctionOnSet(f, S \ {Pick(S)})
<1>1. PICK g : Adds(g, f, S)
  BY AddsExists
<1>2. S \in SUBSET S /\ S \ {Pick(S)} \in SUBSET S
  OBVIOUS
<1>3. SumFunctionOnSet(f, S) = g[S]
  BY <1>1, <1>2, SumSolved
<1>4. SumFunctionOnSet(f, S \ {Pick(S)}) = g[S \ {Pick(S)}]
  BY <1>1, <1>2, SumSolved
<1>5. g[S] = f[Pick(S)] + g[S \ {Pick(S)}]
  BY <1>1, <1>2, AddsAt
<1> QED
  BY <1>3, <1>4, <1>5

(***************************************************************************)
(* A sum of integers is an integer.                                        *)
(***************************************************************************)
LEMMA SumInt ==
  ASSUME NEW f, NEW S, IsFiniteSet(S), \A x \in S : f[x] \in Int
  PROVE  SumFunctionOnSet(f, S) \in Int
<1> DEFINE G == {T \in SUBSET S : SumFunctionOnSet(f, T) \in Int}
<1>1. ASSUME NEW T \in SUBSET S, \A U \in SUBSET T : U # T => U \in G
      PROVE  T \in G
  <2>1. CASE T = {}
    BY <2>1, SumEmpty
  <2>2. CASE T # {}
    <3>1. Pick(T) \in T /\ IsFiniteSet(T)
      BY <2>2, PickIn, FS_Subset
    <3>2. T \ {Pick(T)} \in G
      BY <1>1, <3>1
    <3>3. SumFunctionOnSet(f, T) = f[Pick(T)] + SumFunctionOnSet(f, T \ {Pick(T)})
      BY <2>2, <3>1, SumPick
    <3>4. f[Pick(T)] \in Int /\ SumFunctionOnSet(f, T \ {Pick(T)}) \in Int
      BY <3>1, <3>2
    <3> QED
      BY <3>3, <3>4
  <2> QED
    BY <2>1, <2>2
<1> HIDE DEF G
<1>2. S \in G
  BY <1>1, SubsetInduction
<1> QED
  BY <1>2 DEF G

(***************************************************************************)
(* A sum depends on the values of its members only.                        *)
(***************************************************************************)
LEMMA SumSame ==
  ASSUME NEW f, NEW g, NEW S, IsFiniteSet(S), \A x \in S : f[x] = g[x]
  PROVE  SumFunctionOnSet(f, S) = SumFunctionOnSet(g, S)
<1> DEFINE G == {T \in SUBSET S : SumFunctionOnSet(f, T) = SumFunctionOnSet(g, T)}
<1>1. ASSUME NEW T \in SUBSET S, \A U \in SUBSET T : U # T => U \in G
      PROVE  T \in G
  <2>1. CASE T = {}
    <3>1. SumFunctionOnSet(f, {}) = 0 /\ SumFunctionOnSet(g, {}) = 0
      BY SumEmpty
    <3> QED
      BY <2>1, <3>1
  <2>2. CASE T # {}
    <3>1. Pick(T) \in T /\ IsFiniteSet(T)
      BY <2>2, PickIn, FS_Subset
    <3>2. T \ {Pick(T)} \in G
      BY <1>1, <3>1
    <3>3. SumFunctionOnSet(f, T) = f[Pick(T)] + SumFunctionOnSet(f, T \ {Pick(T)})
      BY <2>2, <3>1, SumPick
    <3>4. SumFunctionOnSet(g, T) = g[Pick(T)] + SumFunctionOnSet(g, T \ {Pick(T)})
      BY <2>2, <3>1, SumPick
    <3> QED
      BY <3>1, <3>2, <3>3, <3>4
  <2> QED
    BY <2>1, <2>2
<1> HIDE DEF G
<1>2. S \in G
  BY <1>1, SubsetInduction
<1> QED
  BY <1>2 DEF G

(***************************************************************************)
(* Any member may be added last.                                           *)
(***************************************************************************)
LEMMA SumOut ==
  ASSUME NEW f, NEW S, IsFiniteSet(S), \A x \in S : f[x] \in Int, NEW y \in S
  PROVE  SumFunctionOnSet(f, S) = f[y] + SumFunctionOnSet(f, S \ {y})
<1> DEFINE G == {T \in SUBSET S : \A z \in T :
                   SumFunctionOnSet(f, T) = f[z] + SumFunctionOnSet(f, T \ {z})}
<1>1. ASSUME NEW T \in SUBSET S, \A U \in SUBSET T : U # T => U \in G
      PROVE  T \in G
  <2> SUFFICES ASSUME NEW z \in T
               PROVE SumFunctionOnSet(f, T) = f[z] + SumFunctionOnSet(f, T \ {z})
    OBVIOUS
  <2>0. T # {} /\ IsFiniteSet(T)
    BY FS_Subset
  <2>00. Pick(T) \in T
    BY <2>0, PickIn
  <2>000. SumFunctionOnSet(f, T) = f[Pick(T)] + SumFunctionOnSet(f, T \ {Pick(T)})
    BY <2>0, SumPick
  <2> DEFINE c == Pick(T)
  <2>1. c \in T /\ IsFiniteSet(T)
    BY <2>0, <2>00
  <2>2. SumFunctionOnSet(f, T) = f[c] + SumFunctionOnSet(f, T \ {c})
    BY <2>000
  <2> HIDE DEF c
  <2>3. CASE c = z
    BY <2>2, <2>3
  <2>4. CASE c # z
    <3>1. T \ {c} \in G /\ T \ {z} \in G
      BY <1>1, <2>1
    <3>2. SumFunctionOnSet(f, T \ {c}) = f[z] + SumFunctionOnSet(f, (T \ {c}) \ {z})
      BY <2>4, <3>1
    <3>3. SumFunctionOnSet(f, T \ {z}) = f[c] + SumFunctionOnSet(f, (T \ {z}) \ {c})
      BY <2>1, <2>4, <3>1
    <3>4. (T \ {c}) \ {z} = (T \ {z}) \ {c} /\ IsFiniteSet((T \ {c}) \ {z})
      BY <2>1, FS_RemoveElement
    <3>5. SumFunctionOnSet(f, (T \ {c}) \ {z}) \in Int
      BY <3>4, SumInt
    <3>6. f[c] \in Int /\ f[z] \in Int
      BY <2>1
    <3> DEFINE r == SumFunctionOnSet(f, (T \ {c}) \ {z})
    <3>7. f[c] + (f[z] + r) = f[z] + (f[c] + r)
      BY <3>5, <3>6
    <3>8. SumFunctionOnSet(f, T) = f[c] + (f[z] + r)
      BY <2>2, <3>2
    <3>9. SumFunctionOnSet(f, T \ {z}) = f[c] + r
      BY <3>3, <3>4
    <3> HIDE DEF r
    <3> QED
      BY <3>7, <3>8, <3>9
  <2> QED
    BY <2>3, <2>4
<1> HIDE DEF G
<1>2. S \in G
  BY <1>1, SubsetInduction
<1> QED
  BY <1>2 DEF G

(***************************************************************************)
(* A new member adds its value.                                            *)
(***************************************************************************)
LEMMA SumIn ==
  ASSUME NEW f, NEW S, IsFiniteSet(S), NEW y, y \notin S, \A x \in S \cup {y} : f[x] \in Int
  PROVE  SumFunctionOnSet(f, S \cup {y}) = SumFunctionOnSet(f, S) + f[y]
<1>1. IsFiniteSet(S \cup {y})
  BY FS_AddElement
<1>2. (S \cup {y}) \ {y} = S /\ y \in S \cup {y}
  OBVIOUS
<1>3. SumFunctionOnSet(f, S \cup {y}) = f[y] + SumFunctionOnSet(f, S)
  BY <1>1, <1>2, SumOut
<1>4. SumFunctionOnSet(f, S) \in Int /\ f[y] \in Int
  BY SumInt
<1> QED
  BY <1>3, <1>4

(***************************************************************************)
(* Induction by adding one element at a time.                              *)
(***************************************************************************)
LEMMA AddInduction ==
  ASSUME NEW S, IsFiniteSet(S), NEW G, {} \in G,
         \A T \in SUBSET S : \A y \in S \ T : T \in G => T \cup {y} \in G
  PROVE  S \in G
<1>1. ASSUME NEW T \in SUBSET S, \A U \in SUBSET T : U # T => U \in G
      PROVE  T \in G
  <2>1. CASE T = {}
    BY <2>1
  <2>2. CASE T # {}
    <3>1. PICK y \in T : TRUE
      BY <2>2
    <3>2. T \ {y} \in G /\ T \ {y} \in SUBSET S /\ y \in S \ (T \ {y})
      BY <1>1, <3>1
    <3>3. (T \ {y}) \cup {y} \in G
      BY <3>2
    <3>4. (T \ {y}) \cup {y} = T
      BY <3>1
    <3> QED
      BY <3>3, <3>4
  <2> QED
    BY <2>1, <2>2
<1> QED
  BY <1>1, SubsetInduction

(***************************************************************************)
(* When one value changes, the sum changes by the difference.              *)
(***************************************************************************)
LEMMA SumUpdate ==
  ASSUME NEW f, NEW g, NEW S, IsFiniteSet(S), NEW y \in S,
         \A x \in S : f[x] \in Int /\ g[x] \in Int,
         \A x \in S \ {y} : g[x] = f[x]
  PROVE  SumFunctionOnSet(g, S) = SumFunctionOnSet(f, S) + (g[y] - f[y])
<1>1. IsFiniteSet(S \ {y})
  BY FS_RemoveElement
<1>2. SumFunctionOnSet(f, S) = f[y] + SumFunctionOnSet(f, S \ {y})
  BY SumOut
<1>3. SumFunctionOnSet(g, S) = g[y] + SumFunctionOnSet(g, S \ {y})
  BY SumOut
<1>4. SumFunctionOnSet(g, S \ {y}) = SumFunctionOnSet(f, S \ {y})
  BY <1>1, SumSame
<1>5. SumFunctionOnSet(f, S \ {y}) \in Int
  BY <1>1, SumInt
<1> QED
  BY <1>2, <1>3, <1>4, <1>5

(***************************************************************************)
(* Sums add up as their values do.                                         *)
(***************************************************************************)
LEMMA SumPlus ==
  ASSUME NEW f, NEW g, NEW h, NEW S, IsFiniteSet(S),
         \A x \in S : f[x] \in Int /\ g[x] \in Int /\ h[x] = f[x] + g[x]
  PROVE  SumFunctionOnSet(h, S) = SumFunctionOnSet(f, S) + SumFunctionOnSet(g, S)
<1> DEFINE G == {T \in SUBSET S :
                   SumFunctionOnSet(h, T) = SumFunctionOnSet(f, T) + SumFunctionOnSet(g, T)}
<1>1. {} \in G
  BY SumEmpty
<1>2. ASSUME NEW T \in SUBSET S, NEW y \in S \ T, T \in G PROVE T \cup {y} \in G
  <2>1. IsFiniteSet(T) /\ T \cup {y} \in SUBSET S
    BY FS_Subset
  <2>2. \A x \in T \cup {y} : f[x] \in Int /\ g[x] \in Int /\ h[x] \in Int
    BY <2>1
  <2>3. SumFunctionOnSet(f, T \cup {y}) = SumFunctionOnSet(f, T) + f[y]
    BY <2>1, <2>2, SumIn
  <2>4. SumFunctionOnSet(g, T \cup {y}) = SumFunctionOnSet(g, T) + g[y]
    BY <2>1, <2>2, SumIn
  <2>5. SumFunctionOnSet(h, T \cup {y}) = SumFunctionOnSet(h, T) + h[y]
    BY <2>1, <2>2, SumIn
  <2>6. SumFunctionOnSet(f, T) \in Int /\ SumFunctionOnSet(g, T) \in Int
    BY <2>1, <2>2, SumInt
  <2>7. SumFunctionOnSet(h, T) = SumFunctionOnSet(f, T) + SumFunctionOnSet(g, T)
    BY <1>2
  <2>8. f[y] \in Int /\ g[y] \in Int /\ h[y] = f[y] + g[y]
    OBVIOUS
  <2> QED
    BY <2>1, <2>3, <2>4, <2>5, <2>6, <2>7, <2>8
<1> HIDE DEF G
<1>3. S \in G
  BY <1>1, <1>2, AddInduction
<1> QED
  BY <1>3 DEF G

(***************************************************************************)
(* Sums compare as their values do.                                        *)
(***************************************************************************)
LEMMA SumAtMost ==
  ASSUME NEW f, NEW g, NEW S, IsFiniteSet(S),
         \A x \in S : f[x] \in Int /\ g[x] \in Int /\ f[x] <= g[x]
  PROVE  SumFunctionOnSet(f, S) <= SumFunctionOnSet(g, S)
<1> DEFINE G == {T \in SUBSET S : SumFunctionOnSet(f, T) <= SumFunctionOnSet(g, T)}
<1>1. {} \in G
  BY SumEmpty
<1>2. ASSUME NEW T \in SUBSET S, NEW y \in S \ T, T \in G PROVE T \cup {y} \in G
  <2>1. IsFiniteSet(T) /\ T \cup {y} \in SUBSET S
    BY FS_Subset
  <2>2. \A x \in T \cup {y} : f[x] \in Int /\ g[x] \in Int
    BY <2>1
  <2>3. SumFunctionOnSet(f, T \cup {y}) = SumFunctionOnSet(f, T) + f[y]
    BY <2>1, <2>2, SumIn
  <2>4. SumFunctionOnSet(g, T \cup {y}) = SumFunctionOnSet(g, T) + g[y]
    BY <2>1, <2>2, SumIn
  <2>5. SumFunctionOnSet(f, T) \in Int /\ SumFunctionOnSet(g, T) \in Int
    BY <2>1, <2>2, SumInt
  <2>6. SumFunctionOnSet(f, T) <= SumFunctionOnSet(g, T)
    BY <1>2
  <2>7. f[y] \in Int /\ g[y] \in Int /\ f[y] <= g[y]
    OBVIOUS
  <2>8. SumFunctionOnSet(f, T \cup {y}) <= SumFunctionOnSet(g, T \cup {y})
    BY <2>3, <2>4, <2>5, <2>6, <2>7
  <2> QED
    BY <2>1, <2>8
<1> HIDE DEF G
<1>3. S \in G
  BY <1>1, <1>2, AddInduction
<1> QED
  BY <1>3 DEF G

(***************************************************************************)
(* Noughts add up to nought.                                               *)
(***************************************************************************)
LEMMA SumZero ==
  ASSUME NEW f, NEW S, IsFiniteSet(S), \A x \in S : f[x] = 0
  PROVE  SumFunctionOnSet(f, S) = 0
<1> DEFINE G == {T \in SUBSET S : SumFunctionOnSet(f, T) = 0}
<1>1. {} \in G
  BY SumEmpty
<1>2. ASSUME NEW T \in SUBSET S, NEW y \in S \ T, T \in G PROVE T \cup {y} \in G
  <2>1. IsFiniteSet(T) /\ T \cup {y} \in SUBSET S
    BY FS_Subset
  <2>2. SumFunctionOnSet(f, T \cup {y}) = SumFunctionOnSet(f, T) + f[y]
    BY <2>1, SumIn
  <2>3. SumFunctionOnSet(f, T) = 0 /\ f[y] = 0
    BY <1>2
  <2> QED
    BY <2>1, <2>2, <2>3
<1> HIDE DEF G
<1>3. S \in G
  BY <1>1, <1>2, AddInduction
<1> QED
  BY <1>3 DEF G

(***************************************************************************)
(* A sum of amounts that are not negative is not negative, and no member   *)
(* exceeds it.                                                             *)
(***************************************************************************)
LEMMA SumNat ==
  ASSUME NEW f, NEW S, IsFiniteSet(S), \A x \in S : f[x] \in Nat
  PROVE  /\ SumFunctionOnSet(f, S) \in Nat
         /\ \A y \in S : f[y] <= SumFunctionOnSet(f, S)
<1>1. \A T \in SUBSET S : SumFunctionOnSet(f, T) \in Nat
  <2> SUFFICES ASSUME NEW T \in SUBSET S PROVE SumFunctionOnSet(f, T) \in Nat
    OBVIOUS
  <2> DEFINE z == [x \in T |-> 0]
  <2>1. IsFiniteSet(T) /\ \A x \in T : z[x] = 0 /\ z[x] \in Int /\ f[x] \in Int /\ z[x] <= f[x]
    BY FS_Subset
  <2> HIDE DEF z
  <2>2. SumFunctionOnSet(z, T) = 0
    BY <2>1, SumZero
  <2>3. SumFunctionOnSet(z, T) <= SumFunctionOnSet(f, T)
    BY <2>1, SumAtMost
  <2>4. SumFunctionOnSet(f, T) \in Int
    BY <2>1, SumInt
  <2> QED
    BY <2>2, <2>3, <2>4
<1>2. ASSUME NEW y \in S PROVE f[y] <= SumFunctionOnSet(f, S)
  <2>1. SumFunctionOnSet(f, S) = f[y] + SumFunctionOnSet(f, S \ {y})
    BY SumOut
  <2>2. SumFunctionOnSet(f, S \ {y}) \in Nat /\ f[y] \in Nat
    BY <1>1
  <2> QED
    BY <2>1, <2>2
<1> QED
  BY <1>1, <1>2

(***************************************************************************)
(* Members whose value is nought may be left out.                          *)
(***************************************************************************)
LEMMA SumWithNoughts ==
  ASSUME NEW S, IsFiniteSet(S), NEW T \in SUBSET S, NEW g,
         \A x \in S : g[x] \in Int, \A x \in S \ T : g[x] = 0
  PROVE  SumFunctionOnSet(g, S) = SumFunctionOnSet(g, T)
<1> DEFINE G == {R \in SUBSET (S \ T) : SumFunctionOnSet(g, T \cup R) = SumFunctionOnSet(g, T)}
<1>1. {} \in G
  <2>1. T \cup {} = T
    OBVIOUS
  <2> QED
    BY <2>1
<1>2. ASSUME NEW R \in SUBSET (S \ T), NEW y \in (S \ T) \ R, R \in G PROVE R \cup {y} \in G
  <2>1. T \cup R \in SUBSET S /\ T \cup (R \cup {y}) = (T \cup R) \cup {y} /\ y \notin T \cup R
    OBVIOUS
  <2>2. IsFiniteSet(T \cup R) /\ \A x \in (T \cup R) \cup {y} : g[x] \in Int
    BY <2>1, FS_Subset
  <2>3. SumFunctionOnSet(g, (T \cup R) \cup {y}) = SumFunctionOnSet(g, T \cup R) + g[y]
    BY <2>1, <2>2, SumIn
  <2>4. SumFunctionOnSet(g, T \cup R) \in Int
    BY <2>1, <2>2, SumInt
  <2>5. SumFunctionOnSet(g, T \cup R) = SumFunctionOnSet(g, T) /\ g[y] = 0
    BY <1>2
  <2>6. SumFunctionOnSet(g, T \cup R) + g[y] = SumFunctionOnSet(g, T \cup R)
    BY <2>4, <2>5
  <2>7. SumFunctionOnSet(g, T \cup (R \cup {y})) = SumFunctionOnSet(g, T)
    BY <2>1, <2>3, <2>5, <2>6
  <2>8. R \cup {y} \in SUBSET (S \ T)
    OBVIOUS
  <2> QED
    BY <2>7, <2>8
<1>3. IsFiniteSet(S \ T)
  BY FS_Difference
<1> HIDE DEF G
<1>4. S \ T \in G
  BY <1>1, <1>2, <1>3, AddInduction
<1>5. T \cup (S \ T) = S
  OBVIOUS
<1> QED
  BY <1>4, <1>5 DEF G

(***************************************************************************)
(* The sum of a function over its domain is the sum over any larger set    *)
(* with nought elsewhere: how a sum over the rows a filter lets through    *)
(* becomes a sum over all rows, whose set no step changes.                 *)
(***************************************************************************)
LEMMA SumOfSome ==
  ASSUME NEW S, IsFiniteSet(S), NEW f, DOMAIN f \subseteq S, NEW g,
         \A x \in DOMAIN f : f[x] \in Int,
         \A x \in S : g[x] = IF x \in DOMAIN f THEN f[x] ELSE 0
  PROVE  SumFunction(f) = SumFunctionOnSet(g, S)
<1>1. SumFunction(f) = SumFunctionOnSet(f, DOMAIN f)
  BY DEF SumFunction
<1>2. IsFiniteSet(DOMAIN f)
  BY FS_Subset
<1>3. SumFunctionOnSet(f, DOMAIN f) = SumFunctionOnSet(g, DOMAIN f)
  BY <1>2, SumSame
<1>4. SumFunctionOnSet(g, S) = SumFunctionOnSet(g, DOMAIN f)
  BY SumWithNoughts
<1> QED
  BY <1>1, <1>3, <1>4

(***************************************************************************)
(* Adding up group by group: part[x] holds the members of T whose group is *)
(* x and g[x] is their sum, h leaves out the members of no group in S.     *)
(***************************************************************************)
LEMMA SumByGroup ==
  ASSUME NEW S, IsFiniteSet(S), NEW T, IsFiniteSet(T), NEW f \in [T -> Int],
         NEW group, DOMAIN group = T, NEW part, DOMAIN part = S, NEW g, NEW h,
         \A x \in S : \A y \in T : part[x][y] = IF group[y] = x THEN f[y] ELSE 0,
         \A x \in S : g[x] = SumFunctionOnSet(part[x], T),
         \A y \in T : h[y] = IF group[y] \in S THEN f[y] ELSE 0
  PROVE  SumFunctionOnSet(g, S) = SumFunctionOnSet(h, T)
<1> DEFINE some(U) == [y \in T |-> IF group[y] \in U THEN f[y] ELSE 0]
           G == {U \in SUBSET S : SumFunctionOnSet(g, U) = SumFunctionOnSet(some(U), T)}
<1>0. \A x \in S : g[x] \in Int
  <2> SUFFICES ASSUME NEW x \in S PROVE SumFunctionOnSet(part[x], T) \in Int
    OBVIOUS
  <2>1. \A y \in T : part[x][y] \in Int
    OBVIOUS
  <2> QED
    BY <2>1, SumInt
<1>1. {} \in G
  <2>1. \A y \in T : some({})[y] = 0
    OBVIOUS
  <2> HIDE DEF some
  <2>2. SumFunctionOnSet(some({}), T) = 0
    BY <2>1, SumZero
  <2> QED
    BY <2>2, SumEmpty
<1>2. ASSUME NEW U \in SUBSET S, NEW x \in S \ U, U \in G PROVE U \cup {x} \in G
  <2>1. IsFiniteSet(U) /\ U \cup {x} \in SUBSET S /\ x \notin U
    BY FS_Subset
  <2>2. \A z \in U \cup {x} : g[z] \in Int
    BY <1>0
  <2>3. SumFunctionOnSet(g, U \cup {x}) = SumFunctionOnSet(g, U) + g[x]
    BY <2>1, <2>2, SumIn
  <2>4. \A y \in T : /\ some(U)[y] \in Int /\ part[x][y] \in Int
                     /\ some(U \cup {x})[y] = some(U)[y] + part[x][y]
    BY <2>1
  <2>5. g[x] = SumFunctionOnSet(part[x], T)
    OBVIOUS
  <2>6. SumFunctionOnSet(g, U) = SumFunctionOnSet(some(U), T)
    BY <1>2
  <2> HIDE DEF some
  <2> DEFINE a == some(U)  b == part[x]  c == some(U \cup {x})
  <2>7. SumFunctionOnSet(c, T) = SumFunctionOnSet(a, T) + SumFunctionOnSet(b, T)
    <3>1. \A y \in T : a[y] \in Int /\ b[y] \in Int /\ c[y] = a[y] + b[y]
      BY <2>4
    <3> HIDE DEF a, b, c
    <3> QED
      BY <3>1, SumPlus
  <2> QED
    BY <2>1, <2>3, <2>5, <2>6, <2>7
<1>3. \A y \in T : h[y] = some(S)[y]
  OBVIOUS
<1> HIDE DEF some
<1>4. SumFunctionOnSet(h, T) = SumFunctionOnSet(some(S), T)
  BY <1>3, SumSame
<1> HIDE DEF G
<1>5. S \in G
  BY <1>1, <1>2, AddInduction
<1> QED
  BY <1>4, <1>5 DEF G

(***************************************************************************)
(* Of a table of numbers, the sum of the row sums is that of the column    *)
(* sums: what is taken off the tickets is what is taken off their lines.   *)
(***************************************************************************)
LEMMA SumSwap ==
  ASSUME NEW S, IsFiniteSet(S), NEW T, IsFiniteSet(T), NEW f, NEW col, DOMAIN col = T,
         NEW a, DOMAIN a = S, NEW b,
         \A x \in S : \A y \in T : f[x][y] \in Int /\ col[y][x] = f[x][y],
         \A x \in S : a[x] = SumFunctionOnSet(f[x], T),
         \A y \in T : b[y] = SumFunctionOnSet(col[y], S)
  PROVE  SumFunctionOnSet(a, S) = SumFunctionOnSet(b, T)
<1> DEFINE upto(U) == [y \in T |-> SumFunctionOnSet(col[y], U)]
           G == {U \in SUBSET S : SumFunctionOnSet(a, U) = SumFunctionOnSet(upto(U), T)}
<1>1. {} \in G
  <2>1. \A y \in T : upto({})[y] = 0
    BY SumEmpty
  <2> HIDE DEF upto
  <2>2. SumFunctionOnSet(upto({}), T) = 0
    BY <2>1, SumZero
  <2>3. SumFunctionOnSet(a, {}) = 0
    BY SumEmpty
  <2> QED
    BY <2>2, <2>3
<1>2. ASSUME NEW U \in SUBSET S, NEW x \in S \ U, U \in G PROVE U \cup {x} \in G
  <2>1. IsFiniteSet(U)
    BY FS_Subset
  <2>2. ASSUME NEW z \in S PROVE a[z] \in Int
    <3>1. SumFunctionOnSet(f[z], T) \in Int
      BY SumInt
    <3> QED
      BY <3>1
  <2>3. SumFunctionOnSet(a, U \cup {x}) = SumFunctionOnSet(a, U) + a[x]
    BY <2>1, <2>2, SumIn
  <2>4. ASSUME NEW y \in T
        PROVE  /\ upto(U)[y] \in Int /\ f[x][y] \in Int
               /\ upto(U \cup {x})[y] = upto(U)[y] + f[x][y]
    <3>1. \A z \in U \cup {x} : col[y][z] \in Int
      OBVIOUS
    <3>2. SumFunctionOnSet(col[y], U) \in Int
      BY <2>1, <3>1, SumInt
    <3>3. SumFunctionOnSet(col[y], U \cup {x}) = SumFunctionOnSet(col[y], U) + col[y][x]
      BY <2>1, <3>1, SumIn
    <3> QED
      BY <3>2, <3>3
  <2>5. SumFunctionOnSet(a, U) = SumFunctionOnSet(upto(U), T)
    BY <1>2
  <2> HIDE DEF upto
  <2> DEFINE p == upto(U)  q == f[x]  r == upto(U \cup {x})
  <2>6. SumFunctionOnSet(r, T) = SumFunctionOnSet(p, T) + SumFunctionOnSet(q, T)
    <3>1. \A y \in T : p[y] \in Int /\ q[y] \in Int /\ r[y] = p[y] + q[y]
      BY <2>4
    <3> HIDE DEF p, q, r
    <3> QED
      BY <3>1, SumPlus
  <2>7. SumFunctionOnSet(a, U \cup {x}) = SumFunctionOnSet(upto(U \cup {x}), T)
    BY <2>3, <2>5, <2>6
  <2> QED
    BY <2>7
<1> HIDE DEF G
<1>3. S \in G
  BY <1>1, <1>2, AddInduction
<1>4. SumFunctionOnSet(a, S) = SumFunctionOnSet(upto(S), T)
  BY <1>3 DEF G
<1>5. \A y \in T : upto(S)[y] = b[y]
  OBVIOUS
<1> HIDE DEF upto
<1>6. SumFunctionOnSet(upto(S), T) = SumFunctionOnSet(b, T)
  BY <1>5, SumSame
<1> QED
  BY <1>4, <1>6

(***************************************************************************)
(* Numbers put each in a place of its own, and nothing elsewhere, sum up   *)
(* to the same: the lines of a split are copied one to one.                *)
(***************************************************************************)
LEMMA SumInjected ==
  ASSUME NEW S, IsFiniteSet(S), NEW T, IsFiniteSet(T), NEW f \in [T -> Int],
         NEW c \in [T -> S], \A y, z \in T : c[y] = c[z] => y = z,
         NEW g, \A y \in T : g[c[y]] = f[y],
         \A x \in S : (\A y \in T : c[y] # x) => g[x] = 0
  PROVE  SumFunctionOnSet(g, S) = SumFunctionOnSet(f, T)
<1> DEFINE part == [x \in S |-> [y \in T |-> IF c[y] = x THEN f[y] ELSE 0]]
<1>1. DOMAIN c = T /\ DOMAIN part = S
  OBVIOUS
<1>2. \A x \in S : \A y \in T : part[x][y] = IF c[y] = x THEN f[y] ELSE 0
  OBVIOUS
<1> HIDE DEF part
<1>3. ASSUME NEW x \in S PROVE g[x] = SumFunctionOnSet(part[x], T)
  <2>1. CASE \A y \in T : c[y] # x
    <3>1. \A y \in T : part[x][y] = 0
      BY <1>2, <2>1
    <3>2. SumFunctionOnSet(part[x], T) = 0
      BY <3>1, SumZero
    <3> QED
      BY <2>1, <3>2
  <2>2. CASE \E y \in T : c[y] = x
    <3>1. PICK y \in T : c[y] = x
      BY <2>2
    <3>2. \A z \in T : part[x][z] \in Int
      BY <1>2
    <3>3. \A z \in T \ {y} : part[x][z] = 0
      BY <1>2, <3>1
    <3>4. SumFunctionOnSet(part[x], T) = part[x][y] + SumFunctionOnSet(part[x], T \ {y})
      BY <3>2, SumOut
    <3>5. IsFiniteSet(T \ {y})
      BY FS_RemoveElement
    <3>6. SumFunctionOnSet(part[x], T \ {y}) = 0
      BY <3>3, <3>5, SumZero
    <3>7. part[x][y] = f[y] /\ g[x] = f[y] /\ f[y] \in Int
      BY <1>2, <3>1
    <3> QED
      BY <3>4, <3>6, <3>7
  <2> QED
    BY <2>1, <2>2
<1>4. \A y \in T : f[y] = IF c[y] \in S THEN f[y] ELSE 0
  OBVIOUS
<1> QED
  BY <1>1, <1>2, <1>3, <1>4, SumByGroup
=============================================================================
