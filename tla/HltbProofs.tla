------------------------------ MODULE HltbProofs ------------------------------
EXTENDS HltbCache, HltbLookup, FiniteSetTheorems, TLAPS

\* A finite set of functions' arguments has one with the greatest value.
LEMMA FiniteMax ==
    ASSUME NEW S, IsFiniteSet(S), S # {}, NEW f \in [S -> Int]
    PROVE  \E m \in S : \A e \in S : f[e] <= f[m]
<1> DEFINE HasMax(U) == \E m \in U : \A e \in U : f[e] <= f[m]
           T == {U \in FiniteSubsetsOf(S) : U # {} /\ ~HasMax(U)}
<1>1. S \in FiniteSubsetsOf(S)
  BY FS_FiniteSubsetsOfFinite
<1>2. SUFFICES ASSUME S \in T PROVE FALSE
  BY <1>1
<1>3. PICK U \in T : \A V \in T : ~(<<V, U>> \in StrictSubsetOrdering(S))
  <2>1. IsWellFoundedOn(StrictSubsetOrdering(S), FiniteSubsetsOf(S))
    BY FS_StrictSubsetOrderingWellFounded
  <2>2. T \subseteq FiniteSubsetsOf(S) /\ T # {}
    BY <1>2
  <2> HIDE DEF T
  <2> QED
    BY <2>1, <2>2, WFMin
<1>4. U \subseteq S /\ IsFiniteSet(U) /\ U # {} /\ ~HasMax(U)
  BY <1>3 DEF FiniteSubsetsOf
<1>5. PICK x \in U : TRUE
  BY <1>4
<1>6. CASE U \ {x} = {}
  <2>1. \A e \in U : e = x
    BY <1>6
  <2>2. f[x] <= f[x]
    BY <1>4
  <2> QED
    BY <1>4, <2>1, <2>2
<1>7. CASE U \ {x} # {}
  <2> DEFINE V == U \ {x}
  <2>1. IsFiniteSet(V) /\ V \subseteq S
    BY <1>4, FS_RemoveElement
  <2>2. <<V, U>> \in StrictSubsetOrdering(S)
    BY <1>4, <1>5, <2>1 DEF StrictSubsetOrdering
  <2>3. HasMax(V)
    BY <1>3, <1>7, <2>1, <2>2 DEF FiniteSubsetsOf
  <2>4. PICK m \in V : \A e \in V : f[e] <= f[m]
    BY <2>3
  <2>5. f[m] \in Int /\ f[x] \in Int /\ \A e \in U : f[e] \in Int
    BY <1>4, <1>5
  <2>6. CASE f[x] <= f[m]
    <3>1. \A e \in U : f[e] <= f[m]
      BY <2>4, <2>6
    <3> QED
      BY <1>4, <3>1
  <2>7. CASE f[m] <= f[x]
    <3>1. \A e \in U : f[e] <= f[x]
      BY <2>4, <2>5, <2>7
    <3> QED
      BY <1>4, <3>1
  <2> QED
    BY <2>5, <2>6, <2>7
<1> QED
  BY <1>6, <1>7
-----------------------------------------------------------------------------
(***************************************************************************)
(* Sums.  Adds(g, f, D) says that g sums f over each subset of D, the way   *)
(* the folds of the library do.                                            *)
(***************************************************************************)
Some(s) == CHOOSE x \in s : TRUE
Adds(g, f, D) ==
    g = [s \in SUBSET D |-> IF s = {} THEN 0 ELSE f[Some(s)] + g[s \ {Some(s)}]]
Adder(f, D) == CHOOSE g : Adds(g, f, D)

LEMMA SumIsAdder ==
    ASSUME NEW f PROVE SumFunction(f) = Adder(f, DOMAIN f)[DOMAIN f]
BY DEF SumFunction, SumFunctionOnSet, FoldFunctionOnSet, MapThenFoldSet, Adder, Adds, Some

\* A set of finite sets that is not empty has a least one: what the inductions
\* over finite sets below rest on.
Family(F, D) == F \subseteq FiniteSubsetsOf(D) /\ F # {}
Least(U, F, D) ==
    /\ U \in F /\ U \subseteq D /\ IsFiniteSet(U)
    /\ \A V \in F : V \subseteq U => V = U
LEMMA LeastFiniteSet == \A F, D : Family(F, D) => \E U : Least(U, F, D)
<1> SUFFICES ASSUME NEW D, NEW F, F \subseteq FiniteSubsetsOf(D), F # {}
             PROVE  \E U : Least(U, F, D)
  BY DEF Family
<1>1. IsWellFoundedOn(StrictSubsetOrdering(D), FiniteSubsetsOf(D))
  BY FS_StrictSubsetOrderingWellFounded
<1>2. PICK U \in F : \A V \in F : ~(<<V, U>> \in StrictSubsetOrdering(D))
  BY <1>1, WFMin
<1>3. U \subseteq D /\ IsFiniteSet(U)
  BY <1>2 DEF FiniteSubsetsOf
<1>4. \A V \in F : V \subseteq D
  BY DEF FiniteSubsetsOf
<1>5. Least(U, F, D)
  BY <1>2, <1>3, <1>4 DEF StrictSubsetOrdering, Least
<1> QED
  BY <1>5

LEMMA SmallerFinite ==
    ASSUME NEW D, NEW U, U \subseteq D, IsFiniteSet(U), NEW x \in U
    PROVE  /\ U \ {x} \in FiniteSubsetsOf(D) /\ U \ {x} \subseteq U /\ U \ {x} # U
BY FS_RemoveElement DEF FiniteSubsetsOf

LEMMA SomeIn == ASSUME NEW s, s # {} PROVE Some(s) \in s
BY DEF Some

LEMMA AddsUnique ==
    ASSUME NEW f, NEW D, NEW E, NEW g, NEW h, Adds(g, f, D), Adds(h, f, E),
           NEW S, S \subseteq D, S \subseteq E, IsFiniteSet(S)
    PROVE  g[S] = h[S]
<1> DEFINE T == {U \in FiniteSubsetsOf(S) : g[U] # h[U]}
<1>1. S \in FiniteSubsetsOf(S)
  BY FS_FiniteSubsetsOfFinite
<1>2. SUFFICES ASSUME T # {} PROVE FALSE
  BY <1>1
<1>3. PICK U : Least(U, T, S)
  <2>1. Family(T, S)
    BY <1>2 DEF Family
  <2> HIDE DEF T
  <2> QED
    BY <2>1, LeastFiniteSet
<1>least. /\ U \in T /\ U \subseteq S /\ IsFiniteSet(U)
       /\ \A V \in T : V \subseteq U => V = U
  <2> HIDE DEF T
  <2> QED
    BY <1>3 DEF Least
<1>4. /\ g[U] = IF U = {} THEN 0 ELSE f[Some(U)] + g[U \ {Some(U)}]
      /\ h[U] = IF U = {} THEN 0 ELSE f[Some(U)] + h[U \ {Some(U)}]
  BY <1>least DEF Adds
<1>5. U # {} /\ Some(U) \in U
  BY <1>least, <1>4, SomeIn
<1>6. g[U \ {Some(U)}] = h[U \ {Some(U)}]
  BY <1>least, <1>5, SmallerFinite
<1> QED
  BY <1>least, <1>4, <1>5, <1>6

LEMMA AdderAdds ==
    ASSUME NEW f, NEW D, IsFiniteSet(D) PROVE Adds(Adder(f, D), f, D)
<1> DEFINE T == {U \in FiniteSubsetsOf(D) : ~Adds(Adder(f, U), f, U)}
<1>1. D \in FiniteSubsetsOf(D)
  BY FS_FiniteSubsetsOfFinite
<1>2. SUFFICES ASSUME T # {} PROVE FALSE
  BY <1>1
<1>3. PICK U : Least(U, T, D)
  <2>1. Family(T, D)
    BY <1>2 DEF Family
  <2> HIDE DEF T
  <2> QED
    BY <2>1, LeastFiniteSet
<1>least. /\ U \in T /\ U \subseteq D /\ IsFiniteSet(U)
       /\ \A V \in T : V \subseteq U => V = U
  <2> HIDE DEF T
  <2> QED
    BY <1>3 DEF Least
<1> DEFINE Less(s) == s \ {Some(s)}
           G == [s \in SUBSET U |-> IF s = {} THEN 0
                                    ELSE f[Some(s)] + Adder(f, Less(s))[Less(s)]]
\* A smaller set has its sums.
<1>4. ASSUME NEW V, V \subseteq U, V # U
      PROVE  IsFiniteSet(V) /\ Adds(Adder(f, V), f, V)
  <2>1. IsFiniteSet(V)
    BY <1>least, <1>4, FS_Subset
  <2> QED
    BY <1>least, <1>4, <2>1 DEF FiniteSubsetsOf
<1>5. ASSUME NEW s \in SUBSET U
      PROVE  G[s] = IF s = {} THEN 0 ELSE f[Some(s)] + G[Less(s)]
  <2>1. CASE s = {}
    BY <2>1
  <2>2. CASE s # {}
    <3> DEFINE V == Less(s)
    <3>1. Some(s) \in s /\ V \subseteq U /\ V # U
      BY <1>5, <2>2, SomeIn
    <3>2. IsFiniteSet(V) /\ Adds(Adder(f, V), f, V)
      BY <1>4, <3>1
    <3>3. G[s] = f[Some(s)] + Adder(f, V)[V]
      BY <2>2
    <3>4. Adder(f, V)[V] = IF V = {} THEN 0 ELSE f[Some(V)] + Adder(f, V)[Less(V)]
      BY <3>2 DEF Adds
    <3>5. G[V] = Adder(f, V)[V]
      <4>1. CASE V = {}
        BY <3>1, <3>4, <4>1
      <4>2. CASE V # {}
        <5>1. Some(V) \in V /\ Less(V) \subseteq U /\ Less(V) # U /\ Less(V) \subseteq V
          BY <3>1, <4>2, SomeIn
        <5>2. IsFiniteSet(Less(V)) /\ Adds(Adder(f, Less(V)), f, Less(V))
          <6> DEFINE W == Less(V)
          <6>1. W \subseteq U /\ W # U
            BY <5>1
          <6> HIDE DEF W
          <6>2. IsFiniteSet(W) /\ Adds(Adder(f, W), f, W)
            BY <1>4, <6>1
          <6> QED
            BY <6>2 DEF W
        <5>3. Adder(f, V)[Less(V)] = Adder(f, Less(V))[Less(V)]
          <6> HIDE DEF V
          <6> QED
            BY <3>2, <5>1, <5>2, AddsUnique
        <5>4. G[V] = f[Some(V)] + Adder(f, Less(V))[Less(V)]
          <6> HIDE DEF V
          <6> QED
            BY <3>1, <4>2
        <5> QED
          BY <3>4, <4>2, <5>3, <5>4
      <4> QED
        BY <4>1, <4>2
    <3> QED
      BY <2>2, <3>3, <3>5
  <2> QED
    BY <2>1, <2>2
<1>6. Adds(G, f, U)
  <2>1. G = [s \in SUBSET U |-> G[s]]
    OBVIOUS
  <2> HIDE DEF G
  <2>2. G = [s \in SUBSET U |-> IF s = {} THEN 0 ELSE f[Some(s)] + G[s \ {Some(s)}]]
    BY <1>5, <2>1
  <2> QED
    BY <2>2 DEF Adds
<1>7. Adds(Adder(f, U), f, U)
  <2> HIDE DEF G
  <2> QED
    BY <1>6 DEF Adder
<1> QED
  BY <1>least, <1>7

\* The sum of f over S.
SumOf(f, S) == Adder(f, S)[S]

LEMMA SumSome ==
    ASSUME NEW f, NEW S, IsFiniteSet(S)
    PROVE  SumOf(f, S) = IF S = {} THEN 0 ELSE f[Some(S)] + SumOf(f, S \ {Some(S)})
<1>1. Adds(Adder(f, S), f, S)
  BY AdderAdds
<1>2. SumOf(f, S) = IF S = {} THEN 0 ELSE f[Some(S)] + Adder(f, S)[S \ {Some(S)}]
  BY <1>1 DEF Adds, SumOf
<1>3. IsFiniteSet(S \ {Some(S)})
  BY FS_RemoveElement
<1>4. Adds(Adder(f, S \ {Some(S)}), f, S \ {Some(S)})
  BY <1>3, AdderAdds
<1>5. Adder(f, S)[S \ {Some(S)}] = Adder(f, S \ {Some(S)})[S \ {Some(S)}]
  BY <1>1, <1>3, <1>4, AddsUnique
<1> QED
  BY <1>2, <1>5 DEF SumOf

LEMMA SumInt ==
    ASSUME NEW f, NEW S, IsFiniteSet(S), \A x \in S : f[x] \in Int
    PROVE  SumOf(f, S) \in Int
<1> DEFINE T == {U \in FiniteSubsetsOf(S) : SumOf(f, U) \notin Int}
<1>1. S \in FiniteSubsetsOf(S)
  BY FS_FiniteSubsetsOfFinite
<1>2. SUFFICES ASSUME T # {} PROVE FALSE
  BY <1>1
<1>3. PICK U : Least(U, T, S)
  <2>1. Family(T, S)
    BY <1>2 DEF Family
  <2> HIDE DEF T
  <2> QED
    BY <2>1, LeastFiniteSet
<1>least. /\ U \in T /\ U \subseteq S /\ IsFiniteSet(U)
       /\ \A V \in T : V \subseteq U => V = U
  <2> HIDE DEF T
  <2> QED
    BY <1>3 DEF Least
<1>4. U # {} => Some(U) \in U /\ SumOf(f, U \ {Some(U)}) \in Int
  BY <1>least, SmallerFinite, SomeIn
<1>5. SumOf(f, U) = IF U = {} THEN 0 ELSE f[Some(U)] + SumOf(f, U \ {Some(U)})
  BY <1>least, SumSome
<1>6. SumOf(f, U) \in Int
  BY <1>least, <1>4, <1>5
<1> QED
  BY <1>least, <1>6

\* Whichever element is taken out first.
LEMMA SumRemove ==
    ASSUME NEW f, NEW S, IsFiniteSet(S), \A x \in S : f[x] \in Int, NEW z \in S
    PROVE  SumOf(f, S) = f[z] + SumOf(f, S \ {z})
<1> DEFINE T == {U \in FiniteSubsetsOf(S) :
                    \E x \in U : SumOf(f, U) # f[x] + SumOf(f, U \ {x})}
<1>1. S \in FiniteSubsetsOf(S)
  BY FS_FiniteSubsetsOfFinite
<1>2. SUFFICES ASSUME T # {} PROVE FALSE
  BY <1>1
<1>3. PICK U : Least(U, T, S)
  <2>1. Family(T, S)
    BY <1>2 DEF Family
  <2> HIDE DEF T
  <2> QED
    BY <2>1, LeastFiniteSet
<1>least. /\ U \in T /\ U \subseteq S /\ IsFiniteSet(U)
       /\ \A V \in T : V \subseteq U => V = U
  <2> HIDE DEF T
  <2> QED
    BY <1>3 DEF Least
<1>4. PICK x \in U : SumOf(f, U) # f[x] + SumOf(f, U \ {x})
  BY <1>least
<1> DEFINE y == Some(U)
<1>5. y \in U
  BY <1>4, SomeIn
<1>6. SumOf(f, U) = f[y] + SumOf(f, U \ {y})
  BY <1>least, <1>4, SumSome
<1>7. x # y
  BY <1>4, <1>6
<1> HIDE DEF y
<1>8. ASSUME NEW u \in U, NEW v \in U \ {u}
      PROVE  SumOf(f, U \ {u}) = f[v] + SumOf(f, (U \ {u}) \ {v})
  BY <1>least, <1>8, SmallerFinite
<1>9. /\ SumOf(f, U \ {y}) = f[x] + SumOf(f, (U \ {y}) \ {x})
      /\ SumOf(f, U \ {x}) = f[y] + SumOf(f, (U \ {x}) \ {y})
  BY <1>5, <1>7, <1>8
<1>10. SumOf(f, (U \ {y}) \ {x}) = SumOf(f, (U \ {x}) \ {y})
  <2>1. (U \ {y}) \ {x} = (U \ {x}) \ {y}
    OBVIOUS
  <2> QED
    BY <2>1, Zenon
<1>11. f[x] \in Int /\ f[y] \in Int /\ SumOf(f, (U \ {x}) \ {y}) \in Int
  <2>1. IsFiniteSet((U \ {x}) \ {y})
    BY <1>least, FS_RemoveElement
  <2> QED
    BY <1>least, <1>5, <2>1, SumInt
<1> QED
  BY <1>4, <1>6, <1>9, <1>10, <1>11

\* A sum changes by what its terms change by.
LEMMA SumChanges ==
    ASSUME NEW D, IsFiniteSet(D), NEW E, E \subseteq D, NEW f, NEW g, NEW h,
           \A d \in D : f[d] \in Int, \A d \in E : h[d] \in Int,
           \A d \in D : g[d] = IF d \in E THEN f[d] + h[d] ELSE f[d]
    PROVE  SumOf(g, D) = SumOf(f, D) + SumOf(h, E)
<1> DEFINE T == {U \in FiniteSubsetsOf(D) : SumOf(g, U) # SumOf(f, U) + SumOf(h, U \cap E)}
<1>1. D \in FiniteSubsetsOf(D) /\ D \cap E = E
  BY FS_FiniteSubsetsOfFinite
<1>2. SUFFICES ASSUME T # {} PROVE FALSE
  BY <1>1
<1>3. PICK U : Least(U, T, D)
  <2>1. Family(T, D)
    BY <1>2 DEF Family
  <2> HIDE DEF T
  <2> QED
    BY <2>1, LeastFiniteSet
<1>least. /\ U \in T /\ U \subseteq D /\ IsFiniteSet(U)
       /\ \A V \in T : V \subseteq U => V = U
  <2> HIDE DEF T
  <2> QED
    BY <1>3 DEF Least
<1>4. IsFiniteSet(U \cap E) /\ \A d \in U : g[d] \in Int
  BY <1>least, FS_Subset
<1>5. U # {}
  <2>1. SUFFICES ASSUME U = {} PROVE FALSE
    OBVIOUS
  <2>2. U \cap E = {}
    BY <2>1
  <2>3. SumOf(g, U) = 0 /\ SumOf(f, U) = 0 /\ SumOf(h, U \cap E) = 0
    BY <1>least, <1>4, <2>1, <2>2, SumSome
  <2> QED
    BY <1>least, <2>3
<1>6. PICK x \in U : TRUE
  BY <1>5
<1>7. SumOf(g, U \ {x}) = SumOf(f, U \ {x}) + SumOf(h, (U \ {x}) \cap E)
  BY <1>least, SmallerFinite
<1>8. SumOf(g, U) = g[x] + SumOf(g, U \ {x}) /\ SumOf(f, U) = f[x] + SumOf(f, U \ {x})
  BY <1>least, <1>4, SumRemove
<1>9. IsFiniteSet(U \ {x}) /\ IsFiniteSet((U \ {x}) \cap E)
  BY <1>least, FS_RemoveElement, FS_Subset
<1>10. SumOf(f, U \ {x}) \in Int /\ SumOf(h, (U \ {x}) \cap E) \in Int /\ f[x] \in Int
  BY <1>least, <1>9, SumInt
<1>11. CASE x \in E
  <2>1. SumOf(h, U \cap E) = h[x] + SumOf(h, (U \cap E) \ {x})
    BY <1>4, <1>11, SumRemove
  <2>2. SumOf(h, (U \cap E) \ {x}) = SumOf(h, (U \ {x}) \cap E)
    <3>1. (U \cap E) \ {x} = (U \ {x}) \cap E
      OBVIOUS
    <3> QED
      BY <3>1, Zenon
  <2>3. g[x] = f[x] + h[x] /\ h[x] \in Int
    BY <1>least, <1>11
  <2>4. SumOf(g, U) = SumOf(f, U) + SumOf(h, U \cap E)
    BY <1>7, <1>8, <1>10, <2>1, <2>2, <2>3
  <2> QED
    BY <1>least, <2>4
<1>12. CASE x \notin E
  <2>1. SumOf(h, U \cap E) = SumOf(h, (U \ {x}) \cap E) /\ g[x] = f[x]
    <3>1. U \cap E = (U \ {x}) \cap E
      BY <1>12
    <3>2. g[x] = f[x]
      BY <1>least, <1>12
    <3> QED
      BY <3>1, <3>2, Zenon
  <2>2. SumOf(g, U) = SumOf(f, U) + SumOf(h, U \cap E)
    BY <1>7, <1>8, <1>10, <2>1
  <2> QED
    BY <1>least, <2>2
<1> QED
  BY <1>11, <1>12

LEMMA SumNat ==
    ASSUME NEW f, NEW S, IsFiniteSet(S), \A x \in S : f[x] \in Nat
    PROVE  SumOf(f, S) \in Nat
<1> DEFINE T == {U \in FiniteSubsetsOf(S) : SumOf(f, U) \notin Nat}
<1>1. S \in FiniteSubsetsOf(S)
  BY FS_FiniteSubsetsOfFinite
<1>2. SUFFICES ASSUME T # {} PROVE FALSE
  BY <1>1
<1>3. PICK U : Least(U, T, S)
  <2>1. Family(T, S)
    BY <1>2 DEF Family
  <2> HIDE DEF T
  <2> QED
    BY <2>1, LeastFiniteSet
<1>least. /\ U \in T /\ U \subseteq S /\ IsFiniteSet(U)
          /\ \A V \in T : V \subseteq U => V = U
  <2> HIDE DEF T
  <2> QED
    BY <1>3 DEF Least
<1>4. U # {} => Some(U) \in U /\ SumOf(f, U \ {Some(U)}) \in Nat
  BY <1>least, SmallerFinite, SomeIn
<1>5. SumOf(f, U) = IF U = {} THEN 0 ELSE f[Some(U)] + SumOf(f, U \ {Some(U)})
  BY <1>least, SumSome
<1>6. SumOf(f, U) \in Nat
  BY <1>least, <1>4, <1>5
<1> QED
  BY <1>least, <1>6
-----------------------------------------------------------------------------
(***************************************************************************)
(* The pages of HowLongToBeat.                                             *)
(***************************************************************************)
LEMMA FiniteIntMax ==
    ASSUME NEW S \in SUBSET Int, IsFiniteSet(S), S # {}
    PROVE  Max(S) \in S /\ \A e \in S : e <= Max(S)
<1> DEFINE f == [e \in S |-> e]
<1>1. f \in [S -> Int]
  OBVIOUS
<1>2. \E m \in S : \A e \in S : f[e] <= f[m]
  <2> HIDE DEF f
  <2> QED
    BY <1>1, FiniteMax
<1>3. \E m \in S : \A e \in S : m >= e
  BY <1>2
<1> QED
  BY <1>3 DEF Max

Entry0 == SearchEntries(Int, Int, Nat)

LEMMA LongestIs ==
    ASSUME NEW S \in SUBSET Entry0, IsFiniteSet(S), S # {}
    PROVE  Longest(S) \in S /\ \A e \in S : e.hours <= Longest(S).hours
<1> DEFINE f == [e \in S |-> e.hours]
<1>1. f \in [S -> Int]
  BY DEF Entry0, SearchEntries
<1>2. \E m \in S : \A e \in S : f[e] <= f[m]
  <2> HIDE DEF f
  <2> QED
    BY <1>1, FiniteMax
<1>3. \E m \in S : \A e \in S : e.hours <= m.hours
  BY <1>2
<1> QED
  BY <1>3 DEF Longest

LEMMA NearestIs ==
    ASSUME NEW S \in SUBSET Entry0, IsFiniteSet(S), S # {}
    PROVE  Nearest(S) \in S
<1> DEFINE f == [e \in S |-> e.sim]
<1>1. f \in [S -> Int]
  BY DEF Entry0, SearchEntries
<1>2. \E m \in S : \A e \in S : f[e] <= f[m]
  <2> HIDE DEF f
  <2> QED
    BY <1>1, FiniteMax
<1>3. \E m \in S : \A e \in S : e.sim <= m.sim
  BY <1>2
<1> QED
  BY <1>3 DEF Nearest

LEMMA CandidatesAre ==
    ASSUME NEW page, SearchPage(page), NEW cut
    PROVE  LET c == Candidates(page, cut)
           IN  IsFiniteSet(c) /\ c \subseteq Entry0 /\ \A e \in c : e.hours > 0
<1>1. Candidates(page, cut) \subseteq page
  BY DEF Candidates
<1>2. IsFiniteSet(Candidates(page, cut))
  BY <1>1, FS_Subset DEF SearchPage
<1> QED
  BY <1>1, <1>2 DEF Candidates, SearchPage, Entry0

\* The entry taken: a candidate, no DLC where a game qualifies, and no shorter
\* than a game of exactly the name.
LEMMA BestEntryIs ==
    ASSUME NEW c \in SUBSET Entry0, IsFiniteSet(c), c # {}
    PROVE  LET games == {e \in c : e.type # "dlc"}
               best == BestEntry(c)
           IN  /\ best \in c /\ best \in (IF games # {} THEN games ELSE c)
               /\ \A e \in games : e.name = "exact" => best.hours >= e.hours
<1> DEFINE games == {e \in c : e.type # "dlc"}
           usable == IF games # {} THEN games ELSE c
           exacts == {e \in usable : e.name = "exact"}
           editions == Editions(usable)
           best == BestEntry(c)
<1>1. /\ usable \subseteq c /\ usable # {} /\ exacts \subseteq usable /\ editions \subseteq usable
      /\ games # {} => usable = games
  BY DEF Editions
<1>2. IsFiniteSet(usable) /\ IsFiniteSet(exacts) /\ IsFiniteSet(editions)
  BY <1>1, FS_Subset
<1>3. best = IF Cardinality(usable) = 1 THEN CHOOSE e \in usable : TRUE
             ELSE IF exacts = {}
             THEN IF editions = {} THEN Nearest(usable) ELSE Longest(editions)
             ELSE IF editions # {} /\ EditionWins(Longest(exacts), Longest(editions))
             THEN Longest(editions)
             ELSE Longest(exacts)
  BY DEF BestEntry
<1>4. \A e \in games : e.name = "exact" => e \in exacts
  BY <1>1
<1>5. SUFFICES best \in usable /\ \A e \in exacts : best.hours >= e.hours
  BY <1>1, <1>4
<1>6. \A e \in usable : e.hours \in Int
  BY <1>1 DEF Entry0, SearchEntries
<1> HIDE DEF games, usable, exacts, editions, best
<1>7. exacts # {} => Longest(exacts) \in exacts /\ \A e \in exacts : e.hours <= Longest(exacts).hours
  BY <1>1, <1>2, LongestIs
<1>8. editions # {} => Longest(editions) \in editions
  BY <1>1, <1>2, LongestIs
<1>9. CASE Cardinality(usable) = 1
  <2>1. PICK x : usable = {x}
    BY <1>2, <1>9, FS_Singleton
  <2>2. best = x
    BY <1>3, <1>9, <2>1
  <2> QED
    BY <1>1, <1>6, <2>1, <2>2
<1>10. CASE Cardinality(usable) # 1 /\ exacts = {}
  <2>1. Nearest(usable) \in usable
    BY <1>1, <1>2, NearestIs
  <2> QED
    BY <1>1, <1>3, <1>8, <1>10, <2>1
<1>11. CASE Cardinality(usable) # 1 /\ exacts # {}
  <2>1. CASE editions # {} /\ EditionWins(Longest(exacts), Longest(editions))
    <3>1. best = Longest(editions) /\ Longest(editions).hours > Longest(exacts).hours
      BY <1>3, <1>11, <2>1 DEF EditionWins
    <3> QED
      BY <1>1, <1>6, <1>7, <1>8, <1>11, <2>1, <3>1
  <2>2. CASE ~(editions # {} /\ EditionWins(Longest(exacts), Longest(editions)))
    <3>1. best = Longest(exacts)
      BY <1>3, <1>11, <2>2
    <3> QED
      BY <1>1, <1>6, <1>7, <1>11, <3>1
  <2> QED
    BY <2>1, <2>2
<1> QED
  BY <1>9, <1>10, <1>11

LEMMA BaseHoursType ==
    ASSUME NEW slow \in SUBSET Nat, IsFiniteSet(slow),
           NEW average \in SUBSET Nat, IsFiniteSet(average)
    PROVE  BaseHours(slow, average) \in {NoHours} \cup (Nat \ {0})
<1>1. ASSUME NEW S \in SUBSET Nat, IsFiniteSet(S) PROVE Max(S \cup {0}) \in Nat
  <2>1. IsFiniteSet(S \cup {0}) /\ S \cup {0} # {} /\ S \cup {0} \in SUBSET Int
    BY <1>1, FS_AddElement
  <2>2. Max(S \cup {0}) \in S \cup {0}
    BY <2>1, FiniteIntMax
  <2>3. S \cup {0} \subseteq Nat
    BY <1>1
  <2> DEFINE m == Max(S \cup {0})
  <2> HIDE DEF m
  <2>4. m \in S \cup {0}
    BY <2>2 DEF m
  <2>5. m \in Nat
    BY <2>3, <2>4
  <2> QED
    BY <2>5 DEF m
<1>2. Max(slow \cup {0}) \in Nat /\ Max(average \cup {0}) \in Nat
  BY <1>1
<1> QED
  BY <1>2 DEF BaseHours, NoHours

\* What a page and the pages of its DLCs are worth: each DLC is in it once.
DlcHours(page, own) ==
    [d \in DOMAIN page.dlcs |->
        IF d \in DOMAIN own /\ own[d] > 0 THEN own[d] ELSE page.dlcs[d]]

LEMMA LeisureIs ==
    ASSUME NEW page \in DetailPages, NEW own \in OwnHours
    PROVE  LET base == BaseHours(page.slow, page.average)
           IN  /\ base \in {NoHours} \cup (Nat \ {0})
               /\ base > 0 => /\ Leisure(page, own) = base + SumFunction(DlcHours(page, own))
                              /\ Leisure(page, own) \in Nat \ {0}
               /\ ~(base > 0) => Leisure(page, own) = NoHours
<1> DEFINE base == BaseHours(page.slow, page.average)
           D == DOMAIN page.dlcs
           E == {e \in D : e \in DOMAIN own /\ own[e] > 0}
           g == DlcHours(page, own)
           h == [d \in E |-> own[d] - page.dlcs[d]]
           f == page.dlcs
<1>1. /\ page.slow \subseteq Nat /\ IsFiniteSet(page.slow)
      /\ page.average \subseteq Nat /\ IsFiniteSet(page.average)
      /\ IsFiniteSet(D) /\ \A d \in D : f[d] \in Nat
      /\ \A d \in DOMAIN own : own[d] \in Int
  BY HltbPagesAssumption DEF HltbPagesAssumption
<1>2. base \in {NoHours} \cup (Nat \ {0})
  BY <1>1, BaseHoursType
<1>3. /\ DOMAIN g = D /\ DOMAIN h = E /\ E \subseteq D
      /\ \A d \in E : h[d] \in Int
      /\ \A d \in D : g[d] = IF d \in E THEN f[d] + h[d] ELSE f[d]
  BY <1>1 DEF DlcHours
<1>4. \A d \in D : g[d] \in Nat
  BY <1>1 DEF DlcHours
<1>5. Overridden(base + Listed(page), page, own) = base + SumFunction(f) + SumFunction(h)
  BY DEF Overridden, Listed
<1> HIDE DEF g, h, f, E
<1>6. SumFunction(f) = SumOf(f, D) /\ SumFunction(h) = SumOf(h, E) /\ SumFunction(g) = SumOf(g, D)
  <2>1. SumFunction(f) = SumOf(f, DOMAIN f) /\ DOMAIN f = D
    BY SumIsAdder DEF SumOf, f
  <2>2. SumFunction(h) = SumOf(h, DOMAIN h) /\ SumFunction(g) = SumOf(g, DOMAIN g)
    BY SumIsAdder DEF SumOf
  <2> QED
    BY <1>3, <2>1, <2>2
<1> HIDE DEF D
<1>7. SumOf(g, D) = SumOf(f, D) + SumOf(h, E)
  BY <1>1, <1>3, SumChanges
<1>8. SumOf(g, D) \in Nat /\ SumOf(f, D) \in Nat /\ SumOf(h, E) \in Int
  <2>1. IsFiniteSet(E)
    BY <1>1, <1>3, FS_Subset
  <2> QED
    BY <1>1, <1>3, <1>4, <2>1, SumNat, SumInt
<1>9. Leisure(page, own) = IF base > 0 THEN Overridden(base + Listed(page), page, own) ELSE NoHours
  BY DEF Leisure
<1> HIDE DEF base
<1>10. base > 0 => base \in Nat \ {0}
  BY <1>2 DEF NoHours
<1>11. base > 0 => /\ Leisure(page, own) = base + SumFunction(g)
                   /\ Leisure(page, own) \in Nat \ {0}
  BY <1>5, <1>6, <1>7, <1>8, <1>9, <1>10
<1> QED
  BY <1>2, <1>9, <1>11 DEF base, g
-----------------------------------------------------------------------------
(***************************************************************************)
(* One lookup.                                                             *)
(***************************************************************************)
\* The entry taken is the best candidate of the query that had one, and its
\* hours stand until a page is visited.
TakenIsBest ==
    /\ lookup.cands \subseteq Entry0 /\ IsFiniteSet(lookup.cands)
    /\ lookup.cands # {} => lookup.taken = BestEntry(lookup.cands)
    /\ lookup.pc = "search" => lookup.cands = {}
    /\ lookup.pc # "over" => lookup.visited = NoEntry
    /\ lookup.pc = "page" => lookup.hours = lookup.taken.hours

LookupInv ==
    /\ LookupTypeOK /\ TakenIsBest /\ CountsDlcOnce
    /\ lookup = [pc |-> lookup.pc, queries |-> lookup.queries, cands |-> lookup.cands,
                 taken |-> lookup.taken, visited |-> lookup.visited, hours |-> lookup.hours]

LEMMA LookupInitInv == LookupInit => LookupInv
<1> SUFFICES ASSUME LookupInit PROVE LookupInv
  OBVIOUS
<1>1. PICK variants \in VariantLists :
        lookup = [pc |-> "search", queries |-> variants, cands |-> {}, taken |-> NoEntry,
                  visited |-> NoEntry, hours |-> NoHours]
  BY DEF LookupInit
<1>2. variants \in Seq(BOOLEAN) \ {<<>>}
  <2>1. PICK n \in 1..MaxVariants : variants \in [1..n -> BOOLEAN]
    BY DEF VariantLists
  <2>2. n \in Nat /\ n > 0
    BY <2>1
  <2> QED
    BY <2>1, <2>2
<1>3. IsFiniteSet({})
  BY FS_EmptySet
<1> QED
  BY <1>1, <1>2, <1>3 DEF LookupInv, LookupTypeOK, TakenIsBest, CountsDlcOnce

LEMMA LookupQuery == LookupInv /\ Query => LookupInv'
<1> SUFFICES ASSUME LookupInv, Query PROVE LookupInv'
  OBVIOUS
<1>1. PICK page \in SearchPages \cup {{}} :
        LET cands == Candidates(page, Head(lookup.queries))
            best == BestEntry(cands)
        IN  lookup' =
              IF cands # {}
              THEN [lookup EXCEPT !.cands = cands, !.taken = best, !.hours = best.hours,
                                  !.pc = IF best.gid > 0 THEN "page" ELSE "over"]
              ELSE IF Len(lookup.queries) = 1 THEN [lookup EXCEPT !.pc = "over"]
              ELSE [lookup EXCEPT !.queries = Tail(@)]
  BY DEF Query
<1>2. SearchPage(page)
  BY HltbLookupAssumption, FS_EmptySet DEF HltbLookupAssumption, SearchPage
<1> DEFINE cands == Candidates(page, Head(lookup.queries))
           best == BestEntry(cands)
<1>3. IsFiniteSet(cands) /\ cands \subseteq Entry0 /\ \A e \in cands : e.hours > 0
  BY <1>2, CandidatesAre
<1>4. lookup.pc = "search" /\ lookup.cands = {} /\ lookup.visited = NoEntry
  BY DEF Query, LookupInv, TakenIsBest
<1>5. /\ lookup.queries \in Seq(BOOLEAN) \ {<<>>} /\ lookup.hours \in {NoHours} \cup (Nat \ {0})
      /\ lookup = [pc |-> lookup.pc, queries |-> lookup.queries, cands |-> lookup.cands,
                 taken |-> lookup.taken, visited |-> lookup.visited, hours |-> lookup.hours]
  BY DEF LookupInv, LookupTypeOK
<1>6. lookup' =
        IF cands # {}
        THEN [lookup EXCEPT !.cands = cands, !.taken = best, !.hours = best.hours,
                            !.pc = IF best.gid > 0 THEN "page" ELSE "over"]
        ELSE IF Len(lookup.queries) = 1 THEN [lookup EXCEPT !.pc = "over"]
        ELSE [lookup EXCEPT !.queries = Tail(@)]
  BY <1>1
<1> HIDE DEF cands, best
<1>7. CASE cands # {}
  <2>1. best.hours \in Nat \ {0}
    <3>1. best \in cands
      BY <1>3, <1>7, BestEntryIs DEF best
    <3>2. best.hours \in Int /\ best.hours > 0
      BY <1>3, <3>1 DEF Entry0, SearchEntries
    <3> QED
      BY <3>2
  <2>2. lookup' = [pc |-> IF best.gid > 0 THEN "page" ELSE "over", queries |-> lookup.queries,
                   cands |-> cands, taken |-> best, visited |-> NoEntry, hours |-> best.hours]
    BY <1>4, <1>5, <1>6, <1>7
  <2> QED
    BY <1>3, <1>5, <1>7, <2>1, <2>2 DEF LookupInv, LookupTypeOK, TakenIsBest, CountsDlcOnce, best
<1>8. CASE cands = {} /\ Len(lookup.queries) = 1
  <2>1. lookup' = [pc |-> "over", queries |-> lookup.queries, cands |-> {},
                   taken |-> lookup.taken, visited |-> NoEntry, hours |-> lookup.hours]
    BY <1>4, <1>5, <1>6, <1>8
  <2> QED
    BY <1>5, <2>1, FS_EmptySet DEF LookupInv, LookupTypeOK, TakenIsBest, CountsDlcOnce
<1>9. CASE cands = {} /\ Len(lookup.queries) # 1
  <2>1. lookup' = [pc |-> "search", queries |-> Tail(lookup.queries), cands |-> {},
                   taken |-> lookup.taken, visited |-> NoEntry, hours |-> lookup.hours]
    BY <1>4, <1>5, <1>6, <1>9
  <2>2. Tail(lookup.queries) \in Seq(BOOLEAN) \ {<<>>}
    <3> DEFINE q == lookup.queries
    <3>1. q \in Seq(BOOLEAN) /\ q # <<>> /\ Len(q) # 1
      BY <1>5, <1>9
    <3> HIDE DEF q
    <3>2. Len(q) > 1
      BY <3>1
    <3>3. Tail(q) \in Seq(BOOLEAN) /\ Len(Tail(q)) > 0
      BY <3>1, <3>2
    <3>4. Tail(q) # <<>>
      <4> DEFINE t == Tail(q)
      <4>1. Len(t) > 0
        BY <3>3
      <4> HIDE DEF t
      <4>2. t # <<>>
        BY <4>1
      <4> QED
        BY <4>2 DEF t
    <3> QED
      BY <3>3, <3>4 DEF q
  <2> QED
    BY <1>5, <2>1, <2>2, FS_EmptySet DEF LookupInv, LookupTypeOK, TakenIsBest, CountsDlcOnce
<1> QED
  BY <1>7, <1>8, <1>9

LEMMA LookupVisit == LookupInv /\ Visit => LookupInv'
<1> SUFFICES ASSUME LookupInv, Visit PROVE LookupInv'
  OBVIOUS
<1>1. /\ lookup.pc = "page" /\ lookup.hours = lookup.taken.hours /\ lookup.visited = NoEntry
      /\ lookup.cands \subseteq Entry0 /\ IsFiniteSet(lookup.cands)
      /\ lookup.cands # {} => lookup.taken = BestEntry(lookup.cands)
      /\ lookup.queries \in Seq(BOOLEAN) \ {<<>>} /\ lookup.hours \in {NoHours} \cup (Nat \ {0})
      /\ lookup = [pc |-> lookup.pc, queries |-> lookup.queries, cands |-> lookup.cands,
                 taken |-> lookup.taken, visited |-> lookup.visited, hours |-> lookup.hours]
  BY DEF Visit, LookupInv, TakenIsBest, LookupTypeOK
<1>2. CASE lookup' = [lookup EXCEPT !.pc = "over"]
  <2>1. lookup' = [pc |-> "over", queries |-> lookup.queries, cands |-> lookup.cands,
                   taken |-> lookup.taken, visited |-> NoEntry, hours |-> lookup.hours]
    BY <1>1, <1>2
  <2> QED
    BY <1>1, <2>1 DEF LookupInv, LookupTypeOK, TakenIsBest, CountsDlcOnce
<1>3. ASSUME NEW page \in DetailPages, NEW own \in OwnHours,
             LET hours == Detail(page, own).hours
             IN  lookup' = [lookup EXCEPT !.pc = "over", !.cands = {},
                                          !.visited = [page |-> page, own |-> own],
                                          !.hours = IF hours > 0 THEN hours ELSE @]
      PROVE  LookupInv'
  <2> DEFINE base == BaseHours(page.slow, page.average)
             leisure == Leisure(page, own)
             last == IF leisure > 0 THEN leisure ELSE lookup.hours
  <2>1. lookup' = [pc |-> "over", queries |-> lookup.queries, cands |-> {},
                   taken |-> lookup.taken, visited |-> [page |-> page, own |-> own],
                   hours |-> last]
    BY <1>1, <1>3 DEF Detail
  <2>2. /\ base \in {NoHours} \cup (Nat \ {0})
        /\ base > 0 => leisure = base + SumFunction(DlcHours(page, own)) /\ leisure \in Nat \ {0}
        /\ ~(base > 0) => leisure = NoHours
    BY LeisureIs
  <2>3. last = IF base > 0 THEN base + SumFunction(DlcHours(page, own)) ELSE lookup.taken.hours
    BY <1>1, <2>2 DEF NoHours
  <2>4. last \in {NoHours} \cup (Nat \ {0})
    BY <1>1, <2>2 DEF NoHours
  <2> HIDE DEF base, leisure, last
  <2>5. CountsDlcOnce'
    BY <2>1, <2>3 DEF CountsDlcOnce, DlcHours, base
  <2> QED
    BY <1>1, <2>1, <2>4, <2>5, FS_EmptySet DEF LookupInv, LookupTypeOK, TakenIsBest
<1> QED
  BY <1>2, <1>3 DEF Visit

LEMMA LookupStepInv == LookupInv /\ [LookupNext]_lookup => LookupInv'
<1> SUFFICES ASSUME LookupInv, [LookupNext]_lookup PROVE LookupInv'
  OBVIOUS
<1>1. CASE UNCHANGED lookup
  BY <1>1 DEF LookupInv, LookupTypeOK, TakenIsBest, CountsDlcOnce
<1> QED
  BY <1>1, LookupQuery, LookupVisit DEF LookupNext

LEMMA LookupInvWhole == LookupInv => EstimateIsWhole
<1> SUFFICES ASSUME LookupInv PROVE TakesTheWholeGame
  BY DEF LookupInv, EstimateIsWhole
<1>1. /\ lookup.cands \in SUBSET Entry0 /\ IsFiniteSet(lookup.cands)
      /\ lookup.cands # {} => lookup.taken = BestEntry(lookup.cands)
  BY DEF LookupInv, TakenIsBest
<1> QED
  BY <1>1, BestEntryIs DEF TakesTheWholeGame

\* The hours of a lookup are the whole game's, whatever pages the searches and
\* the games have.
THEOREM WholeGame == LookupSpec => []EstimateIsWhole
  BY LookupInvWhole, LookupInitInv, LookupStepInv, PTL DEF LookupSpec
-----------------------------------------------------------------------------
(***************************************************************************)
(* The cache.  A table holds values of some of the games.                  *)
(***************************************************************************)
Table(S) == UNION {[apps -> S] : apps \in SUBSET App}
Dicts == [hours : Table(Int), polls : Table(Nat), count : Table(Nat),
          detail : Table(Int), gid : Table(Nat)]
Fetches ==
    [kind : Kind,
     pc : {"dead", "over", "load", "auth", "search", "pages", "finish", "restore"},
     asked : SUBSET App, todo : SUBSET App, found : SUBSET App, done : Nat,
     mem : Dicts, prior : Table(Int), before : Table(Entry)]

LEMMA TableIs ==
    ASSUME NEW V, NEW f
    PROVE  f \in Table(V) <=> DOMAIN f \subseteq App /\ f \in [DOMAIN f -> V]
BY DEF Table

LEMMA EmptyIs == DOMAIN Empty = {} /\ \A V : Empty \in Table(V)
BY DEF Empty, Table

LEMMA WithIs ==
    ASSUME NEW V, NEW f \in Table(V), NEW a \in App, NEW v \in V
    PROVE  /\ With(f, a, v) \in Table(V) /\ DOMAIN With(f, a, v) = DOMAIN f \cup {a}
           /\ With(f, a, v)[a] = v
           /\ \A b \in DOMAIN f \ {a} : With(f, a, v)[b] = f[b]
<1>1. DOMAIN f \subseteq App /\ f \in [DOMAIN f -> V]
  BY TableIs
<1>2. DOMAIN With(f, a, v) = DOMAIN f \cup {a}
  BY DEF With
<1>3. \A b \in DOMAIN f \cup {a} : With(f, a, v)[b] = IF b = a THEN v ELSE f[b]
  BY DEF With
<1>4. With(f, a, v) \in [DOMAIN f \cup {a} -> V]
  BY <1>1 DEF With
<1> QED
  BY <1>1, <1>2, <1>3, <1>4, TableIs

LEMMA WithoutIs ==
    ASSUME NEW V, NEW f \in Table(V), NEW S
    PROVE  /\ Without(f, S) \in Table(V) /\ DOMAIN Without(f, S) = DOMAIN f \ S
           /\ \A b \in DOMAIN f \ S : Without(f, S)[b] = f[b]
<1>1. DOMAIN f \subseteq App /\ f \in [DOMAIN f -> V]
  BY TableIs
<1>2. Without(f, S) \in [DOMAIN f \ S -> V] /\ DOMAIN Without(f, S) = DOMAIN f \ S
  BY <1>1 DEF Without
<1> QED
  BY <1>1, <1>2, TableIs DEF Without

LEMMA RestoredIs ==
    ASSUME NEW f \in Table(Int), NEW prior \in Table(Int)
    PROVE  /\ Restored(f, prior) \in Table(Int)
           /\ \A a \in App \ DOMAIN prior :
                 /\ a \in DOMAIN Restored(f, prior) <=> a \in DOMAIN f
                 /\ a \in DOMAIN f => Restored(f, prior)[a] = f[a]
           /\ \A a \in DOMAIN prior :
                 prior[a] > 0 => a \in DOMAIN Restored(f, prior) /\ Restored(f, prior)[a] > 0
<1> DEFINE back == {a \in DOMAIN prior : prior[a] > 0 /\ Get(f, a, NoHours) <= 0}
           r == Restored(f, prior)
<1>1. /\ DOMAIN f \subseteq App /\ \A a \in DOMAIN f : f[a] \in Int
      /\ DOMAIN prior \subseteq App /\ \A a \in DOMAIN prior : prior[a] \in Int
  BY TableIs
<1>2. r = [a \in DOMAIN f \cup back |-> IF a \in back THEN prior[a] ELSE f[a]]
  BY DEF Restored
<1>3. r \in Table(Int)
  <2>1. r \in [DOMAIN f \cup back -> Int]
    BY <1>1, <1>2
  <2> QED
    BY <1>1, <1>2, <2>1, TableIs
<1>4. ASSUME NEW a \in DOMAIN prior, prior[a] > 0 PROVE a \in DOMAIN r /\ r[a] > 0
  <2>1. CASE a \in back
    BY <1>2, <1>4, <2>1
  <2>2. CASE a \notin back
    <3>1. ~(Get(f, a, NoHours) <= 0)
      BY <1>4, <2>2
    <3>2. a \in DOMAIN f /\ f[a] > 0
      BY <1>1, <3>1 DEF Get, NoHours
    <3> QED
      BY <1>2, <2>2, <3>2
  <2> QED
    BY <2>1, <2>2
<1> QED
  BY <1>2, <1>3, <1>4

LEMMA ColumnIs ==
    ASSUME stored \in Table(Entry)
    PROVE  /\ \A field : DOMAIN Column(field) = DOMAIN stored
           /\ \A a \in DOMAIN stored :
                 /\ Column("hours")[a] = stored[a].hours /\ Column("polls")[a] = stored[a].polls
                 /\ Column("count")[a] = stored[a].count /\ Column("gid")[a] = stored[a].gid
                 /\ Column("detail")[a] = stored[a].detail
           /\ Column("hours") \in Table(Int) /\ Column("detail") \in Table(Int)
           /\ Column("polls") \in Table(Nat) /\ Column("count") \in Table(Nat)
           /\ Column("gid") \in Table(Nat)
<1>1. DOMAIN stored \subseteq App /\ \A a \in DOMAIN stored : stored[a] \in Entry
  BY TableIs
<1>2. \A field : DOMAIN Column(field) = DOMAIN stored
  BY DEF Column
<1>3. /\ Column("hours") \in [DOMAIN stored -> Int] /\ Column("detail") \in [DOMAIN stored -> Int]
      /\ Column("polls") \in [DOMAIN stored -> Nat] /\ Column("count") \in [DOMAIN stored -> Nat]
      /\ Column("gid") \in [DOMAIN stored -> Nat]
  BY <1>1 DEF Column, Entry
<1>4. /\ Column("hours") \in Table(Int) /\ Column("detail") \in Table(Int)
      /\ Column("polls") \in Table(Nat) /\ Column("count") \in Table(Nat)
      /\ Column("gid") \in Table(Nat)
  BY <1>1, <1>2, <1>3, TableIs
<1> QED
  BY <1>2, <1>4 DEF Column

LEMMA GetIs ==
    ASSUME NEW V, NEW f \in Table(V), NEW v \in V, NEW a PROVE Get(f, a, v) \in V
BY TableIs DEF Get

(***************************************************************************)
(* What a save writes.                                                     *)
(***************************************************************************)
\* The dicts m say of the games not in S what the file says.
Agrees(m, S, file) ==
    \A a \in App \ S :
       /\ a \in DOMAIN m.hours <=> a \in DOMAIN file
       /\ a \in DOMAIN file =>
             /\ m.hours[a] = file[a].hours /\ Get(m.polls, a, 0) = file[a].polls
             /\ DOMAIN m.detail # {} => a \in DOMAIN m.detail /\ m.detail[a] = file[a].detail

\* Two files say the same of the games not in S.
SameBut(S, file, next) ==
    \A a \in App \ S :
       /\ a \in DOMAIN next <=> a \in DOMAIN file
       /\ a \in DOMAIN file =>
             /\ next[a].hours = file[a].hours /\ next[a].polls = file[a].polls
             /\ next[a].detail = file[a].detail

LEMMA SavedIs ==
    ASSUME stored \in Table(Entry), NEW m \in Dicts
    PROVE  /\ Saved(m) \in Table(Entry) /\ DOMAIN Saved(m) = DOMAIN m.hours
           /\ \A a \in DOMAIN m.hours : Saved(m)[a].hours = m.hours[a]
           /\ \A S : Agrees(m, S, stored) => SameBut(S, stored, Saved(m))
<1>1. /\ m.hours \in Table(Int) /\ m.polls \in Table(Nat) /\ m.count \in Table(Nat)
      /\ m.detail \in Table(Int) /\ m.gid \in Table(Nat)
  BY DEF Dicts
<1>2. DOMAIN m.hours \subseteq App /\ \A a \in DOMAIN m.hours : m.hours[a] \in Int
  BY <1>1, TableIs
<1>3. OrStored(m.detail, "detail") \in Table(Int) /\ OrStored(m.gid, "gid") \in Table(Nat)
  BY <1>1, ColumnIs DEF OrStored
<1>4. \A a : /\ Get(m.polls, a, 0) \in Nat /\ Get(m.count, a, 0) \in Nat
             /\ Get(OrStored(m.detail, "detail"), a, NoHours) \in Int
             /\ Get(OrStored(m.gid, "gid"), a, 0) \in Nat
  BY <1>1, <1>3, GetIs DEF NoHours
<1>5. DOMAIN Saved(m) = DOMAIN m.hours
  BY DEF Saved
<1>6. \A a \in DOMAIN m.hours :
         Saved(m)[a] = [hours  |-> m.hours[a],
                        polls  |-> Get(m.polls, a, 0),
                        count  |-> Get(m.count, a, 0),
                        detail |-> Get(OrStored(m.detail, "detail"), a, NoHours),
                        gid    |-> Get(OrStored(m.gid, "gid"), a, 0)]
  BY DEF Saved
<1>7. ASSUME NEW a \in DOMAIN m.hours
      PROVE  /\ Saved(m)[a] \in Entry
             /\ Saved(m)[a].hours = m.hours[a] /\ Saved(m)[a].polls = Get(m.polls, a, 0)
             /\ Saved(m)[a].detail = Get(OrStored(m.detail, "detail"), a, NoHours)
  <2> DEFINE h == m.hours[a]  p == Get(m.polls, a, 0)  c == Get(m.count, a, 0)
             d == Get(OrStored(m.detail, "detail"), a, NoHours)
             g == Get(OrStored(m.gid, "gid"), a, 0)
  <2>1. Saved(m)[a] = [hours |-> h, polls |-> p, count |-> c, detail |-> d, gid |-> g]
    BY <1>6
  <2>2. h \in Int /\ p \in Nat /\ c \in Nat /\ d \in Int /\ g \in Nat
    BY <1>2, <1>4
  <2> HIDE DEF h, p, c, d, g
  <2>3. /\ Saved(m)[a] \in Entry
        /\ Saved(m)[a].hours = h /\ Saved(m)[a].polls = p /\ Saved(m)[a].detail = d
    BY <2>1, <2>2 DEF Entry
  <2> QED
    BY <2>3 DEF h, p, d
<1>8. Saved(m) \in Table(Entry)
  <2>1. Saved(m) = [a \in DOMAIN m.hours |-> Saved(m)[a]]
    BY DEF Saved
  <2>2. Saved(m) \in [DOMAIN m.hours -> Entry]
    BY <1>7, <2>1
  <2> QED
    BY <1>2, <1>5, <2>2, TableIs
<1>9. ASSUME NEW S, Agrees(m, S, stored) PROVE SameBut(S, stored, Saved(m))
  <2> SUFFICES ASSUME NEW a \in App \ S
               PROVE  /\ a \in DOMAIN Saved(m) <=> a \in DOMAIN stored
                      /\ a \in DOMAIN stored =>
                            /\ Saved(m)[a].hours = stored[a].hours
                            /\ Saved(m)[a].polls = stored[a].polls
                            /\ Saved(m)[a].detail = stored[a].detail
    BY DEF SameBut
  <2>1. /\ a \in DOMAIN m.hours <=> a \in DOMAIN stored
        /\ a \in DOMAIN stored =>
             /\ m.hours[a] = stored[a].hours /\ Get(m.polls, a, 0) = stored[a].polls
             /\ DOMAIN m.detail # {} => a \in DOMAIN m.detail /\ m.detail[a] = stored[a].detail
    BY <1>9 DEF Agrees
  <2>2. a \in DOMAIN stored => Get(OrStored(m.detail, "detail"), a, NoHours) = stored[a].detail
    <3>1. CASE DOMAIN m.detail = {}
      BY <3>1, ColumnIs DEF OrStored, Get
    <3>2. CASE DOMAIN m.detail # {}
      BY <2>1, <3>2 DEF OrStored, Get
    <3> QED
      BY <3>1, <3>2
  <2>3. a \in DOMAIN m.hours =>
           /\ Saved(m)[a].hours = m.hours[a] /\ Saved(m)[a].polls = Get(m.polls, a, 0)
           /\ Saved(m)[a].detail = Get(OrStored(m.detail, "detail"), a, NoHours)
    BY <1>7
  <2> QED
    BY <1>5, <2>1, <2>2, <2>3
<1> QED
  BY <1>5, <1>7, <1>8, <1>9

LEMMA AgreesStill ==
    ASSUME NEW m, NEW S, NEW file, NEW next, Agrees(m, S, file), SameBut(S, file, next)
    PROVE  Agrees(m, S, next)
BY DEF Agrees, SameBut

(***************************************************************************)
(* What an answer puts into the dicts.                                     *)
(***************************************************************************)
IsAnswer(hit) == hit.hours \in Int /\ hit.polls \in Nat /\ hit.count \in Nat /\ hit.gid \in Nat
PageAnswer(page) == page.hours \in Int /\ page.count \in Nat /\ page.detail \in Int

LEMMA HitsAre == \A hit \in Hits : IsAnswer(hit)
<1> SUFFICES ASSUME NEW replies \in Replies PROVE IsAnswer(Found(replies))
  BY DEF Hits
<1> DEFINE hits == {i \in DOMAIN replies : Candidates(replies[i].page, replies[i].cut) # {}}
<1>1. hits \subseteq Nat /\ \A i \in DOMAIN replies : SearchPage(replies[i].page)
  BY HltbCacheAssumption DEF HltbCacheAssumption
<1>2. CASE hits = {}
  BY <1>2 DEF Found, Miss, NoHours, IsAnswer
<1>3. CASE hits # {}
  <2>1. Min(hits) \in hits
    <3> HIDE DEF hits
    <3>1. PICK n \in hits : \A m \in hits : ~(<<m, n>> \in OpToRel(<, Nat))
      BY <1>1, <1>3, NatLessThanWellFounded, WFMin
    <3>2. ASSUME NEW m \in hits PROVE n <= m
      <4>1. m \in Nat /\ n \in Nat /\ ~(<<m, n>> \in {ss \in Nat \X Nat : ss[1] < ss[2]})
        BY <1>1, <3>1 DEF OpToRel
      <4> QED
        BY <4>1
    <3> QED
      BY <3>2 DEF Min
  <2> DEFINE r == replies[Min(hits)]
             c == Candidates(r.page, r.cut)
             e == BestEntry(c)
  <2>2. IsFiniteSet(c) /\ c \subseteq Entry0 /\ c # {} /\ \A x \in c : x.hours > 0
    BY <1>1, <2>1, CandidatesAre
  <2>3. Found(replies) = [hours |-> e.hours, polls |-> e.polls, count |-> e.count, gid |-> e.gid]
    BY <1>3 DEF Found
  <2> HIDE DEF c, e
  <2>4. e \in Entry0
    <3>1. e \in c
      BY <2>2, BestEntryIs DEF e
    <3> QED
      BY <2>2, <3>1
  <2> QED
    BY <2>3, <2>4 DEF Entry0, SearchEntries, IsAnswer
<1> QED
  BY <1>2, <1>3

LEMMA PagesAre == \A page \in Pages : PageAnswer(page)
<1>1. PageAnswer(NoPage)
  BY DEF NoPage, NoHours, PageAnswer
<1>2. ASSUME NEW page \in DetailPages, NEW own \in OwnHours PROVE PageAnswer(Detail(page, own))
  <2>1. Leisure(page, own) \in Int
    BY LeisureIs DEF NoHours
  <2>2. /\ page.count \in Nat /\ page.hundred \in Nat /\ IsFiniteSet(DOMAIN page.dlcs)
        /\ \A d \in DOMAIN page.dlcs : page.dlcs[d] \in Nat
    BY HltbPagesAssumption DEF HltbPagesAssumption
  <2>3. Listed(page) \in Nat
    <3>1. SumFunction(page.dlcs) = SumOf(page.dlcs, DOMAIN page.dlcs)
      BY SumIsAdder DEF SumOf
    <3>2. SumOf(page.dlcs, DOMAIN page.dlcs) \in Nat
      BY <2>2, SumNat
    <3> QED
      BY <3>1, <3>2 DEF Listed
  <2>4. Rush(page) \in Int
    BY <2>2, <2>3 DEF Rush, NoHours
  <2> QED
    BY <2>1, <2>2, <2>4 DEF Detail, PageAnswer
<1> QED
  BY <1>1, <1>2 DEF Pages

\* The detail of the games not in S was loaded.
DetailLoaded(m, S, file) ==
    \A a \in App \ S :
       a \in DOMAIN file => a \in DOMAIN m.detail /\ m.detail[a] = file[a].detail

LEMMA WithSame ==
    ASSUME NEW f, NEW a, NEW v, NEW w, w = With(f, a, v)
    PROVE  \A b \in App \ {a} :
              /\ b \in DOMAIN w <=> b \in DOMAIN f
              /\ b \in DOMAIN f => w[b] = f[b]
<1>1. w = [b \in DOMAIN f \cup {a} |-> IF b = a THEN v ELSE f[b]]
  BY DEF With
<1> QED
  BY <1>1

LEMMA NotedIs ==
    ASSUME NEW m \in Dicts, NEW S \in SUBSET App, NEW a \in S, NEW hit, IsAnswer(hit)
    PROVE  /\ Noted(m, a, hit) \in Dicts
           /\ Noted(m, a, hit).hours = With(m.hours, a, hit.hours)
           /\ \A file : Agrees(m, S, file) => Agrees(Noted(m, a, hit), S, file)
           /\ \A file : DetailLoaded(m, S, file) => DetailLoaded(Noted(m, a, hit), S, file)
<1> DEFINE hours == With(m.hours, a, hit.hours)
           polls == With(m.polls, a, hit.polls)
           count == With(m.count, a, hit.count)
           gid == IF hit.gid > 0 THEN With(m.gid, a, hit.gid) ELSE m.gid
           n == Noted(m, a, hit)
<1>1. /\ m.hours \in Table(Int) /\ m.polls \in Table(Nat) /\ m.count \in Table(Nat)
      /\ m.detail \in Table(Int) /\ m.gid \in Table(Nat) /\ a \in App
  BY DEF Dicts
<1>2. /\ hours \in Table(Int) /\ polls \in Table(Nat) /\ count \in Table(Nat) /\ gid \in Table(Nat)
      /\ \A b \in App \ {a} : /\ b \in DOMAIN hours <=> b \in DOMAIN m.hours
                              /\ b \in DOMAIN m.hours => hours[b] = m.hours[b]
                              /\ b \in DOMAIN polls <=> b \in DOMAIN m.polls
                              /\ b \in DOMAIN m.polls => polls[b] = m.polls[b]
  <2>1. \A b \in App \ {a} : /\ b \in DOMAIN hours <=> b \in DOMAIN m.hours
                             /\ b \in DOMAIN m.hours => hours[b] = m.hours[b]
    BY WithSame
  <2>2. \A b \in App \ {a} : /\ b \in DOMAIN polls <=> b \in DOMAIN m.polls
                             /\ b \in DOMAIN m.polls => polls[b] = m.polls[b]
    BY WithSame
  <2>3. /\ hours \in Table(Int) /\ polls \in Table(Nat)
        /\ count \in Table(Nat) /\ gid \in Table(Nat)
    BY <1>1, WithIs DEF IsAnswer
  <2> QED
    BY <2>1, <2>2, <2>3
<1> HIDE DEF hours, polls, count, gid
<1>3. n = [hours |-> hours, polls |-> polls, count |-> count, detail |-> m.detail, gid |-> gid]
  <2>1. n = [m EXCEPT !.hours = hours, !.polls = polls, !.count = count, !.gid = gid]
    BY Zenon DEF Noted, hours, polls, count, gid
  <2> HIDE DEF n
  <2> QED
    BY <2>1 DEF Dicts
<1> HIDE DEF n
<1>4. n \in Dicts
  BY <1>1, <1>2, <1>3 DEF Dicts
<1>5. n.hours = hours /\ n.polls = polls /\ n.detail = m.detail
  BY <1>3
<1>6. ASSUME NEW file, Agrees(m, S, file) PROVE Agrees(n, S, file)
  BY <1>2, <1>5, <1>6 DEF Agrees, Get
<1>7. ASSUME NEW file, DetailLoaded(m, S, file) PROVE DetailLoaded(n, S, file)
  BY <1>5, <1>7 DEF DetailLoaded
<1> QED
  BY <1>4, <1>5, <1>6, <1>7 DEF hours, n

LEMMA WithPageIs ==
    ASSUME NEW m \in Dicts, NEW S \in SUBSET App, NEW a \in S, NEW page, PageAnswer(page)
    PROVE  /\ WithPage(m, a, page) \in Dicts
           /\ \A file : Agrees(m, S, file) /\ DetailLoaded(m, S, file)
                 => /\ Agrees(WithPage(m, a, page), S, file)
                    /\ DetailLoaded(WithPage(m, a, page), S, file)
<1> DEFINE hours == IF page.hours > 0 THEN With(m.hours, a, page.hours) ELSE m.hours
           count == IF page.count > 0 THEN With(m.count, a, page.count) ELSE m.count
           detail == IF page.detail > 0 THEN With(m.detail, a, page.detail) ELSE m.detail
           n == WithPage(m, a, page)
<1>1. /\ m.hours \in Table(Int) /\ m.polls \in Table(Nat) /\ m.count \in Table(Nat)
      /\ m.detail \in Table(Int) /\ m.gid \in Table(Nat) /\ a \in App
  BY DEF Dicts
<1>2. /\ hours \in Table(Int) /\ count \in Table(Nat) /\ detail \in Table(Int)
      /\ \A b \in App \ {a} : /\ b \in DOMAIN hours <=> b \in DOMAIN m.hours
                              /\ b \in DOMAIN m.hours => hours[b] = m.hours[b]
                              /\ b \in DOMAIN detail <=> b \in DOMAIN m.detail
                              /\ b \in DOMAIN m.detail => detail[b] = m.detail[b]
  <2>1. /\ hours \in Table(Int)
        /\ \A b \in App \ {a} : /\ b \in DOMAIN hours <=> b \in DOMAIN m.hours
                                /\ b \in DOMAIN m.hours => hours[b] = m.hours[b]
    <3>1. CASE page.hours > 0
      <4>1. hours = With(m.hours, a, page.hours) /\ page.hours \in Int
        BY <3>1 DEF PageAnswer
      <4>2. hours \in Table(Int)
        BY <1>1, <4>1, WithIs
      <4>3. \A b \in App \ {a} : /\ b \in DOMAIN hours <=> b \in DOMAIN m.hours
                                 /\ b \in DOMAIN m.hours => hours[b] = m.hours[b]
        BY <4>1, WithSame
      <4> QED
        BY <4>2, <4>3
    <3> QED
      BY <1>1, <3>1
  <2>2. /\ detail \in Table(Int)
        /\ \A b \in App \ {a} : /\ b \in DOMAIN detail <=> b \in DOMAIN m.detail
                                /\ b \in DOMAIN m.detail => detail[b] = m.detail[b]
    <3>1. CASE page.detail > 0
      <4>1. detail = With(m.detail, a, page.detail) /\ page.detail \in Int
        BY <3>1 DEF PageAnswer
      <4>2. detail \in Table(Int)
        BY <1>1, <4>1, WithIs
      <4>3. \A b \in App \ {a} : /\ b \in DOMAIN detail <=> b \in DOMAIN m.detail
                                 /\ b \in DOMAIN m.detail => detail[b] = m.detail[b]
        BY <4>1, WithSame
      <4> QED
        BY <4>2, <4>3
    <3> QED
      BY <1>1, <3>1
  <2>3. count \in Table(Nat)
    BY <1>1, WithIs DEF PageAnswer
  <2> QED
    BY <2>1, <2>2, <2>3
<1> HIDE DEF hours, count, detail
<1>3. n = [hours |-> hours, polls |-> m.polls, count |-> count, detail |-> detail, gid |-> m.gid]
  <2>1. n = [m EXCEPT !.hours = hours, !.count = count, !.detail = detail]
    BY Zenon DEF WithPage, hours, count, detail
  <2> HIDE DEF n
  <2> QED
    BY <2>1 DEF Dicts
<1> HIDE DEF n
<1>4. n \in Dicts
  BY <1>1, <1>2, <1>3 DEF Dicts
<1>5. n.hours = hours /\ n.polls = m.polls /\ n.detail = detail
  BY <1>3
<1>6. ASSUME NEW file, Agrees(m, S, file), DetailLoaded(m, S, file)
      PROVE  Agrees(n, S, file) /\ DetailLoaded(n, S, file)
  <2>1. DetailLoaded(n, S, file)
    BY <1>2, <1>5, <1>6 DEF DetailLoaded
  <2>2. Agrees(n, S, file)
    BY <1>2, <1>5, <1>6, <2>1 DEF Agrees, DetailLoaded
  <2> QED
    BY <2>1, <2>2
<1> QED
  BY <1>4, <1>6 DEF n

LEMMA NextMod ==
    ASSUME NEW n \in Nat, NEW k \in Nat \ {0}, (n + 1) % k # 0
    PROVE  (n + 1) % k = (n % k) + 1
<1>1. n = k * (n \div k) + (n % k) /\ n \div k \in Int /\ n % k \in 0..(k - 1)
  OBVIOUS
<1>2. n + 1 = k * ((n + 1) \div k) + ((n + 1) % k) /\ (n + 1) \div k \in Int /\ (n + 1) % k \in 0..(k - 1)
  OBVIOUS
<1> DEFINE p == n \div k  q == (n + 1) \div k  r == n % k  s == (n + 1) % k
<1>3. /\ n = k * p + r /\ n + 1 = k * q + s /\ p \in Int /\ q \in Int
      /\ r \in 0..(k - 1) /\ s \in 1..(k - 1)
  BY <1>1, <1>2
<1> HIDE DEF p, q, r, s
<1>4. p = q
  <2>1. k * (q - p) = r + 1 - s
    BY <1>3
  <2>2. r + 1 - s < k /\ r + 1 - s > -k
    BY <1>3
  <2>3. q - p >= 1 => k * (q - p) >= k
    BY <1>3
  <2>4. q - p <= -1 => k * (q - p) <= -k
    BY <1>3
  <2> QED
    BY <1>3, <2>1, <2>2, <2>3, <2>4
<1>5. s = r + 1
  BY <1>3, <1>4
<1> QED
  BY <1>5 DEF r, s

(***************************************************************************)
(* The invariant of the cache.                                             *)
(***************************************************************************)
Working == fetch.pc \in {"auth", "search", "pages", "finish"}
FetchTypeOK ==
    /\ stored \in Table(Entry) /\ fetch \in Fetches
    /\ fetch.todo \subseteq fetch.asked /\ fetch.found \subseteq fetch.asked
    /\ DOMAIN fetch.prior \subseteq fetch.asked
    /\ fetch.pc \in {"load", "restore"} => fetch.kind \notin ReadsPages
    /\ fetch.pc = "pages" => fetch.kind \in ReadsPages

\* The dicts of the running command say of the others what the file says.
MemAgrees ==
    Working => /\ Agrees(fetch.mem, fetch.asked, stored)
               /\ fetch.kind \in ReadsPages => DetailLoaded(fetch.mem, fetch.asked, stored)

\* The hours of the others are still known, and those of the games looked up
\* wait to be put back.
BeforeKept ==
    fetch.pc # "dead" =>
       /\ \A a \in App \ fetch.asked : Known(fetch.before, a) => Known(stored, a)
       /\ ~writable => stored = fetch.before
PriorsKept ==
    fetch.pc \notin {"dead", "over"} =>
       \A a \in fetch.asked :
          Known(fetch.before, a) =>
             fetch.kind # "times" /\ a \in DOMAIN fetch.prior /\ fetch.prior[a] > 0

\* Less than SaveInterval answers are in memory only.
FewUnsaved(U, done) == IsFiniteSet(U) /\ Cardinality(U) <= done % SaveInterval
SearchSaved ==
    writable /\ (\/ fetch.pc \in {"auth", "search"}
                 \/ fetch.pc = "finish" /\ fetch.kind \notin ReadsPages)
       => FewUnsaved(Unsaved, fetch.done)

HltbInv ==
    FetchTypeOK /\ MemAgrees /\ BeforeKept /\ PriorsKept /\ EstimateSurvives /\ SearchSaved

\* What every step's save does to the file.
LEMMA SaveIs ==
    ASSUME stored \in Table(Entry), NEW m \in Dicts, NEW S, Agrees(m, S, stored), Save(m)
    PROVE  /\ stored' \in Table(Entry) /\ SameBut(S, stored, stored')
           /\ writable => stored' = Saved(m)
           /\ ~writable => stored' = stored
<1>1. CASE writable
  BY <1>1, SavedIs DEF Save
<1>2. CASE ~writable
  BY <1>2 DEF Save, SameBut
<1> QED
  BY <1>1, <1>2

LEMMA SaveSometimesIs ==
    ASSUME stored \in Table(Entry), NEW m \in Dicts, NEW S, Agrees(m, S, stored),
           NEW done, SaveSometimes(done, m)
    PROVE  /\ stored' \in Table(Entry) /\ SameBut(S, stored, stored')
           /\ writable /\ done % SaveInterval = 0 => stored' = Saved(m)
           /\ done % SaveInterval # 0 \/ ~writable => stored' = stored
<1>1. CASE done % SaveInterval = 0
  BY <1>1, SaveIs DEF SaveSometimes
<1>2. CASE done % SaveInterval # 0
  BY <1>2 DEF SaveSometimes, SameBut
<1> QED
  BY <1>1, <1>2

LEMMA KnownStill ==
    ASSUME NEW S, NEW file, NEW next, SameBut(S, file, next), NEW a \in App \ S, Known(file, a)
    PROVE  Known(next, a)
BY DEF SameBut, Known

\* A step of a command in progress keeps what was known when it started.
LEMMA WorkKeeps ==
    ASSUME HltbInv, fetch.pc \notin {"dead", "over"}, fetch'.pc \notin {"dead", "over"},
           fetch'.asked = fetch.asked, fetch'.before = fetch.before,
           fetch'.prior = fetch.prior, fetch'.kind = fetch.kind, writable' = writable,
           SameBut(fetch.asked, stored, stored'), ~writable => stored' = stored
    PROVE  BeforeKept' /\ PriorsKept' /\ EstimateSurvives'
<1>1. BeforeKept /\ PriorsKept
  BY DEF HltbInv
<1>2. BeforeKept'
  <2>1. ASSUME NEW a \in App \ fetch.asked, Known(fetch.before, a) PROVE Known(stored', a)
    BY <1>1, <2>1, KnownStill DEF BeforeKept
  <2>2. ~writable => stored' = fetch.before
    BY <1>1 DEF BeforeKept
  <2>3. \A a \in App \ fetch'.asked : Known(fetch'.before, a) => Known(stored', a)
    BY <2>1
  <2> QED
    BY <2>2, <2>3 DEF BeforeKept
<1>3. PriorsKept'
  BY <1>1 DEF PriorsKept, Known
<1>4. EstimateSurvives'
  BY DEF EstimateSurvives
<1> QED
  BY <1>2, <1>3, <1>4

LEMMA OverInv ==
    ASSUME HltbInv, fetch.pc \notin {"dead", "over"}, fetch' = Over, writable' = writable,
           stored' \in Table(Entry), SameBut(fetch.asked, stored, stored'),
           ~writable => stored' = stored,
           fetch.kind # "times" /\ writable =>
              \A a \in DOMAIN fetch.prior : fetch.prior[a] > 0 => Known(stored', a)
    PROVE  HltbInv'
<1>1. /\ BeforeKept /\ PriorsKept /\ fetch \in Fetches
  BY DEF HltbInv, FetchTypeOK
<1>2. fetch' = [kind |-> "times", pc |-> "over", asked |-> fetch.asked, todo |-> {},
                found |-> {}, done |-> 0, mem |-> Counted(Empty, Empty, Empty),
                prior |-> Empty, before |-> fetch.before]
  BY DEF Over, Resting
<1>3. Counted(Empty, Empty, Empty) \in Dicts
  BY EmptyIs DEF Counted, Dicts
<1>4. FetchTypeOK'
  <2>1. fetch' \in Fetches
    BY <1>1, <1>2, <1>3, EmptyIs DEF Fetches, Kind
  <2> QED
    BY <1>2, <2>1, EmptyIs DEF FetchTypeOK
<1>5. BeforeKept'
  <2>1. ASSUME NEW a \in App \ fetch.asked, Known(fetch.before, a) PROVE Known(stored', a)
    BY <1>1, <2>1, KnownStill DEF BeforeKept
  <2>2. ~writable => stored' = fetch.before
    BY <1>1 DEF BeforeKept
  <2>3. \A a \in App \ fetch'.asked : Known(fetch'.before, a) => Known(stored', a)
    BY <1>2, <2>1
  <2> QED
    BY <1>2, <2>2, <2>3 DEF BeforeKept
<1>6. EstimateSurvives'
  <2>1. ASSUME NEW a \in App, Known(fetch.before, a) PROVE Known(stored', a)
    <3>1. CASE ~writable
      BY <1>1, <2>1, <3>1 DEF BeforeKept
    <3>2. CASE writable /\ a \in fetch.asked
      BY <1>1, <2>1, <3>2 DEF PriorsKept
    <3>3. CASE a \notin fetch.asked
      BY <1>1, <2>1, <3>3, KnownStill DEF BeforeKept
    <3> QED
      BY <3>1, <3>2, <3>3
  <2>2. \A a \in App : Known(fetch'.before, a) => Known(stored', a)
    BY <1>2, <2>1
  <2> QED
    BY <2>2 DEF EstimateSurvives
<1>7. MemAgrees' /\ PriorsKept' /\ SearchSaved'
  BY <1>2 DEF MemAgrees, Working, PriorsKept, SearchSaved
<1> QED
  BY <1>4, <1>5, <1>6, <1>7 DEF HltbInv

LEMMA HltbInitInv == HltbInit => HltbInv
<1> SUFFICES ASSUME HltbInit PROVE HltbInv
  OBVIOUS
<1>1. stored \in Table(Entry)
  BY FirstCachesAssumption, TableIs DEF HltbInit, FirstCachesAssumption, Cache
<1>2. fetch = [kind |-> "times", pc |-> "dead", asked |-> {}, todo |-> {}, found |-> {},
               done |-> 0, mem |-> Counted(Empty, Empty, Empty),
               prior |-> Empty, before |-> Empty]
  BY DEF HltbInit, Resting
<1>3. Counted(Empty, Empty, Empty) \in Dicts
  BY EmptyIs DEF Counted, Dicts
<1>4. fetch \in Fetches
  BY <1>2, <1>3, EmptyIs DEF Fetches, Kind
<1> QED
  BY <1>1, <1>2, <1>4, EmptyIs
  DEF HltbInv, FetchTypeOK, MemAgrees, Working, BeforeKept, PriorsKept, EstimateSurvives,
      SearchSaved

(***************************************************************************)
(* The commands start.                                                     *)
(***************************************************************************)
LEMMA StartsInv ==
    ASSUME HltbInv, NEW kind \in Kind, NEW pc \in {"auth", "load"}, NEW asked \in SUBSET App,
           NEW mem \in Dicts, NEW prior \in Table(Int), DOMAIN prior \subseteq asked,
           Starts(kind, pc, asked, mem, prior),
           stored' \in Table(Entry), SameBut(asked, stored, stored'),
           ~writable => stored' = stored,
           pc = "load" => kind \notin ReadsPages,
           pc = "auth" => Agrees(mem, asked, stored') /\ DetailLoaded(mem, asked, stored'),
           \A a \in asked : Known(stored, a) =>
              kind # "times" /\ a \in DOMAIN prior /\ prior[a] > 0
    PROVE  HltbInv' /\ fetch'.asked = asked
<1>1. /\ fetch' = [kind |-> kind, pc |-> pc, asked |-> asked, todo |-> asked, found |-> {},
                   done |-> 0, mem |-> mem, prior |-> prior, before |-> stored]
      /\ writable' = writable
  BY DEF Starts, Resting
<1>2. stored \in Table(Entry)
  BY DEF HltbInv, FetchTypeOK
<1>3. FetchTypeOK'
  <2>1. fetch' \in Fetches
    BY <1>1, <1>2 DEF Fetches
  <2> QED
    BY <1>1, <2>1 DEF FetchTypeOK
<1>4. BeforeKept'
  <2>1. \A a \in App \ asked : Known(stored, a) => Known(stored', a)
    BY KnownStill
  <2> QED
    BY <1>1, <2>1 DEF BeforeKept
<1>5. PriorsKept' /\ EstimateSurvives'
  BY <1>1 DEF PriorsKept, EstimateSurvives
<1>6. MemAgrees'
  BY <1>1 DEF MemAgrees, Working
<1>7. SearchSaved'
  <2>1. Unsaved' = {} /\ fetch'.done = 0
    BY <1>1 DEF Unsaved
  <2>2. FewUnsaved({}, 0)
    <3>1. 0 % SaveInterval = 0
      BY HltbCacheAssumption DEF HltbCacheAssumption
    <3> QED
      BY <3>1, FS_EmptySet DEF FewUnsaved
  <2>3. FewUnsaved(Unsaved', fetch'.done)
    BY <2>1, <2>2, Zenon
  <2>4. FewUnsaved(Unsaved, fetch.done)'
    BY <2>3 DEF FewUnsaved
  <2> QED
    BY <2>4 DEF SearchSaved
<1> QED
  BY <1>1, <1>3, <1>4, <1>5, <1>6, <1>7 DEF HltbInv

LEMMA StartTimesInv ==
    ASSUME HltbInv, NEW games \in SUBSET App, StartTimes(games)
    PROVE  HltbInv' /\ SameBut(fetch'.asked, stored, stored')
<1> DEFINE asked == games \ DOMAIN stored
           mem == [Loaded EXCEPT !.gid = Empty]
<1>1. stored \in Table(Entry) /\ stored' = stored
  BY DEF HltbInv, FetchTypeOK, StartTimes
<1>2. mem = [hours |-> Column("hours"), polls |-> Column("polls"), count |-> Column("count"),
             detail |-> Column("detail"), gid |-> Empty]
  BY DEF Loaded
<1>3. Starts("times", "auth", asked, mem, Empty)
  BY DEF StartTimes
<1> HIDE DEF mem
<1>4. mem \in Dicts
  BY <1>1, <1>2, ColumnIs, EmptyIs DEF Dicts
<1>5. Agrees(mem, asked, stored) /\ DetailLoaded(mem, asked, stored)
  BY <1>1, <1>2, ColumnIs DEF Agrees, DetailLoaded, Get
<1>6. SameBut(asked, stored, stored)
  BY DEF SameBut
<1>7. \A a \in asked : ~Known(stored, a)
  BY DEF Known
<1> HIDE DEF asked
<1>8. asked \in SUBSET App
  BY DEF asked
<1> QED
  BY <1>1, <1>3, <1>4, <1>5, <1>6, <1>7, <1>8, StartsInv, EmptyIs DEF Kind, ReadsPages

\* The dicts a refetch starts with, out of which the games S were taken.
LEMMA TakenOut ==
    ASSUME stored \in Table(Entry), NEW S, NEW m, m.hours = Without(Column("hours"), S),
           m.polls \in {Column("polls"), Without(Column("polls"), S)},
           m.detail \in {Empty, Column("detail")}
    PROVE  Agrees(m, S, stored)
<1> SUFFICES ASSUME NEW a \in App \ S
             PROVE  /\ a \in DOMAIN m.hours <=> a \in DOMAIN stored
                    /\ a \in DOMAIN stored =>
                          /\ m.hours[a] = stored[a].hours /\ Get(m.polls, a, 0) = stored[a].polls
                          /\ DOMAIN m.detail # {} =>
                                a \in DOMAIN m.detail /\ m.detail[a] = stored[a].detail
  BY DEF Agrees
<1>1. /\ DOMAIN Without(Column("hours"), S) = DOMAIN stored \ S
      /\ DOMAIN Without(Column("polls"), S) = DOMAIN stored \ S
      /\ \A b \in DOMAIN stored \ S : /\ Without(Column("hours"), S)[b] = stored[b].hours
                                    /\ Without(Column("polls"), S)[b] = stored[b].polls
  BY DEF Without, Column
<1>2. /\ a \in DOMAIN m.hours <=> a \in DOMAIN stored
      /\ a \in DOMAIN stored => m.hours[a] = stored[a].hours
  BY <1>1
<1>3. a \in DOMAIN stored => Get(m.polls, a, 0) = stored[a].polls
  <2>1. CASE m.polls = Column("polls")
    BY <2>1 DEF Get, Column
  <2>2. CASE m.polls = Without(Column("polls"), S)
    BY <1>1, <2>2 DEF Get
  <2> QED
    BY <2>1, <2>2
<1>4. a \in DOMAIN stored /\ DOMAIN m.detail # {} =>
         a \in DOMAIN m.detail /\ m.detail[a] = stored[a].detail
  BY EmptyIs DEF Column
<1> QED
  BY <1>2, <1>3, <1>4

LEMMA StartDetailInv ==
    ASSUME HltbInv, NEW games \in SUBSET App, StartDetail(games)
    PROVE  HltbInv' /\ SameBut(fetch'.asked, stored, stored')
<1> DEFINE missing == {a \in games : Get(Column("detail"), a, NoHours) <= 0
                                       \/ Get(Column("gid"), a, 0) = 0}
           mem == [Loaded EXCEPT !.hours = Without(Column("hours"), missing)]
           prior == [a \in missing |-> Get(Column("hours"), a, NoHours)]
<1>1. stored \in Table(Entry) /\ stored' = stored
  BY DEF HltbInv, FetchTypeOK, StartDetail
<1>2. Starts("detail", "auth", missing, mem, prior) /\ missing \in SUBSET App
  BY Zenon DEF StartDetail
<1> HIDE DEF missing
<1>3. mem = [hours |-> Without(Column("hours"), missing), polls |-> Column("polls"),
             count |-> Column("count"), detail |-> Column("detail"), gid |-> Column("gid")]
  BY DEF Loaded
<1> HIDE DEF mem
<1>4. mem \in Dicts
  BY <1>1, <1>3, ColumnIs, WithoutIs DEF Dicts
<1>5. Agrees(mem, missing, stored) /\ DetailLoaded(mem, missing, stored)
  <2>1. Agrees(mem, missing, stored)
    BY <1>1, <1>3, TakenOut
  <2>2. DetailLoaded(mem, missing, stored)
    BY <1>3 DEF DetailLoaded, Column
  <2> QED
    BY <2>1, <2>2
<1>6. SameBut(missing, stored, stored)
  BY DEF SameBut
<1>7. prior \in Table(Int) /\ DOMAIN prior = missing
  <2>1. \A a : Get(Column("hours"), a, NoHours) \in Int
    BY <1>1, ColumnIs, GetIs DEF NoHours
  <2>2. prior \in [missing -> Int] /\ DOMAIN prior = missing
    BY <2>1
  <2> QED
    BY <1>2, <2>2, TableIs
<1>8. \A a \in missing : Known(stored, a) => prior[a] > 0
  BY <1>1, ColumnIs DEF Known, Get
<1> HIDE DEF prior
<1> QED
  BY <1>1, <1>2, <1>4, <1>5, <1>6, <1>7, <1>8, StartsInv DEF Kind, ReadsPages

LEMMA StartPollsInv ==
    ASSUME HltbInv, NEW games \in SUBSET App, StartPolls(games)
    PROVE  HltbInv' /\ SameBut(fetch'.asked, stored, stored')
<1> DEFINE missing == {a \in games : Get(Column("polls"), a, 0) = 0}
           mem == Counted(Without(Column("hours"), missing), Column("polls"), Empty)
           prior == [a \in missing \cap DOMAIN stored |-> stored[a].hours]
<1>1. stored \in Table(Entry)
  BY DEF HltbInv, FetchTypeOK
<1>2. Starts("polls", "load", missing, mem, prior) /\ missing \in SUBSET App /\ Save(mem)
  BY Zenon DEF StartPolls
<1> HIDE DEF missing
<1>3. mem = [hours |-> Without(Column("hours"), missing), polls |-> Column("polls"),
             count |-> Empty, detail |-> Empty, gid |-> Empty]
  BY DEF Counted
<1> HIDE DEF mem
<1>4. mem \in Dicts
  BY <1>1, <1>3, ColumnIs, WithoutIs, EmptyIs DEF Dicts
<1>5. Agrees(mem, missing, stored)
  BY <1>1, <1>3, TakenOut
<1>6. /\ stored' \in Table(Entry) /\ SameBut(missing, stored, stored')
      /\ ~writable => stored' = stored
  BY <1>1, <1>2, <1>4, <1>5, SaveIs
<1>7. prior \in Table(Int) /\ DOMAIN prior \subseteq missing
  <2>1. \A a \in DOMAIN stored : stored[a].hours \in Int
    <3>1. \A a \in DOMAIN stored : stored[a] \in Entry
      BY <1>1, TableIs
    <3> QED
      BY <3>1 DEF Entry
  <2>2. prior \in [missing \cap DOMAIN stored -> Int] /\ DOMAIN prior = missing \cap DOMAIN stored
    BY <2>1
  <2> QED
    BY <1>2, <2>2, TableIs
<1>8. \A a \in missing : Known(stored, a) => a \in DOMAIN prior /\ prior[a] > 0
  BY DEF Known
<1> HIDE DEF prior
<1> QED
  BY <1>2, <1>4, <1>6, <1>7, <1>8, StartsInv DEF Kind, ReadsPages

LEMMA StartRefreshInv ==
    ASSUME HltbInv, NEW games \in SUBSET App, StartRefresh(games)
    PROVE  HltbInv' /\ SameBut(fetch'.asked, stored, stored')
<1> DEFINE missing == {a \in games : Get(Column("polls"), a, 0) = 0
                                       /\ Get(Column("count"), a, 0) = 0}
           Less(field) == Without(Column(field), missing)
           mem == Counted(Less("hours"), Less("polls"), Less("count"))
           prior == [a \in missing |-> Get(Column("hours"), a, NoHours)]
<1>1. stored \in Table(Entry)
  BY DEF HltbInv, FetchTypeOK
<1>2. Starts("refresh", "load", missing, mem, prior) /\ missing \in SUBSET App /\ Save(mem)
  BY Zenon DEF StartRefresh
<1> HIDE DEF missing
<1>3. mem = [hours |-> Without(Column("hours"), missing),
             polls |-> Without(Column("polls"), missing),
             count |-> Without(Column("count"), missing), detail |-> Empty, gid |-> Empty]
  BY DEF Counted
<1> HIDE DEF mem
<1>4. mem \in Dicts
  BY <1>1, <1>3, ColumnIs, WithoutIs, EmptyIs DEF Dicts
<1>5. Agrees(mem, missing, stored)
  BY <1>1, <1>3, TakenOut
<1>6. /\ stored' \in Table(Entry) /\ SameBut(missing, stored, stored')
      /\ ~writable => stored' = stored
  BY <1>1, <1>2, <1>4, <1>5, SaveIs
<1>7. prior \in Table(Int) /\ DOMAIN prior = missing
  <2>1. \A a : Get(Column("hours"), a, NoHours) \in Int
    BY <1>1, ColumnIs, GetIs DEF NoHours
  <2>2. prior \in [missing -> Int] /\ DOMAIN prior = missing
    BY <2>1
  <2> QED
    BY <1>2, <2>2, TableIs
<1>8. \A a \in missing : Known(stored, a) => prior[a] > 0
  BY <1>1, ColumnIs DEF Known, Get
<1> HIDE DEF prior
<1> QED
  BY <1>2, <1>4, <1>6, <1>7, <1>8, StartsInv DEF Kind, ReadsPages

(***************************************************************************)
(* The steps of a command.                                                 *)
(***************************************************************************)
LEMMA FetchIs ==
    ASSUME fetch \in Fetches
    PROVE  fetch = [kind |-> fetch.kind, pc |-> fetch.pc, asked |-> fetch.asked,
                    todo |-> fetch.todo, found |-> fetch.found, done |-> fetch.done,
                    mem |-> fetch.mem, prior |-> fetch.prior, before |-> fetch.before]
BY DEF Fetches

LEMMA NoneUnsaved ==
    ASSUME NEW done, done % SaveInterval \in Nat PROVE FewUnsaved({}, done)
BY FS_EmptySet DEF FewUnsaved

LEMMA LoadConfidenceInv ==
    ASSUME HltbInv, LoadConfidence
    PROVE  HltbInv' /\ SameBut(fetch'.asked, stored, stored')
<1> DEFINE todo == fetch.asked \ DOMAIN stored
           pc == IF todo = {} THEN "restore" ELSE "auth"
           mem == Counted(Column("hours"), Column("polls"), Column("count"))
<1>1. /\ fetch \in Fetches /\ stored \in Table(Entry) /\ fetch.pc = "load"
      /\ fetch.kind \notin ReadsPages /\ stored' = stored /\ writable' = writable
      /\ fetch.found \subseteq fetch.asked /\ DOMAIN fetch.prior \subseteq fetch.asked
  BY DEF HltbInv, FetchTypeOK, LoadConfidence
<1>2. fetch' = [kind |-> fetch.kind, pc |-> pc, asked |-> fetch.asked, todo |-> todo,
                found |-> fetch.found, done |-> fetch.done, mem |-> mem,
                prior |-> fetch.prior, before |-> fetch.before]
  BY <1>1, FetchIs DEF LoadConfidence
<1>3. pc \in {"restore", "auth"} /\ todo \subseteq fetch.asked
  OBVIOUS
<1>4. mem = [hours |-> Column("hours"), polls |-> Column("polls"), count |-> Column("count"),
             detail |-> Empty, gid |-> Empty]
  BY DEF Counted
<1> HIDE DEF pc, mem
<1>5. mem \in Dicts
  BY <1>1, <1>4, ColumnIs, EmptyIs DEF Dicts
<1>6. SameBut(fetch.asked, stored, stored')
  BY <1>1 DEF SameBut
<1>7. FetchTypeOK'
  <2>1. fetch' \in Fetches
    BY <1>1, <1>2, <1>3, <1>5 DEF Fetches
  <2> QED
    BY <1>1, <1>2, <1>3, <2>1 DEF FetchTypeOK
<1>8. MemAgrees'
  <2>1. Agrees(mem, fetch.asked, stored)
    BY <1>4, EmptyIs DEF Agrees, Get, Column
  <2> QED
    BY <1>1, <1>2, <2>1 DEF MemAgrees
<1>9. BeforeKept' /\ PriorsKept' /\ EstimateSurvives'
  BY <1>1, <1>2, <1>3, <1>6, WorkKeeps
<1>10. SearchSaved'
  <2>1. Column("hours")' = Column("hours")
    BY <1>1 DEF Column
  <2>2. Unsaved' = {}
    BY <1>2, <1>4, <2>1 DEF Unsaved
  <2>3. fetch'.done % SaveInterval \in Nat
    BY <1>1, <1>2, HltbCacheAssumption DEF HltbCacheAssumption, Fetches
  <2>4. FewUnsaved(Unsaved', fetch'.done)
    BY <2>2, <2>3, NoneUnsaved
  <2> QED
    BY <2>4 DEF SearchSaved, FewUnsaved
<1> QED
  BY <1>2, <1>6, <1>7, <1>8, <1>9, <1>10 DEF HltbInv

LEMMA AuthoriseInv ==
    ASSUME HltbInv, Authorise
    PROVE  HltbInv' /\ SameBut(fetch'.asked, stored, stored')
<1>1. /\ fetch \in Fetches /\ stored \in Table(Entry) /\ fetch.pc = "auth"
      /\ stored' = stored /\ writable' = writable
      /\ fetch.todo \subseteq fetch.asked
      /\ fetch.found \subseteq fetch.asked /\ DOMAIN fetch.prior \subseteq fetch.asked
  BY DEF HltbInv, FetchTypeOK, Authorise
<1>2. PICK pc \in {"search", "finish"} : fetch' = [fetch EXCEPT !.pc = pc]
  BY DEF Authorise
<1>3. fetch' = [kind |-> fetch.kind, pc |-> pc, asked |-> fetch.asked, todo |-> fetch.todo,
                found |-> fetch.found, done |-> fetch.done, mem |-> fetch.mem,
                prior |-> fetch.prior, before |-> fetch.before]
  BY <1>1, <1>2, FetchIs
<1>4. SameBut(fetch.asked, stored, stored')
  BY <1>1 DEF SameBut
<1>5. FetchTypeOK'
  <2>1. fetch' \in Fetches
    BY <1>1, <1>3 DEF Fetches
  <2> QED
    BY <1>1, <1>2, <1>3, <2>1 DEF FetchTypeOK
<1>6. MemAgrees'
  BY <1>1, <1>3 DEF HltbInv, MemAgrees, Working
<1>7. BeforeKept' /\ PriorsKept' /\ EstimateSurvives'
  BY <1>1, <1>3, <1>4, WorkKeeps
<1>8. SearchSaved'
  <2>1. Column("hours")' = Column("hours")
    BY <1>1 DEF Column
  <2>2. Unsaved' = Unsaved
    BY <1>3, <2>1 DEF Unsaved
  <2>3. writable => FewUnsaved(Unsaved, fetch.done)
    BY <1>1 DEF HltbInv, SearchSaved
  <2>4. writable => FewUnsaved(Unsaved', fetch'.done)
    BY <1>3, <2>2, <2>3
  <2> QED
    BY <1>1, <2>4 DEF SearchSaved, FewUnsaved
<1> QED
  BY <1>3, <1>4, <1>5, <1>6, <1>7, <1>8 DEF HltbInv

\* What the answer of game a, and the save that may follow it, leave unsaved.
LEMMA AnswerUnsaved ==
    ASSUME HltbInv, fetch.pc = "search", NEW a \in fetch.todo, NEW hit, IsAnswer(hit),
           fetch'.mem = Noted(fetch.mem, a, hit), fetch'.asked = fetch.asked,
           fetch'.todo = fetch.todo \ {a}, fetch'.done = fetch.done + 1,
           SaveSometimes(fetch.done + 1, fetch'.mem), writable
    PROVE  FewUnsaved(Unsaved', fetch'.done)
<1>1. /\ fetch \in Fetches /\ stored \in Table(Entry) /\ fetch.todo \subseteq fetch.asked
      /\ fetch.asked \subseteq App /\ fetch.mem \in Dicts /\ fetch.done \in Nat
      /\ Agrees(fetch.mem, fetch.asked, stored)
      /\ FewUnsaved(Unsaved, fetch.done) /\ SaveInterval \in Nat \ {0}
  BY HltbCacheAssumption
  DEF HltbInv, FetchTypeOK, MemAgrees, Working, SearchSaved, HltbCacheAssumption, Fetches
<1>2. /\ fetch'.mem \in Dicts /\ fetch'.mem.hours = With(fetch.mem.hours, a, hit.hours)
      /\ Agrees(fetch'.mem, fetch.asked, stored)
  <2>1. a \in fetch.asked /\ fetch.asked \in SUBSET App
    BY <1>1
  <2>2. /\ Noted(fetch.mem, a, hit) \in Dicts
        /\ Noted(fetch.mem, a, hit).hours = With(fetch.mem.hours, a, hit.hours)
        /\ Agrees(Noted(fetch.mem, a, hit), fetch.asked, stored)
    BY <1>1, <2>1, NotedIs
  <2> QED
    BY <2>2
<1>3. CASE fetch'.done % SaveInterval = 0
  <2>1. stored' = Saved(fetch'.mem)
    BY <1>1, <1>2, <1>3, SaveSometimesIs
  <2>2. /\ DOMAIN stored' = DOMAIN fetch'.mem.hours
        /\ \A b \in DOMAIN fetch'.mem.hours : stored'[b].hours = fetch'.mem.hours[b]
    BY <1>1, <1>2, <2>1, SavedIs
  <2>3. \A b : Get(fetch'.mem.hours, b, 0) = Get(Column("hours")', b, 0)
    <3>1. Column("hours")' = [b \in DOMAIN stored' |-> stored'[b].hours]
      BY DEF Column
    <3> QED
      BY <2>2, <3>1 DEF Get
  <2>4. Unsaved' = {}
    BY <2>3 DEF Unsaved, Get
  <2>5. fetch'.done % SaveInterval \in Nat
    BY <1>3
  <2> QED
    BY <2>4, <2>5, NoneUnsaved
<1>4. CASE fetch'.done % SaveInterval # 0
  <2>1. stored' = stored
    BY <1>1, <1>2, <1>4, SaveSometimesIs
  <2>2. Unsaved' \subseteq Unsaved \cup {a}
    <3>1. Column("hours")' = Column("hours")
      BY <2>1 DEF Column
    <3>2. ASSUME NEW b \in fetch.asked \ fetch.todo, b # a
          PROVE  Get(fetch'.mem.hours, b, 0) = Get(fetch.mem.hours, b, 0)
      <4>1. b \in App
        BY <1>1
      <4>2. /\ b \in DOMAIN fetch'.mem.hours <=> b \in DOMAIN fetch.mem.hours
            /\ b \in DOMAIN fetch.mem.hours => fetch'.mem.hours[b] = fetch.mem.hours[b]
        BY <1>2, <3>2, <4>1, WithSame
      <4> QED
        BY <4>2 DEF Get
    <3> QED
      BY <3>1, <3>2 DEF Unsaved, Get
  <2>3. IsFiniteSet(Unsaved \cup {a}) /\ Cardinality(Unsaved \cup {a}) <= Cardinality(Unsaved) + 1
        /\ Cardinality(Unsaved) \in Nat
    <3> DEFINE U == Unsaved
    <3>1. IsFiniteSet(U)
      BY <1>1 DEF FewUnsaved
    <3> HIDE DEF U
    <3>2. Cardinality(U) \in Nat
      BY <3>1, FS_CardinalityType
    <3>3. IsFiniteSet(U \cup {a}) /\ Cardinality(U \cup {a}) <= Cardinality(U) + 1
      BY <3>1, <3>2, FS_AddElement
    <3> QED
      BY <3>2, <3>3 DEF U
  <2>4. IsFiniteSet(Unsaved') /\ Cardinality(Unsaved') <= Cardinality(Unsaved \cup {a})
    BY <2>2, <2>3, FS_Subset
  <2>5. Cardinality(Unsaved') \in Nat /\ Cardinality(Unsaved \cup {a}) \in Nat
    BY <2>3, <2>4, FS_CardinalityType
  <2>6. fetch'.done % SaveInterval = (fetch.done % SaveInterval) + 1
    BY <1>1, <1>4, NextMod
  <2>7. fetch.done % SaveInterval \in Nat
    BY <1>1
  <2>8. Cardinality(Unsaved) <= fetch.done % SaveInterval
    BY <1>1 DEF FewUnsaved
  <2> DEFINE u == Cardinality(Unsaved)  v == Cardinality(Unsaved')
             w == Cardinality(Unsaved \cup {a})
             d == fetch.done % SaveInterval  e == fetch'.done % SaveInterval
  <2>9. u \in Nat /\ v \in Nat /\ w \in Nat /\ d \in Nat /\ u <= d /\ w <= u + 1 /\ v <= w /\ e = d + 1
    BY <2>3, <2>4, <2>5, <2>6, <2>7, <2>8
  <2> HIDE DEF u, v, w, d, e
  <2>10. v <= e
    BY <2>9
  <2> QED
    BY <2>4, <2>10 DEF FewUnsaved, v, e
<1> QED
  BY <1>3, <1>4

LEMMA SearchOneInv ==
    ASSUME HltbInv, NEW a \in App, SearchOne(a)
    PROVE  HltbInv' /\ SameBut(fetch'.asked, stored, stored')
<1>1. /\ fetch \in Fetches /\ stored \in Table(Entry) /\ fetch.pc = "search"
      /\ writable' = writable /\ a \in fetch.todo
      /\ fetch.asked \in SUBSET App /\ fetch.todo \subseteq fetch.asked
      /\ fetch.found \subseteq fetch.asked /\ DOMAIN fetch.prior \subseteq fetch.asked
      /\ fetch.mem \in Dicts /\ Agrees(fetch.mem, fetch.asked, stored)
      /\ fetch.kind \in ReadsPages => DetailLoaded(fetch.mem, fetch.asked, stored)
      /\ fetch.done \in Nat
  BY DEF HltbInv, FetchTypeOK, SearchOne, MemAgrees, Working, Fetches
<1>2. PICK hit \in Hits :
          LET m == Noted(fetch.mem, a, hit)
              found == IF hit.gid > 0 THEN fetch.found \cup {a} ELSE fetch.found
              last == fetch.todo = {a}
              pages == last /\ fetch.kind \in ReadsPages /\ found # {}
          IN  /\ fetch' = [fetch EXCEPT
                    !.mem = m, !.found = found,
                    !.done = IF pages THEN 0 ELSE @ + 1,
                    !.todo = IF pages THEN found ELSE @ \ {a},
                    !.pc = IF pages THEN "pages" ELSE IF last THEN "finish" ELSE "search"]
              /\ SaveSometimes(fetch.done + 1, m)
  BY DEF SearchOne
<1> DEFINE m == Noted(fetch.mem, a, hit)
           found == IF hit.gid > 0 THEN fetch.found \cup {a} ELSE fetch.found
           pages == fetch.todo = {a} /\ fetch.kind \in ReadsPages /\ found # {}
           todo == IF pages THEN found ELSE fetch.todo \ {a}
           done == IF pages THEN 0 ELSE fetch.done + 1
           pc == IF pages THEN "pages" ELSE IF fetch.todo = {a} THEN "finish" ELSE "search"
<1>3. fetch' = [kind |-> fetch.kind, pc |-> pc, asked |-> fetch.asked, todo |-> todo,
                found |-> found, done |-> done, mem |-> m,
                prior |-> fetch.prior, before |-> fetch.before]
  <2> HIDE DEF m, found
  <2>1. fetch' = [fetch EXCEPT !.mem = m, !.found = found, !.done = done, !.todo = todo,
                               !.pc = pc]
    BY <1>2 DEF m, found
  <2> HIDE DEF todo, done, pc
  <2> QED
    BY <1>1, <2>1, FetchIs
<1>4. SaveSometimes(fetch.done + 1, m)
  BY <1>2
<1>5. IsAnswer(hit)
  BY HitsAre
<1>6. /\ m \in Dicts /\ Agrees(m, fetch.asked, stored)
      /\ fetch.kind \in ReadsPages => DetailLoaded(m, fetch.asked, stored)
  BY <1>1, <1>5, NotedIs
<1>7. /\ found \subseteq fetch.asked /\ todo \subseteq fetch.asked /\ done \in Nat
      /\ pc \in {"search", "finish", "pages"}
      /\ pc = "pages" => fetch.kind \in ReadsPages
  BY <1>1
<1>8. /\ stored' \in Table(Entry) /\ SameBut(fetch.asked, stored, stored')
      /\ ~writable => stored' = stored
  BY <1>1, <1>4, <1>6, SaveSometimesIs
<1>9. writable /\ pc # "pages" => FewUnsaved(Unsaved', fetch'.done)
  <2> SUFFICES ASSUME writable, pc # "pages" PROVE FewUnsaved(Unsaved', fetch'.done)
    OBVIOUS
  <2>1. todo = fetch.todo \ {a} /\ done = fetch.done + 1
    OBVIOUS
  <2> HIDE DEF m, found, pages, todo, done, pc
  <2>2. /\ fetch'.mem = m /\ fetch'.asked = fetch.asked /\ fetch'.todo = fetch.todo \ {a}
        /\ fetch'.done = fetch.done + 1
    BY <1>3, <2>1
  <2> QED
    BY <1>1, <1>4, <1>5, <2>2, AnswerUnsaved DEF m
<1> HIDE DEF m, found, pages, todo, done, pc
<1>10. FetchTypeOK'
  <2>1. fetch' \in Fetches
    BY <1>1, <1>3, <1>6, <1>7 DEF Fetches
  <2> QED
    BY <1>1, <1>3, <1>7, <1>8, <2>1 DEF FetchTypeOK
<1>11. MemAgrees'
  <2>1. Agrees(m, fetch.asked, stored')
    BY <1>6, <1>8, AgreesStill
  <2>2. fetch.kind \in ReadsPages => DetailLoaded(m, fetch.asked, stored')
    BY <1>6, <1>8 DEF DetailLoaded, SameBut
  <2> QED
    BY <1>3, <2>1, <2>2 DEF MemAgrees
<1>12. BeforeKept' /\ PriorsKept' /\ EstimateSurvives'
  BY <1>1, <1>3, <1>7, <1>8, WorkKeeps
<1>13. SearchSaved'
  <2>1. fetch'.pc = pc
    BY <1>3
  <2>2. fetch'.pc # "pages" /\ writable => FewUnsaved(Unsaved, fetch.done)'
    BY <1>9, <2>1 DEF FewUnsaved
  <2> QED
    BY <1>1, <2>2 DEF SearchSaved
<1> QED
  BY <1>3, <1>8, <1>10, <1>11, <1>12, <1>13 DEF HltbInv

LEMMA PageOneInv ==
    ASSUME HltbInv, NEW a \in App, PageOne(a)
    PROVE  HltbInv' /\ SameBut(fetch'.asked, stored, stored')
<1>1. /\ fetch \in Fetches /\ stored \in Table(Entry) /\ fetch.pc = "pages"
      /\ writable' = writable /\ a \in fetch.todo /\ fetch.kind \in ReadsPages
      /\ fetch.asked \in SUBSET App /\ fetch.todo \subseteq fetch.asked
      /\ fetch.found \subseteq fetch.asked /\ DOMAIN fetch.prior \subseteq fetch.asked
      /\ fetch.mem \in Dicts /\ Agrees(fetch.mem, fetch.asked, stored)
      /\ DetailLoaded(fetch.mem, fetch.asked, stored) /\ fetch.done \in Nat
  BY DEF HltbInv, FetchTypeOK, PageOne, MemAgrees, Working, Fetches
<1>2. PICK page \in Pages :
          LET m == WithPage(fetch.mem, a, page)
          IN  /\ fetch' = [fetch EXCEPT !.mem = m, !.done = @ + 1, !.todo = @ \ {a},
                                        !.pc = IF fetch.todo = {a} THEN "finish" ELSE "pages"]
              /\ SaveSometimes(fetch.done + 1, m)
  BY DEF PageOne
<1> DEFINE m == WithPage(fetch.mem, a, page)
           pc == IF fetch.todo = {a} THEN "finish" ELSE "pages"
           todo == fetch.todo \ {a}
           done == fetch.done + 1
<1>3. fetch' = [kind |-> fetch.kind, pc |-> pc, asked |-> fetch.asked,
                todo |-> todo, found |-> fetch.found, done |-> done,
                mem |-> m, prior |-> fetch.prior, before |-> fetch.before]
  <2> HIDE DEF m
  <2>1. fetch' = [fetch EXCEPT !.mem = m, !.done = done, !.todo = todo, !.pc = pc]
    BY <1>2 DEF m
  <2> HIDE DEF pc, todo, done
  <2> QED
    BY <1>1, <2>1, FetchIs
<1>4. SaveSometimes(fetch.done + 1, m)
  BY <1>2
<1>5. PageAnswer(page)
  BY PagesAre
<1>6. m \in Dicts /\ Agrees(m, fetch.asked, stored) /\ DetailLoaded(m, fetch.asked, stored)
  BY <1>1, <1>5, WithPageIs
<1>7. pc \in {"finish", "pages"} /\ todo \subseteq fetch.asked /\ done \in Nat
  BY <1>1
<1> HIDE DEF m, pc, todo, done
<1>8. /\ stored' \in Table(Entry) /\ SameBut(fetch.asked, stored, stored')
      /\ ~writable => stored' = stored
  BY <1>1, <1>4, <1>6, SaveSometimesIs
<1>9. FetchTypeOK'
  <2>1. fetch' \in Fetches
    BY <1>1, <1>3, <1>6, <1>7 DEF Fetches
  <2> QED
    BY <1>1, <1>3, <1>7, <1>8, <2>1 DEF FetchTypeOK
<1>10. MemAgrees'
  <2>1. Agrees(m, fetch.asked, stored')
    BY <1>6, <1>8, AgreesStill
  <2>2. DetailLoaded(m, fetch.asked, stored')
    BY <1>6, <1>8 DEF DetailLoaded, SameBut
  <2> QED
    BY <1>3, <2>1, <2>2 DEF MemAgrees
<1>11. BeforeKept' /\ PriorsKept' /\ EstimateSurvives'
  BY <1>1, <1>3, <1>7, <1>8, WorkKeeps
<1>12. SearchSaved'
  BY <1>1, <1>3, <1>7 DEF SearchSaved
<1> QED
  BY <1>3, <1>8, <1>9, <1>10, <1>11, <1>12 DEF HltbInv

LEMMA CountsOnly ==
    ASSUME NEW m \in Dicts, NEW d, NEW g, NEW w, w = [m EXCEPT !.detail = d, !.gid = g]
    PROVE  w = [hours |-> m.hours, polls |-> m.polls, count |-> m.count, detail |-> d, gid |-> g]
BY DEF Dicts

LEMMA FinishInv ==
    ASSUME HltbInv, Finish
    PROVE  HltbInv' /\ SameBut(fetch'.asked, stored, stored')
<1>1. /\ fetch \in Fetches /\ stored \in Table(Entry) /\ fetch.pc = "finish"
      /\ writable' = writable
      /\ fetch.asked \in SUBSET App /\ fetch.todo \subseteq fetch.asked
      /\ fetch.found \subseteq fetch.asked /\ DOMAIN fetch.prior \subseteq fetch.asked
      /\ fetch.prior \in Table(Int) /\ fetch.kind \in Kind
      /\ fetch.mem \in Dicts /\ Agrees(fetch.mem, fetch.asked, stored)
      /\ fetch.kind \in ReadsPages => DetailLoaded(fetch.mem, fetch.asked, stored)
  BY DEF HltbInv, FetchTypeOK, Finish, MemAgrees, Working, Fetches
<1> DEFINE m == fetch.mem
           back == [hours |-> Restored(m.hours, fetch.prior), polls |-> m.polls,
                    count |-> m.count, detail |-> m.detail, gid |-> m.gid]
           counts == [hours |-> m.hours, polls |-> m.polls, count |-> m.count,
                      detail |-> Empty, gid |-> Empty]
<1>2. CASE fetch.kind = "times"
  <2>1. fetch' = Over /\ Save(m)
    BY <1>2 DEF Finish, ReadsPages
  <2>2. /\ stored' \in Table(Entry) /\ SameBut(fetch.asked, stored, stored')
        /\ ~writable => stored' = stored
    BY <1>1, <2>1, SaveIs
  <2>3. HltbInv'
    BY <1>1, <1>2, <2>1, <2>2, OverInv
  <2>4. fetch'.asked = fetch.asked
    BY <2>1 DEF Over, Resting
  <2> QED
    BY <2>2, <2>3, <2>4
<1>3. CASE fetch.kind = "detail"
  <2>1. fetch' = Over
    BY <1>3 DEF Finish, ReadsPages
  <2>2. Save(back)
    <3>1. Save([fetch.mem EXCEPT !.hours = Restored(@, fetch.prior)])
      BY <1>3 DEF Finish
    <3>2. [fetch.mem EXCEPT !.hours = Restored(@, fetch.prior)] = back
      BY <1>1 DEF Dicts
    <3> QED
      BY <3>1, <3>2, Zenon
  <2>3. m.hours \in Table(Int)
    BY <1>1 DEF Dicts
  <2>4. /\ Restored(m.hours, fetch.prior) \in Table(Int)
        /\ \A a \in App \ fetch.asked :
              /\ a \in DOMAIN Restored(m.hours, fetch.prior) <=> a \in DOMAIN m.hours
              /\ a \in DOMAIN m.hours => Restored(m.hours, fetch.prior)[a] = m.hours[a]
        /\ \A a \in DOMAIN fetch.prior :
              fetch.prior[a] > 0 => a \in DOMAIN Restored(m.hours, fetch.prior)
                                    /\ Restored(m.hours, fetch.prior)[a] > 0
    BY <1>1, <2>3, RestoredIs
  <2>5. back \in Dicts
    BY <1>1, <2>4 DEF Dicts
  <2>6. Agrees(back, fetch.asked, stored)
    BY <1>1, <2>4 DEF Agrees
  <2>7. /\ back.hours = Restored(m.hours, fetch.prior)
    OBVIOUS
  <2> HIDE DEF back
  <2>8. /\ stored' \in Table(Entry) /\ SameBut(fetch.asked, stored, stored')
        /\ ~writable => stored' = stored
        /\ writable => stored' = Saved(back)
    BY <1>1, <2>2, <2>5, <2>6, SaveIs
  <2>9. /\ DOMAIN Saved(back) = DOMAIN back.hours
        /\ \A a \in DOMAIN back.hours : Saved(back)[a].hours = back.hours[a]
    BY <1>1, <2>5, SavedIs
  <2>10. writable => \A a \in DOMAIN fetch.prior : fetch.prior[a] > 0 => Known(stored', a)
    BY <2>4, <2>7, <2>8, <2>9 DEF Known
  <2>11. HltbInv'
    BY <1>1, <2>1, <2>8, <2>10, OverInv
  <2>12. fetch'.asked = fetch.asked
    BY <2>1 DEF Over, Resting
  <2> QED
    BY <2>8, <2>11, <2>12
<1>4. CASE fetch.kind \notin ReadsPages
  <2>1. fetch' = [kind |-> fetch.kind, pc |-> "restore", asked |-> fetch.asked,
                  todo |-> fetch.todo, found |-> fetch.found, done |-> fetch.done,
                  mem |-> fetch.mem, prior |-> fetch.prior, before |-> fetch.before]
    BY <1>1, <1>4, FetchIs DEF Finish
  <2>2. Save(counts)
    <3>1. Save([fetch.mem EXCEPT !.detail = Empty, !.gid = Empty])
      BY <1>1, <1>4 DEF Finish, ReadsPages
    <3>2. [m EXCEPT !.detail = Empty, !.gid = Empty] = counts
      BY <1>1, CountsOnly
    <3> QED
      BY <3>1, <3>2, Zenon
  <2>3. counts \in Dicts
    BY <1>1, EmptyIs DEF Dicts
  <2>4. Agrees(counts, fetch.asked, stored)
    BY <1>1, EmptyIs DEF Agrees
  <2> HIDE DEF counts
  <2>5. /\ stored' \in Table(Entry) /\ SameBut(fetch.asked, stored, stored')
        /\ ~writable => stored' = stored
    BY <1>1, <2>2, <2>3, <2>4, SaveIs
  <2>6. FetchTypeOK'
    <3>1. fetch' \in Fetches
      BY <1>1, <2>1 DEF Fetches
    <3> QED
      BY <1>1, <1>4, <2>1, <2>5, <3>1 DEF FetchTypeOK
  <2>7. BeforeKept' /\ PriorsKept' /\ EstimateSurvives'
    BY <1>1, <2>1, <2>5, WorkKeeps
  <2>8. MemAgrees' /\ SearchSaved'
    BY <2>1 DEF MemAgrees, Working, SearchSaved
  <2> QED
    BY <2>1, <2>5, <2>6, <2>7, <2>8 DEF HltbInv
<1> QED
  BY <1>2, <1>3, <1>4 DEF ReadsPages

LEMMA RestoreInv ==
    ASSUME HltbInv, Restore
    PROVE  HltbInv' /\ SameBut(fetch'.asked, stored, stored')
<1>1. /\ fetch \in Fetches /\ stored \in Table(Entry) /\ fetch.pc = "restore"
      /\ writable' = writable /\ fetch' = Over /\ fetch.asked \in SUBSET App
      /\ fetch.prior \in Table(Int) /\ DOMAIN fetch.prior \subseteq fetch.asked
  BY DEF HltbInv, FetchTypeOK, Restore, Fetches
<1> DEFINE count == IF fetch.kind = "polls" THEN Empty ELSE Column("count")
           back == Restored(Column("hours"), fetch.prior)
           m == [hours |-> back, polls |-> Column("polls"), count |-> count,
                 detail |-> Empty, gid |-> Empty]
<1>2. Save(m)
  BY DEF Restore, Counted
<1>3. count \in Table(Nat)
  BY <1>1, ColumnIs, EmptyIs
<1>4. /\ back \in Table(Int)
      /\ \A a \in App \ fetch.asked : /\ a \in DOMAIN back <=> a \in DOMAIN stored
                                      /\ a \in DOMAIN stored => back[a] = stored[a].hours
      /\ \A a \in DOMAIN fetch.prior : fetch.prior[a] > 0 => a \in DOMAIN back /\ back[a] > 0
  BY <1>1, ColumnIs, RestoredIs
<1> HIDE DEF count, back
<1>5. m \in Dicts
  BY <1>1, <1>3, <1>4, ColumnIs, EmptyIs DEF Dicts
<1>6. Agrees(m, fetch.asked, stored)
  BY <1>4, EmptyIs DEF Agrees, Get, Column
<1>7. m.hours = back
  OBVIOUS
<1> HIDE DEF m
<1>8. /\ stored' \in Table(Entry) /\ SameBut(fetch.asked, stored, stored')
      /\ ~writable => stored' = stored
      /\ writable => stored' = Saved(m)
  BY <1>1, <1>2, <1>5, <1>6, SaveIs
<1>9. /\ DOMAIN Saved(m) = DOMAIN back
      /\ \A a \in DOMAIN back : Saved(m)[a].hours = back[a]
  BY <1>1, <1>5, <1>7, SavedIs
<1>10. writable => \A a \in DOMAIN fetch.prior : fetch.prior[a] > 0 => Known(stored', a)
  BY <1>4, <1>8, <1>9 DEF Known
<1>11. HltbInv'
  BY <1>1, <1>8, <1>10, OverInv
<1>12. fetch'.asked = fetch.asked
  BY <1>1 DEF Over, Resting
<1> QED
  BY <1>8, <1>11, <1>12

LEMMA FetchDiesInv ==
    ASSUME HltbInv, FetchDies
    PROVE  HltbInv' /\ stored' = stored
<1>1. /\ fetch' = [kind |-> "times", pc |-> "dead", asked |-> {}, todo |-> {}, found |-> {},
                   done |-> 0, mem |-> Counted(Empty, Empty, Empty),
                   prior |-> Empty, before |-> Empty]
      /\ stored' = stored /\ stored \in Table(Entry)
  BY DEF FetchDies, Resting, HltbInv, FetchTypeOK
<1>2. Counted(Empty, Empty, Empty) \in Dicts
  BY EmptyIs DEF Counted, Dicts
<1>3. fetch' \in Fetches
  BY <1>1, <1>2, EmptyIs DEF Fetches, Kind
<1> QED
  BY <1>1, <1>3, EmptyIs
  DEF HltbInv, FetchTypeOK, MemAgrees, Working, BeforeKept, PriorsKept, EstimateSurvives,
      SearchSaved

LEMMA HltbStepInv ==
    HltbInv /\ [HltbNext]_hltbVars
       => HltbInv' /\ (SameBut(fetch'.asked, stored, stored') \/ stored' = stored)
<1> SUFFICES ASSUME HltbInv, [HltbNext]_hltbVars
             PROVE  HltbInv' /\ (SameBut(fetch'.asked, stored, stored') \/ stored' = stored)
  OBVIOUS
<1>1. CASE UNCHANGED hltbVars
  <2>1. fetch' = fetch /\ stored' = stored /\ writable' = writable
    BY <1>1 DEF hltbVars
  <2>2. Unsaved' = Unsaved
    BY <2>1 DEF Unsaved, Column
  <2>3. SearchSaved'
    BY <2>1, <2>2 DEF HltbInv, SearchSaved
  <2> QED
    BY <2>1, <2>3
    DEF HltbInv, FetchTypeOK, MemAgrees, Working, BeforeKept, PriorsKept, EstimateSurvives
<1> QED
  BY <1>1, StartTimesInv, StartDetailInv, StartPollsInv, StartRefreshInv, LoadConfidenceInv,
     AuthoriseInv, SearchOneInv, PageOneInv, FinishInv, RestoreInv, FetchDiesInv DEF HltbNext

LEMMA HltbInvKeeps == HltbInv => EstimatesKept
<1> SUFFICES ASSUME HltbInv PROVE CrashLosesLittle
  BY DEF EstimatesKept, HltbInv
<1> SUFFICES ASSUME writable,
                    \/ fetch.pc = "search"
                    \/ fetch.pc = "finish" /\ fetch.kind \notin ReadsPages
             PROVE  Cardinality(Unsaved) < SaveInterval
  BY DEF CrashLosesLittle
<1>1. IsFiniteSet(Unsaved) /\ Cardinality(Unsaved) <= fetch.done % SaveInterval
  BY DEF HltbInv, SearchSaved, FewUnsaved
<1>2. fetch.done \in Nat /\ SaveInterval \in Nat \ {0}
  BY HltbCacheAssumption DEF HltbInv, FetchTypeOK, Fetches, HltbCacheAssumption
<1>3. fetch.done % SaveInterval \in 0..(SaveInterval - 1)
  BY <1>2
<1>4. Cardinality(Unsaved) \in Nat
  BY <1>1, FS_CardinalityType
<1> HIDE DEF Unsaved
<1> QED
  BY <1>1, <1>2, <1>3, <1>4

\* A command that runs to its end loses no estimate, and a crash less than
\* SaveInterval answers, for any games, answers and first file.
THEOREM NoEstimateLost == HltbSpec => []EstimatesKept
  BY HltbInvKeeps, HltbInitInv, HltbStepInv, PTL DEF HltbSpec

\* No save touches the hours, polls or detail of a game not looked up.
THEOREM OthersUntouched == HltbSpec => OthersKeepTimes
<1>1. HltbInv /\ [HltbNext]_hltbVars =>
        [\A a \in DOMAIN stored \ fetch'.asked :
          /\ a \in DOMAIN stored'
          /\ \A field \in {"hours", "polls", "detail"} :
                stored'[a][field] = stored[a][field]]_stored
  <2> SUFFICES ASSUME HltbInv, SameBut(fetch'.asked, stored, stored'),
                      NEW a \in DOMAIN stored \ fetch'.asked
               PROVE  /\ a \in DOMAIN stored'
                      /\ \A field \in {"hours", "polls", "detail"} :
                            stored'[a][field] = stored[a][field]
    BY HltbStepInv
  <2>1. a \in App
    <3>1. stored \in Table(Entry)
      BY DEF HltbInv, FetchTypeOK
    <3> QED
      BY <3>1, TableIs
  <2> QED
    BY <2>1 DEF SameBut
<1> QED
  BY <1>1, HltbInitInv, HltbStepInv, PTL DEF HltbSpec, OthersKeepTimes
=============================================================================
