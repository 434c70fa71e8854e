----------------------------- MODULE PicksProofs -----------------------------
(***************************************************************************)
(* Proofs about Picks: every record that is ever written, or held by a     *)
(* session, is well-formed, for any library, any caps and cooldowns, any   *)
(* number of overlapping sessions.  First what each function of PickRules  *)
(* does to a record: it stays a record, and a well-formed one stays        *)
(* well-formed.                                                            *)
(***************************************************************************)
EXTENDS Picks, FiniteSetTheorems, TLAPS

-----------------------------------------------------------------------------
(* Lists. *)

\* The k-th index of a finite set of indices exists (Nth): counting the members
\* up to each index is a bijection onto 1..Cardinality.
LEMMA NthIsMember ==
    ASSUME NEW I \in SUBSET Nat, IsFiniteSet(I), NEW k \in 1..Cardinality(I)
    PROVE  Nth(I, k) \in I /\ Cardinality({j \in I : j <= Nth(I, k)}) = k
<1> DEFINE Upto(i) == {j \in I : j <= i}
<1> DEFINE rank == [i \in I |-> Cardinality(Upto(i))]
<1>1. \A i \in I : IsFiniteSet(Upto(i)) /\ Cardinality(Upto(i)) \in 1..Cardinality(I)
  <2> SUFFICES ASSUME NEW i \in I
               PROVE IsFiniteSet(Upto(i)) /\ Cardinality(Upto(i)) \in 1..Cardinality(I)
    OBVIOUS
  <2>1. Upto(i) \subseteq I /\ i \in Upto(i)
    <3>1. i \in Nat
      OBVIOUS
    <3> QED BY <3>1
  <2>2. IsFiniteSet(Upto(i)) /\ Cardinality(Upto(i)) <= Cardinality(I)
    BY <2>1, FS_Subset
  <2>3. Cardinality(Upto(i)) \in Nat /\ Cardinality(Upto(i)) # 0
    BY <2>1, <2>2, FS_CardinalityType, FS_EmptySet
  <2> HIDE DEF Upto
  <2>4. Cardinality(I) \in Nat
    BY FS_CardinalityType
  <2> QED BY <2>2, <2>3, <2>4
<1>2. \A i, m \in I : i < m => Cardinality(Upto(i)) # Cardinality(Upto(m))
  <2> HIDE DEF rank
  <2> SUFFICES ASSUME NEW i \in I, NEW m \in I, i < m, Cardinality(Upto(i)) = Cardinality(Upto(m))
               PROVE FALSE
    OBVIOUS
  <2>0. i \in Nat /\ m \in Nat /\ I \subseteq Nat
    OBVIOUS
  <2>1. Upto(i) \subseteq Upto(m)
    <3> SUFFICES ASSUME NEW j \in Upto(i) PROVE j \in Upto(m)
      OBVIOUS
    <3>1. j \in I /\ j \in Nat /\ j <= i
      BY <2>0
    <3>2. j <= m
      BY <2>0, <3>1
    <3> QED BY <3>1, <3>2
  <2>2. m \in Upto(m) /\ m \notin Upto(i)
    <3>1. m <= m /\ ~(m <= i)
      BY <2>0
    <3> QED BY <3>1
  <2> HIDE DEF Upto
  <2> QED BY <1>1, <2>1, <2>2, FS_Subset
<1>3. rank \in [I -> 1..Cardinality(I)]
  BY <1>1
<1>4. rank \in Injection(I, 1..Cardinality(I))
  <2>1. \A i, m \in I : rank[i] = rank[m] => i = m
    <3> SUFFICES ASSUME NEW i \in I, NEW m \in I, rank[i] = rank[m] PROVE i = m
      OBVIOUS
    <3>1. i \in Nat /\ m \in Nat
      OBVIOUS
    <3>2. rank[i] = Cardinality(Upto(i)) /\ rank[m] = Cardinality(Upto(m))
      BY DEF rank
    <3>3. ~(i < m) /\ ~(m < i)
      BY <1>2, <3>2
    <3> HIDE DEF rank
    <3> QED BY <3>1, <3>3
  <2> HIDE DEF rank
  <2> QED BY <1>3, <2>1 DEF Injection, IsInjective
<1>5. Cardinality(1..Cardinality(I)) = Cardinality(I)
  BY FS_CardinalityType, FS_Interval
<1>6. rank \in Surjection(I, 1..Cardinality(I))
  <2>1. IsFiniteSet(1..Cardinality(I))
    BY FS_CardinalityType, FS_Interval
  <2> HIDE DEF rank
  <2> QED BY <1>4, <1>5, <2>1, FS_Injection
<1>7. PICK i \in I : rank[i] = k
  BY <1>6 DEF Surjection
<1>8. i \in I /\ Cardinality({j \in I : j <= i}) = k
  BY <1>7
<1> QED BY <1>8 DEF Nth

\* What is left of a list filtered by a set (Only): a list of the entries in the
\* set, taken from different places.
LEMMA OnlyFacts ==
    ASSUME NEW S, NEW l \in Seq(S), NEW K
    PROVE  /\ Only(l, K) \in Seq(S)
           /\ Elements(Only(l, K)) = Elements(l) \cap K
           /\ \A i, k \in DOMAIN Only(l, K) : i # k =>
                 \E m, n \in DOMAIN l : m # n /\ Only(l, K)[i] = l[m] /\ Only(l, K)[k] = l[n]
<1> DEFINE I == {i \in DOMAIN l : l[i] \in K}
<1> DEFINE f == [k \in 1..Cardinality(I) |-> l[Nth(I, k)]]
<1>1. Only(l, K) = f
  BY DEF Only
<1>2. DOMAIN l = 1..Len(l) /\ Len(l) \in Nat /\ \A i \in DOMAIN l : l[i] \in S
  OBVIOUS
<1>3. IsFiniteSet(I) /\ I \in SUBSET Nat
  <2>1. IsFiniteSet(1..Len(l))
    BY <1>2, FS_Interval
  <2>2. I \subseteq 1..Len(l)
    BY <1>2
  <2>3. 1..Len(l) \subseteq Nat
    BY <1>2
  <2> HIDE DEF I
  <2> QED BY <2>1, <2>2, <2>3, FS_Subset
<1>4. Cardinality(I) \in Nat
  <2> HIDE DEF I
  <2> QED BY <1>3, FS_CardinalityType
<1>5. \A k \in 1..Cardinality(I) : Nth(I, k) \in I /\ Cardinality({j \in I : j <= Nth(I, k)}) = k
  <2> HIDE DEF I
  <2> QED BY <1>3, NthIsMember
<1>6. \A k \in 1..Cardinality(I) : f[k] = l[Nth(I, k)] /\ Nth(I, k) \in DOMAIN l /\ f[k] \in S /\ f[k] \in K
  BY <1>2, <1>5
<1>7. f \in Seq(S)
  <2>1. f \in [1..Cardinality(I) -> S]
    BY <1>6
  <2> HIDE DEF f, I
  <2> QED BY <1>4, <2>1
<1>8. DOMAIN f = 1..Cardinality(I)
  OBVIOUS
<1>9. Elements(f) \subseteq Elements(l) \cap K
  BY <1>6, <1>8 DEF Elements
<1>10. Elements(l) \cap K \subseteq Elements(f)
  <2> SUFFICES ASSUME NEW i \in DOMAIN l, l[i] \in K PROVE l[i] \in Elements(f)
    BY DEF Elements
  <2>1. i \in I
    OBVIOUS
  <2> DEFINE U == {j \in I : j <= i}
  <2>2. IsFiniteSet(U) /\ Cardinality(U) <= Cardinality(I) /\ Cardinality(U) \in Nat
    <3>1. U \subseteq I
      OBVIOUS
    <3> HIDE DEF U, I
    <3> QED BY <1>3, <3>1, FS_Subset, FS_CardinalityType
  <2>3. Cardinality(U) # 0
    <3>1. i \in U
      <4>1. i \in Nat
        BY <1>2
      <4> QED BY <2>1, <4>1
    <3> HIDE DEF U
    <3> QED BY <2>2, <3>1, FS_EmptySet
  <2> DEFINE k == Cardinality(U)
  <2>4. k \in 1..Cardinality(I)
    <3> HIDE DEF U, I
    <3> QED BY <1>4, <2>2, <2>3
  <2>5. Nth(I, k) = i
    <3> DEFINE n == Nth(I, k)
    <3> DEFINE V == {j \in I : j <= n}
    <3>1. n \in I /\ Cardinality(V) = Cardinality(U)
      BY <1>5, <2>4
    <3>2. n \in Nat /\ i \in Nat
      BY <1>3, <2>1, <3>1
    <3>3. n \in V /\ i \in U
      BY <2>1, <3>1, <3>2
    <3>4. U \subseteq V \/ V \subseteq U
      <4> HIDE DEF n
      <4>1. CASE i <= n
        <5>1. \A j \in I : j \in Nat
          BY <1>3
        <5> HIDE DEF I
        <5>2. \A j \in I : j <= i => j <= n
          BY <5>1, <3>2, <4>1
        <5> QED BY <5>2
      <4>2. CASE n <= i
        <5>1. \A j \in I : j \in Nat
          BY <1>3
        <5> HIDE DEF I
        <5>2. \A j \in I : j <= n => j <= i
          BY <5>1, <3>2, <4>2
        <5> QED BY <5>2
      <4> QED BY <3>2, <4>1, <4>2
    <3>5. IsFiniteSet(V)
      <4>1. V \subseteq I
        OBVIOUS
      <4> HIDE DEF V, I
      <4> QED BY <1>3, <4>1, FS_Subset
    <3>6. U = V
      <4> HIDE DEF U, V, n, k
      <4> QED BY <2>2, <3>1, <3>4, <3>5, FS_Subset
    <3>7. n <= i /\ i <= n
      <4>1. n \in U /\ i \in V
        BY <3>3, <3>6
      <4> HIDE DEF n, k, I
      <4> QED BY <4>1
    <3> HIDE DEF n
    <3> QED BY <3>2, <3>7 DEF n
  <2>6. f[k] = l[i] /\ k \in DOMAIN f
    BY <1>8, <2>4, <2>5
  <2> QED BY <2>6 DEF Elements
<1>11. \A i, k \in DOMAIN f : i # k => \E m, n \in DOMAIN l : m # n /\ f[i] = l[m] /\ f[k] = l[n]
  <2> SUFFICES ASSUME NEW i \in DOMAIN f, NEW k \in DOMAIN f, i # k
               PROVE \E m, n \in DOMAIN l : m # n /\ f[i] = l[m] /\ f[k] = l[n]
    OBVIOUS
  <2>1. Nth(I, i) # Nth(I, k)
    BY <1>5, <1>8
  <2> QED BY <1>6, <1>8, <2>1
<1>12. Elements(f) = Elements(l) \cap K
  BY <1>9, <1>10
<1> HIDE DEF f, I
<1> QED BY <1>1, <1>7, <1>11, <1>12

\* The entries of a list are of its type.
LEMMA ElementsType ==
    ASSUME NEW S, NEW l \in Seq(S)
    PROVE  Elements(l) \subseteq S /\ IsFiniteSet(Elements(l))
<1>1. DOMAIN l = 1..Len(l) /\ Len(l) \in Nat /\ \A i \in DOMAIN l : l[i] \in S
  OBVIOUS
<1>2. Elements(l) \subseteq S
  BY <1>1 DEF Elements
<1>3. IsFiniteSet(DOMAIN l)
  BY <1>1, FS_Interval
<1> DEFINE f == [i \in DOMAIN l |-> l[i]]
<1>4. f \in Surjection(DOMAIN l, Elements(l))
  BY DEF Surjection, Elements
<1> HIDE DEF f
<1> QED BY <1>2, <1>3, <1>4, FS_Surjection

\* Appending adds one entry.
LEMMA ElementsAppend ==
    ASSUME NEW S, NEW l \in Seq(S), NEW e \in S
    PROVE  /\ Append(l, e) \in Seq(S)
           /\ Elements(Append(l, e)) = Elements(l) \cup {e}
           /\ DOMAIN Append(l, e) = DOMAIN l \cup {Len(l) + 1}
           /\ \A i \in DOMAIN l : Append(l, e)[i] = l[i]
           /\ Append(l, e)[Len(l) + 1] = e
<1>1. DOMAIN l = 1..Len(l) /\ Len(l) \in Nat
  OBVIOUS
<1> DEFINE t == Append(l, e)
<1>2. t \in Seq(S) /\ DOMAIN t = 1..(Len(l) + 1)
  OBVIOUS
<1>3. DOMAIN t = DOMAIN l \cup {Len(l) + 1}
  BY <1>1, <1>2
<1>4. \A i \in DOMAIN l : t[i] = l[i]
  BY <1>1
<1>5. t[Len(l) + 1] = e
  BY <1>1
<1> HIDE DEF t
<1>6. Elements(t) = Elements(l) \cup {e}
  BY <1>3, <1>4, <1>5 DEF Elements
<1> QED BY <1>2, <1>3, <1>4, <1>5, <1>6 DEF t

-----------------------------------------------------------------------------
(* Records. *)

\* The games of a record are games of the library, finitely many.
LEMMA GamesType ==
    ASSUME NEW s \in Record, NEW n \in Time
    PROVE  /\ Elements(s.picks) \subseteq Pick /\ IsFiniteSet(Elements(s.picks))
           /\ Stored(s) \subseteq App
           /\ Allowed(s) \subseteq App /\ IsFiniteSet(Allowed(s))
           /\ ActiveApps(s, n) \subseteq Stored(s) /\ IsFiniteSet(ActiveApps(s, n))
           /\ Active(s, n) \subseteq Elements(s.picks) /\ IsFiniteSet(Active(s, n))
<1>1. s.picks \in Seq(Pick) /\ s.current \in App \cup {NoApp}
  BY DEF Record
<1>2. Elements(s.picks) \subseteq Pick /\ IsFiniteSet(Elements(s.picks))
  BY <1>1, ElementsType
<1>3. Stored(s) \subseteq App
  BY <1>2 DEF Stored, Pick
<1>4. Allowed(s) \subseteq App
  BY <1>1, <1>3 DEF Allowed
<1>5. Active(s, n) \subseteq Elements(s.picks)
  BY DEF Active
<1>6. ActiveApps(s, n) \subseteq Stored(s)
  BY <1>5 DEF ActiveApps, Stored
<1>7. IsFiniteSet(App)
  BY RulesAssumption
<1>8. IsFiniteSet(Allowed(s))
  BY <1>4, <1>7, FS_Subset
<1>9. ActiveApps(s, n) \subseteq App
  BY <1>3, <1>6
<1>10. IsFiniteSet(ActiveApps(s, n))
  BY <1>7, <1>9, FS_Subset
<1>11. IsFiniteSet(Active(s, n))
  BY <1>2, <1>5, FS_Subset
<1> QED BY <1>2, <1>3, <1>4, <1>5, <1>6, <1>8, <1>10, <1>11

\* There are no more locked games than locked picks.
LEMMA LocksByPicks ==
    ASSUME NEW s \in Record, NEW n \in Time
    PROVE  Cardinality(ActiveApps(s, n)) <= Cardinality(Active(s, n))
<1> DEFINE f == [e \in Active(s, n) |-> e.app]
<1>1. f \in Surjection(Active(s, n), ActiveApps(s, n))
  BY DEF Surjection, ActiveApps
<1> HIDE DEF f
<1> QED BY <1>1, GamesType, FS_Surjection

\* A record with no more locks and no more allowed games than a well-formed one.
LEMMA Shrink ==
    ASSUME NEW s \in Record, NEW t \in Record, NEW n \in Time, NEW m \in Time,
           WellFormed(s, n),
           OneEntryPerGame(t), NoneMeansNoPicks(t),
           ActiveApps(t, m) \subseteq ActiveApps(s, n), Allowed(t) \subseteq Allowed(s)
    PROVE  WellFormed(t, m)
<1>1. /\ Cardinality(ActiveApps(t, m)) <= Cardinality(ActiveApps(s, n))
      /\ Cardinality(Allowed(t)) <= Cardinality(Allowed(s))
  BY GamesType, FS_Subset
<1>2. /\ Cardinality(ActiveApps(t, m)) \in Nat /\ Cardinality(ActiveApps(s, n)) \in Nat
      /\ Cardinality(Allowed(t)) \in Nat /\ Cardinality(Allowed(s)) \in Nat
  BY GamesType, FS_CardinalityType
<1>3. MaxPicks \in Nat
  BY RulesAssumption
<1>4. Cardinality(ActiveApps(s, n)) <= MaxPicks /\ Cardinality(Allowed(s)) <= MaxPicks + 1
  BY DEF WellFormed, LocksInCap, GamesInCap
<1>5. LocksInCap(t, m) /\ GamesInCap(t)
  BY <1>1, <1>2, <1>3, <1>4 DEF LocksInCap, GamesInCap
<1> QED BY <1>5 DEF WellFormed

\* The record of a new installation.
LEMMA FreshFacts ==
    /\ Fresh \in Record
    /\ \A n \in Time : WellFormed(Fresh, n)
<1>1. Fresh \in Record
  BY DEF Fresh, Record, Time, NoTime
<1>2. SUFFICES ASSUME NEW n \in Time PROVE WellFormed(Fresh, n)
  BY <1>1
<1>3. Elements(Fresh.picks) = {} /\ DOMAIN Fresh.picks = {}
  BY DEF Fresh, Elements
<1>4. Allowed(Fresh) = {} /\ ActiveApps(Fresh, n) = {}
  BY <1>3 DEF Allowed, Stored, ActiveApps, Active, Fresh
<1>5. Cardinality({}) = 0 /\ MaxPicks \in Nat
  BY FS_EmptySet, RulesAssumption
<1>6. LocksInCap(Fresh, n) /\ GamesInCap(Fresh)
  BY <1>4, <1>5 DEF LocksInCap, GamesInCap
<1>7. OneEntryPerGame(Fresh)
  BY <1>3 DEF OneEntryPerGame
<1>8. NoneMeansNoPicks(Fresh)
  BY <1>3 DEF NoneMeansNoPicks, Stored
<1> QED BY <1>6, <1>7, <1>8 DEF WellFormed

\* Time only unlocks.
LEMMA TickFacts ==
    ASSUME NEW s \in Record, NEW n \in Time, WellFormed(s, n)
    PROVE  WellFormed(s, n + 1)
<1>1. n + 1 \in Time
  BY DEF Time
<1>2. ActiveApps(s, n + 1) \subseteq ActiveApps(s, n)
  <2> SUFFICES ASSUME NEW e \in Elements(s.picks), IsActive(s, e, n + 1) PROVE IsActive(s, e, n)
    BY DEF ActiveApps, Active
  <2>1. e.started \in Nat /\ n \in Nat /\ LockDays \in Nat
    BY GamesType, RulesAssumption DEF Pick, Time
  <2> QED BY <2>1 DEF IsActive
<1> QED BY <1>1, <1>2, Shrink DEF WellFormed

-----------------------------------------------------------------------------
(* The functions that only take away. *)

\* Skip changes nothing but a cooldown.
LEMMA SkipFacts ==
    ASSUME NEW s \in Record, NEW a \in App, NEW u \in Time, NEW n \in Time
    PROVE  /\ Skip(s, a, u) \in Record
           /\ Skip(s, a, u).picks = s.picks /\ Skip(s, a, u).current = s.current
           /\ Skip(s, a, u).finished = s.finished
           /\ Allowed(Skip(s, a, u)) = Allowed(s)
           /\ WellFormed(s, n) => WellFormed(Skip(s, a, u), n)
<1> DEFINE t == Skip(s, a, u)
<1>1. t \in Record
  BY DEF Skip, Record
<1>2. t.picks = s.picks /\ t.current = s.current /\ t.finished = s.finished
  BY DEF Skip, Record
<1> HIDE DEF t
<1>3. Allowed(t) = Allowed(s)
  BY <1>2 DEF Allowed, Stored
<1>4. ActiveApps(t, n) = ActiveApps(s, n)
  BY <1>2 DEF ActiveApps, Active, IsActive
<1>5. OneEntryPerGame(s) => OneEntryPerGame(t)
  BY <1>2 DEF OneEntryPerGame
<1>6. NoneMeansNoPicks(s) => NoneMeansNoPicks(t)
  BY <1>2 DEF NoneMeansNoPicks, Stored
<1>7. ASSUME WellFormed(s, n) PROVE WellFormed(t, n)
  BY <1>1, <1>3, <1>4, <1>5, <1>6, <1>7, Shrink DEF WellFormed
<1> QED BY <1>1, <1>2, <1>3, <1>7 DEF t

\* What release_game leaves of record s in t: the fields, and each entry in its place.
Releases(s, t, D, n, C) ==
    /\ t.current = s.current /\ t.finished = s.finished \cup (D \cap C) /\ t.assigned = s.assigned
    /\ t.picks = Stamped(s.picks, D)
    /\ t.skipped = Cooled(s.skipped, D, n + ReleaseDays)
    /\ t = [current |-> t.current, assigned |-> t.assigned, picks |-> t.picks,
            finished |-> t.finished, skipped |-> t.skipped]
    /\ DOMAIN t.picks = DOMAIN s.picks
    /\ \A i \in DOMAIN s.picks :
          /\ t.picks[i] \in Pick
          /\ t.picks[i].app = s.picks[i].app /\ t.picks[i].started = s.picks[i].started
          /\ s.picks[i].released => t.picks[i].released
          /\ s.picks[i].app \notin D => t.picks[i] = s.picks[i]

\* That is what it leaves.
LEMMA ReleaseShape ==
    ASSUME NEW s \in Record, NEW D \in SUBSET App, NEW n \in Time, NEW C
    PROVE  Releases(s, Release(s, D, n, C), D, n, C)
<1> DEFINE t == Release(s, D, n, C)
<1>0. /\ s.picks \in Seq(Pick) /\ s.finished \in SUBSET App /\ s.skipped \in [App -> Time]
      /\ s.current \in App \cup {NoApp} /\ s.assigned \in Time
  BY DEF Record
<1>1. /\ t.current = s.current /\ t.finished = s.finished \cup (D \cap C) /\ t.assigned = s.assigned
      /\ t.picks = Stamped(s.picks, D)
      /\ t.skipped = Cooled(s.skipped, D, n + ReleaseDays)
      /\ t = [current |-> t.current, assigned |-> t.assigned, picks |-> t.picks,
              finished |-> t.finished, skipped |-> t.skipped]
  <2> DEFINE F == s.finished \cup (D \cap C)
  <2> DEFINE P == Stamped(s.picks, D)
  <2> DEFINE W == Cooled(s.skipped, D, n + ReleaseDays)
  <2>1. t = [s EXCEPT !.finished = F, !.picks = P, !.skipped = W]
    BY DEF Release
  <2> HIDE DEF t, F, P, W
  <2>2. /\ t.current = s.current /\ t.finished = F /\ t.assigned = s.assigned
        /\ t.picks = P /\ t.skipped = W
        /\ t = [current |-> t.current, assigned |-> t.assigned, picks |-> t.picks,
                finished |-> t.finished, skipped |-> t.skipped]
    BY <2>1 DEF Record
  <2> QED BY <2>2 DEF F, P, W
<1>2. DOMAIN s.picks = 1..Len(s.picks) /\ Len(s.picks) \in Nat
      /\ \A i \in DOMAIN s.picks : s.picks[i] \in Pick
  BY <1>0
<1> HIDE DEF t
<1>3. DOMAIN t.picks = DOMAIN s.picks
  BY <1>1 DEF Stamped
<1>4. \A i \in DOMAIN s.picks :
        /\ t.picks[i] \in Pick
        /\ t.picks[i].app = s.picks[i].app /\ t.picks[i].started = s.picks[i].started
        /\ s.picks[i].released => t.picks[i].released
        /\ s.picks[i].app \notin D => t.picks[i] = s.picks[i]
  <2> SUFFICES ASSUME NEW i \in DOMAIN s.picks
               PROVE  /\ t.picks[i] \in Pick
                      /\ t.picks[i].app = s.picks[i].app /\ t.picks[i].started = s.picks[i].started
                      /\ s.picks[i].released => t.picks[i].released
                      /\ s.picks[i].app \notin D => t.picks[i] = s.picks[i]
    OBVIOUS
  <2>1. t.picks[i] = [s.picks[i] EXCEPT !.released = @ \/ s.picks[i].app \in D]
    BY <1>1 DEF Stamped
  <2>2. s.picks[i] \in Pick
    BY <1>2
  <2> QED BY <2>1, <2>2 DEF Pick
<1>5. Releases(s, t, D, n, C)
  BY <1>1, <1>3, <1>4 DEF Releases
<1> QED BY <1>5 DEF t

\* Release marks picks; it removes none.
LEMMA ReleaseFacts ==
    ASSUME NEW s \in Record, NEW D \in SUBSET App, NEW n \in Time, NEW C
    PROVE  /\ Release(s, D, n, C) \in Record
           /\ Release(s, D, n, C).current = s.current
           /\ Allowed(Release(s, D, n, C)) = Allowed(s)
           /\ WellFormed(s, n) => WellFormed(Release(s, D, n, C), n)
<1> DEFINE t == Release(s, D, n, C)
<1>0. /\ s.picks \in Seq(Pick) /\ s.finished \in SUBSET App /\ s.skipped \in [App -> Time]
      /\ s.current \in App \cup {NoApp} /\ s.assigned \in Time
  BY DEF Record
<1>r. Releases(s, t, D, n, C)
  BY ReleaseShape
<1> HIDE DEF t
<1>1. /\ t.current = s.current /\ t.finished = s.finished \cup (D \cap C) /\ t.assigned = s.assigned
      /\ t.picks = Stamped(s.picks, D)
      /\ t.skipped = Cooled(s.skipped, D, n + ReleaseDays)
      /\ t = [current |-> t.current, assigned |-> t.assigned, picks |-> t.picks,
              finished |-> t.finished, skipped |-> t.skipped]
  BY <1>r DEF Releases
<1>2. DOMAIN s.picks = 1..Len(s.picks) /\ Len(s.picks) \in Nat
      /\ \A i \in DOMAIN s.picks : s.picks[i] \in Pick
  BY <1>0
<1>3. DOMAIN t.picks = DOMAIN s.picks
  BY <1>r DEF Releases
<1>4. \A i \in DOMAIN s.picks :
        /\ t.picks[i] \in Pick
        /\ t.picks[i].app = s.picks[i].app /\ t.picks[i].started = s.picks[i].started
        /\ s.picks[i].released => t.picks[i].released
  BY <1>r DEF Releases
<1>5. t.picks \in Seq(Pick)
  <2>1. t.picks \in [1..Len(s.picks) -> Pick]
    <3>1. t.picks = [i \in DOMAIN t.picks |-> t.picks[i]]
      BY <1>1 DEF Stamped
    <3> QED BY <1>2, <1>3, <1>4, <3>1
  <2> QED BY <1>2, <2>1
<1>6. t.skipped \in [App -> Time]
  <2>1. n + ReleaseDays \in Time
    BY RulesAssumption DEF Time
  <2> QED BY <1>0, <1>1, <2>1 DEF Cooled
<1>7. t \in Record
  <2>1. t.finished \in SUBSET App
    BY <1>0, <1>1
  <2> QED BY <1>0, <1>1, <1>5, <1>6, <2>1 DEF Record
<1>8. Stored(t) = Stored(s)
  BY <1>3, <1>4 DEF Stored, Elements
<1>9. Allowed(t) = Allowed(s)
  BY <1>1, <1>8 DEF Allowed
<1>10. ActiveApps(t, n) \subseteq ActiveApps(s, n)
  <2> SUFFICES ASSUME NEW i \in DOMAIN t.picks, IsActive(t, t.picks[i], n)
               PROVE t.picks[i].app \in ActiveApps(s, n)
    BY DEF ActiveApps, Active, Elements
  <2>1. IsActive(s, s.picks[i], n)
    BY <1>1, <1>3, <1>4 DEF IsActive
  <2> QED BY <1>3, <1>4, <2>1 DEF ActiveApps, Active, Elements
<1>11. OneEntryPerGame(s) => OneEntryPerGame(t)
  BY <1>3, <1>4 DEF OneEntryPerGame
<1>12. NoneMeansNoPicks(s) => NoneMeansNoPicks(t)
  BY <1>1, <1>8 DEF NoneMeansNoPicks
<1>13. ASSUME WellFormed(s, n) PROVE WellFormed(t, n)
  BY <1>7, <1>9, <1>10, <1>11, <1>12, <1>13, Shrink DEF WellFormed
<1> QED BY <1>1, <1>7, <1>9, <1>13 DEF t

\* The record with some of its picks: the other games are not stored any more.
LEMMA SomePicks ==
    ASSUME NEW s \in Record, NEW K, NEW n \in Time
    PROVE  LET t == [s EXCEPT !.picks = Only(@, K)] IN
           /\ t \in Record
           /\ t.current = s.current /\ t.assigned = s.assigned /\ t.finished = s.finished
           /\ Elements(t.picks) = Elements(s.picks) \cap K
           /\ Active(t, n) = Active(s, n) \cap K
           /\ OneEntryPerGame(s) => OneEntryPerGame(t)
<1> DEFINE t == [s EXCEPT !.picks = Only(@, K)]
<1>1. s.picks \in Seq(Pick)
  BY DEF Record
<1>2. Only(s.picks, K) \in Seq(Pick)
  BY <1>1, OnlyFacts
<1>3. /\ t.picks = Only(s.picks, K) /\ t.current = s.current /\ t.assigned = s.assigned
      /\ t.finished = s.finished /\ t \in Record
  BY <1>2 DEF Record
<1> HIDE DEF t
<1>4. Elements(t.picks) = Elements(s.picks) \cap K
  BY <1>1, <1>3, OnlyFacts
<1>5. Active(t, n) = Active(s, n) \cap K
  BY <1>3, <1>4 DEF Active, IsActive
<1>6. ASSUME OneEntryPerGame(s) PROVE OneEntryPerGame(t)
  <2> SUFFICES ASSUME NEW i \in DOMAIN t.picks, NEW k \in DOMAIN t.picks, i # k
               PROVE t.picks[i].app # t.picks[k].app
    BY DEF OneEntryPerGame
  <2>1. PICK m, o \in DOMAIN s.picks : m # o /\ t.picks[i] = s.picks[m] /\ t.picks[k] = s.picks[o]
    BY <1>1, <1>3, OnlyFacts
  <2> QED BY <1>6, <2>1 DEF OneEntryPerGame
<1> QED BY <1>3, <1>4, <1>5, <1>6 DEF t

\* Without: the game is not stored any more.
LEMMA WithoutFacts ==
    ASSUME NEW s \in Record, NEW a \in App, NEW n \in Time
    PROVE  /\ Without(s, a) \in Record
           /\ Without(s, a).current = s.current
           /\ Stored(Without(s, a)) = Stored(s) \ {a}
           /\ Active(Without(s, a), n) \subseteq Active(s, n)
           /\ ActiveApps(Without(s, a), n) = ActiveApps(s, n) \ {a}
           /\ OneEntryPerGame(s) => OneEntryPerGame(Without(s, a))
<1> DEFINE K == {e \in Elements(s.picks) : e.app # a}
<1> DEFINE t == [s EXCEPT !.picks = Only(@, K)]
<1>1. Without(s, a) = t
  BY DEF Without
<1>2. /\ t \in Record /\ t.current = s.current
      /\ Elements(t.picks) = Elements(s.picks) \cap K
      /\ Active(t, n) = Active(s, n) \cap K
      /\ OneEntryPerGame(s) => OneEntryPerGame(t)
  <2> HIDE DEF K
  <2> QED BY SomePicks
<1> HIDE DEF t
<1>3. Stored(t) = Stored(s) \ {a}
  BY <1>2 DEF Stored
<1>4. ActiveApps(t, n) = ActiveApps(s, n) \ {a}
  BY <1>2 DEF ActiveApps, Active
<1>5. Active(t, n) \subseteq Active(s, n)
  BY <1>2
<1> QED BY <1>1, <1>2, <1>3, <1>4, <1>5

\* DropInactive: what is stored afterwards is locked.
LEMMA DropFacts ==
    ASSUME NEW s \in Record, NEW n \in Time
    PROVE  /\ DropInactive(s, n) \in Record
           /\ Stored(DropInactive(s, n)) = ActiveApps(s, n)
           /\ ActiveApps(DropInactive(s, n), n) = ActiveApps(s, n)
           /\ OneEntryPerGame(s) => OneEntryPerGame(DropInactive(s, n))
<1> DEFINE t == [s EXCEPT !.picks = Only(@, Active(s, n))]
<1>1. DropInactive(s, n) = t
  BY DEF DropInactive
<1>2. /\ t \in Record
      /\ Elements(t.picks) = Elements(s.picks) \cap Active(s, n)
      /\ Active(t, n) = Active(s, n) \cap Active(s, n)
      /\ OneEntryPerGame(s) => OneEntryPerGame(t)
  BY SomePicks
<1> HIDE DEF t
<1>3. Elements(t.picks) = Active(s, n) /\ Active(t, n) = Active(s, n)
  BY <1>2 DEF Active
<1>4. Stored(t) = ActiveApps(s, n) /\ ActiveApps(t, n) = ActiveApps(s, n)
  BY <1>3 DEF Stored, ActiveApps
<1> QED BY <1>1, <1>2, <1>4

\* Assign changes nothing but the assignment.
LEMMA AssignFacts ==
    ASSUME NEW s \in Record, NEW a \in App \cup {NoApp}, NEW u \in Time, NEW n \in Time
    PROVE  /\ Assign(s, a, u) \in Record
           /\ Assign(s, a, u).current = a
           /\ Assign(s, a, u).picks = s.picks
           /\ Allowed(Assign(s, a, u)) = Stored(s) \cup ({a} \ {NoApp})
           /\ ActiveApps(Assign(s, a, u), n) = ActiveApps(s, n)
           /\ OneEntryPerGame(s) => OneEntryPerGame(Assign(s, a, u))
<1> DEFINE t == Assign(s, a, u)
<1>1. t \in Record
  BY DEF Assign, Record
<1>2. t.picks = s.picks /\ t.current = a /\ t.finished = s.finished
  BY DEF Assign, Record
<1> HIDE DEF t
<1>3. Allowed(t) = Stored(s) \cup ({a} \ {NoApp})
  BY <1>2 DEF Allowed, Stored
<1>4. ActiveApps(t, n) = ActiveApps(s, n)
  BY <1>2 DEF ActiveApps, Active, IsActive
<1>5. OneEntryPerGame(s) => OneEntryPerGame(t)
  BY <1>2 DEF OneEntryPerGame
<1> QED BY <1>1, <1>2, <1>3, <1>4, <1>5 DEF t

\* abandon_manual_pick takes a game away, and hands the assignment over.
LEMMA SurvivorFacts ==
    ASSUME NEW s \in Record, NEW n \in Time, s.picks # <<>>
    PROVE  Survivor(s, n) \in Pick /\ Survivor(s, n).app \in Stored(s)
<1> DEFINE active == Only(s.picks, Active(s, n))
<1> DEFINE heirs == IF active = <<>> THEN s.picks ELSE active
<1>1. s.picks \in Seq(Pick)
  BY DEF Record
<1>2. active \in Seq(Pick) /\ Elements(active) \subseteq Elements(s.picks)
  BY <1>1, OnlyFacts
<1>3. Survivor(s, n) = heirs[Len(heirs)]
  BY DEF Survivor
<1> HIDE DEF active
<1>4. heirs \in Seq(Pick) /\ heirs # <<>> /\ Elements(heirs) \subseteq Elements(s.picks)
  BY <1>1, <1>2
<1> HIDE DEF heirs
<1>5. Len(heirs) \in DOMAIN heirs
  BY <1>4
<1>6. Survivor(s, n) \in Elements(s.picks)
  BY <1>3, <1>4, <1>5 DEF Elements
<1> QED BY <1>6, GamesType DEF Stored

LEMMA AbandonFacts ==
    ASSUME NEW s \in Record, NEW a \in App, NEW n \in Time
    PROVE  /\ Abandon(s, a, n) \in Record
           /\ WellFormed(s, n) => WellFormed(Abandon(s, a, n), n)
<1> DEFINE w == Without(s, a)
<1> DEFINE r == Skip(w, a, n + AbandonDays)
<1> DEFINE t == Abandon(s, a, n)
<1> DEFINE v == Survivor(r, n)
<1>1. n + AbandonDays \in Time
  BY RulesAssumption DEF Time
<1>2. t = IF s.current # a THEN r
          ELSE IF r.picks = <<>> THEN Assign(r, NoApp, NoTime) ELSE Assign(r, v.app, v.started)
  BY DEF Abandon
<1>3. /\ w \in Record /\ w.current = s.current /\ Stored(w) \subseteq Stored(s)
      /\ ActiveApps(w, n) \subseteq ActiveApps(s, n)
      /\ OneEntryPerGame(s) => OneEntryPerGame(w)
  BY WithoutFacts
<1> HIDE DEF w
<1>4. /\ r \in Record /\ r.picks = w.picks /\ r.current = w.current /\ r.finished = w.finished
  BY <1>1, <1>3, SkipFacts
<1> HIDE DEF r
<1>5. /\ Stored(r) \subseteq Stored(s) /\ r.current = s.current
      /\ ActiveApps(r, n) \subseteq ActiveApps(s, n)
      /\ OneEntryPerGame(s) => OneEntryPerGame(r)
  <2>1. Stored(r) = Stored(w) /\ ActiveApps(r, n) = ActiveApps(w, n)
    BY <1>4 DEF Stored, ActiveApps, Active, IsActive
  <2>2. OneEntryPerGame(w) => OneEntryPerGame(r)
    BY <1>4 DEF OneEntryPerGame
  <2> QED BY <1>3, <1>4, <2>1, <2>2
<1>6. r.picks # <<>> => v \in Pick /\ v.app \in Stored(r)
  BY <1>4, SurvivorFacts
<1> HIDE DEF v, t
<1>7. CASE s.current # a
  <2>1. t = r
    BY <1>2, <1>7
  <2>2. Allowed(r) \subseteq Allowed(s)
    BY <1>5 DEF Allowed
  <2>3. NoneMeansNoPicks(s) => NoneMeansNoPicks(r)
    BY <1>5 DEF NoneMeansNoPicks
  <2> QED BY <1>4, <1>5, <2>1, <2>2, <2>3, Shrink DEF WellFormed, t
<1>8. CASE s.current = a /\ r.picks = <<>>
  <2>1. t = Assign(r, NoApp, NoTime) /\ NoTime \in Time
    BY <1>2, <1>8 DEF Time, NoTime
  <2>2. /\ t \in Record /\ t.picks = r.picks /\ Allowed(t) = Stored(r) \cup ({NoApp} \ {NoApp})
        /\ ActiveApps(t, n) = ActiveApps(r, n)
        /\ OneEntryPerGame(r) => OneEntryPerGame(t)
    BY <1>4, <2>1, AssignFacts
  <2>3. Allowed(t) \subseteq Allowed(s)
    BY <1>5, <2>2 DEF Allowed
  <2>4. NoneMeansNoPicks(t)
    BY <1>8, <2>2 DEF NoneMeansNoPicks, Stored, Elements
  <2> QED BY <1>5, <2>2, <2>3, <2>4, Shrink DEF WellFormed, t
<1>9. CASE s.current = a /\ r.picks # <<>>
  <2>1. t = Assign(r, v.app, v.started)
    BY <1>2, <1>9
  <2>2. v.app \in App /\ v.started \in Time /\ v.app \in Stored(r) /\ v.app # NoApp
    BY <1>6, <1>9, RulesAssumption DEF Pick
  <2>3. /\ t \in Record /\ t.current = v.app /\ Allowed(t) = Stored(r) \cup ({v.app} \ {NoApp})
        /\ ActiveApps(t, n) = ActiveApps(r, n)
        /\ OneEntryPerGame(r) => OneEntryPerGame(t)
    BY <1>4, <2>1, <2>2, AssignFacts
  <2>4. Allowed(t) \subseteq Allowed(s)
    BY <1>5, <2>2, <2>3 DEF Allowed
  <2>5. NoneMeansNoPicks(t)
    BY <2>2, <2>3 DEF NoneMeansNoPicks
  <2> QED BY <1>5, <2>3, <2>4, <2>5, Shrink DEF WellFormed, t
<1> QED BY <1>7, <1>8, <1>9 DEF t

\* cmd_reset.
LEMMA ResetFacts ==
    ASSUME NEW s \in Record, NEW n \in Time
    PROVE  Reset(s) \in Record /\ WellFormed(Reset(s), n)
<1> DEFINE t == Reset(s)
<1>1. t \in Record
  BY FreshFacts DEF Reset, Record
<1>2. t.picks = Fresh.picks /\ t.current = Fresh.current /\ t.finished = Fresh.finished
  BY FreshFacts DEF Reset, Record
<1> HIDE DEF t
<1>3. Allowed(t) = Allowed(Fresh) /\ ActiveApps(t, n) = ActiveApps(Fresh, n)
  BY <1>2 DEF Allowed, Stored, ActiveApps, Active, IsActive
<1>4. OneEntryPerGame(t)
  BY <1>2, FreshFacts DEF WellFormed, OneEntryPerGame
<1>5. NoneMeansNoPicks(t)
  BY <1>2, FreshFacts DEF WellFormed, NoneMeansNoPicks, Stored
<1> QED BY <1>1, <1>3, <1>4, <1>5, FreshFacts, Shrink DEF t

-----------------------------------------------------------------------------
(* The functions that add a game. *)

\* One more game that fits: the allowed games stay under their cap.
LEMMA OneMore ==
    ASSUME NEW s \in Record, NEW t \in Record, NEW a \in App, NEW n \in Time,
           GamesInCap(s), Fits(s, a) \/ Fits(s, NoApp),
           Allowed(t) \subseteq Allowed(s) \cup {a}
    PROVE  GamesInCap(t)
<1>1. IsFiniteSet(Allowed(s)) /\ Cardinality(Allowed(s)) \in Nat /\ Cardinality(Allowed(t)) \in Nat
      /\ NoApp \notin Allowed(s) /\ MaxPicks \in Nat
  BY GamesType, FS_CardinalityType, RulesAssumption
<1>2. /\ IsFiniteSet(Allowed(s) \cup {a})
      /\ Cardinality(Allowed(s) \cup {a}) =
           IF a \in Allowed(s) THEN Cardinality(Allowed(s)) ELSE Cardinality(Allowed(s)) + 1
  BY <1>1, FS_AddElement
<1>3. Cardinality(Allowed(t)) <= Cardinality(Allowed(s) \cup {a})
  BY <1>2, FS_Subset
<1> QED BY <1>1, <1>2, <1>3 DEF GamesInCap, Fits

\* A pick is appended.
LEMMA AppendPick ==
    ASSUME NEW s \in Record, NEW e \in Pick, NEW n \in Time
    PROVE  LET t == [s EXCEPT !.picks = Append(@, e)] IN
           /\ t \in Record /\ t.current = s.current
           /\ Stored(t) = Stored(s) \cup {e.app}
           /\ ActiveApps(t, n) \subseteq ActiveApps(s, n) \cup {e.app}
           /\ e.released => ActiveApps(t, n) = ActiveApps(s, n)
           /\ OneEntryPerGame(s) /\ e.app \notin Stored(s) => OneEntryPerGame(t)
<1> DEFINE t == [s EXCEPT !.picks = Append(@, e)]
<1>1. s.picks \in Seq(Pick)
  BY DEF Record
<1>2. /\ Append(s.picks, e) \in Seq(Pick)
      /\ Elements(Append(s.picks, e)) = Elements(s.picks) \cup {e}
      /\ DOMAIN Append(s.picks, e) = DOMAIN s.picks \cup {Len(s.picks) + 1}
      /\ \A i \in DOMAIN s.picks : Append(s.picks, e)[i] = s.picks[i]
      /\ Append(s.picks, e)[Len(s.picks) + 1] = e
  BY <1>1, ElementsAppend
<1>3. t \in Record /\ t.current = s.current /\ t.finished = s.finished /\ t.picks = Append(s.picks, e)
  BY <1>2 DEF Record
<1> HIDE DEF t
<1>4. Elements(t.picks) = Elements(s.picks) \cup {e}
  BY <1>2, <1>3
<1>5. Stored(t) = Stored(s) \cup {e.app}
  BY <1>4 DEF Stored
<1>6. Active(t, n) = Active(s, n) \cup {x \in {e} : IsActive(s, x, n)}
  BY <1>3, <1>4 DEF Active, IsActive
<1>7. ActiveApps(t, n) \subseteq ActiveApps(s, n) \cup {e.app}
  BY <1>6 DEF ActiveApps
<1>8. e.released => ActiveApps(t, n) = ActiveApps(s, n)
  BY <1>6 DEF ActiveApps, IsActive
<1>9. ASSUME OneEntryPerGame(s), e.app \notin Stored(s) PROVE OneEntryPerGame(t)
  <2>1. \A i \in DOMAIN s.picks : s.picks[i].app # e.app
    BY <1>9 DEF Stored, Elements
  <2> QED BY <1>2, <1>3, <1>9, <2>1 DEF OneEntryPerGame
<1> QED BY <1>3, <1>5, <1>7, <1>8, <1>9 DEF t

\* Park: the assigned game is stored and nothing gets locked.
LEMMA ParkFacts ==
    ASSUME NEW s \in Record, NEW n \in Time
    PROVE  /\ Park(s, n) \in Record
           /\ Stored(Park(s, n)) = Stored(s) \cup ({s.current} \ {NoApp})
           /\ ActiveApps(Park(s, n), n) = ActiveApps(s, n)
           /\ OneEntryPerGame(s) => OneEntryPerGame(Park(s, n))
<1>1. CASE s.current = NoApp \/ s.current \in Stored(s)
  BY <1>1 DEF Park
<1>2. CASE ~(s.current = NoApp \/ s.current \in Stored(s))
  <2> DEFINE e == [app |-> s.current,
                   started |-> IF s.assigned = NoTime THEN n ELSE s.assigned, released |-> TRUE]
  <2> DEFINE t == [s EXCEPT !.picks = Append(@, e)]
  <2>1. e \in Pick /\ e.app = s.current /\ e.released
    BY <1>2 DEF Pick, Record
  <2>2. Park(s, n) = t
    BY <1>2 DEF Park
  <2> HIDE DEF e
  <2>3. /\ t \in Record /\ Stored(t) = Stored(s) \cup {e.app}
        /\ e.released => ActiveApps(t, n) = ActiveApps(s, n)
        /\ OneEntryPerGame(s) /\ e.app \notin Stored(s) => OneEntryPerGame(t)
    BY <2>1, AppendPick
  <2> HIDE DEF t
  <2> QED BY <1>2, <2>1, <2>2, <2>3
<1> QED BY <1>1, <1>2

\* _assign_chosen_game without keep: what is left is what is locked, and the game.
LEMMA ReplaceFacts ==
    ASSUME NEW s \in Record, NEW a \in App, NEW n \in Time
    PROVE  /\ Replace(s, a, n) \in Record
           /\ WellFormed(s, n) => WellFormed(Replace(s, a, n), n)
<1> DEFINE d == DropInactive(s, n)
<1> DEFINE t == Replace(s, a, n)
<1>1. /\ d \in Record /\ Stored(d) = ActiveApps(s, n) /\ ActiveApps(d, n) = ActiveApps(s, n)
      /\ OneEntryPerGame(s) => OneEntryPerGame(d)
  BY DropFacts
<1>2. t = Assign(d, a, n)
  BY DEF Replace
<1> HIDE DEF d, t
<1>3. /\ t \in Record /\ t.current = a /\ Allowed(t) = Stored(d) \cup ({a} \ {NoApp})
      /\ ActiveApps(t, n) = ActiveApps(d, n)
      /\ OneEntryPerGame(d) => OneEntryPerGame(t)
  BY <1>1, <1>2, AssignFacts
<1>4. ASSUME WellFormed(s, n) PROVE WellFormed(t, n)
  <2>1. LocksInCap(t, n) /\ LocksInCap(s, n) /\ OneEntryPerGame(t)
    BY <1>1, <1>3, <1>4 DEF WellFormed, LocksInCap
  <2>2. a # NoApp /\ MaxPicks \in Nat
    BY RulesAssumption
  <2>3. NoneMeansNoPicks(t)
    BY <1>3, <2>2 DEF NoneMeansNoPicks
  <2>4. Allowed(t) = ActiveApps(s, n) \cup {a}
    BY <1>1, <1>3, <2>2
  <2>5. /\ IsFiniteSet(ActiveApps(s, n)) /\ Cardinality(ActiveApps(s, n)) \in Nat
    BY GamesType, FS_CardinalityType
  <2>6. Cardinality(Allowed(t)) =
          IF a \in ActiveApps(s, n) THEN Cardinality(ActiveApps(s, n)) ELSE Cardinality(ActiveApps(s, n)) + 1
    BY <2>4, <2>5, FS_AddElement
  <2>7. GamesInCap(t)
    BY <2>1, <2>2, <2>5, <2>6 DEF GamesInCap, LocksInCap
  <2> QED BY <2>1, <2>3, <2>7 DEF WellFormed
<1> QED BY <1>3, <1>4 DEF t

\* _assign_chosen_game with keep, for a record one more game fits in.
LEMMA KeepFacts ==
    ASSUME NEW s \in Record, NEW a \in App, NEW n \in Time
    PROVE  /\ Keep(s, a, n) \in Record
           /\ WellFormed(s, n) /\ Fits(s, NoApp) => WellFormed(Keep(s, a, n), n)
<1> DEFINE p == Park(s, n)
<1> DEFINE t == Keep(s, a, n)
<1>1. /\ p \in Record /\ Stored(p) = Stored(s) \cup ({s.current} \ {NoApp})
      /\ ActiveApps(p, n) = ActiveApps(s, n)
      /\ OneEntryPerGame(s) => OneEntryPerGame(p)
  BY ParkFacts
<1>2. t = Assign(p, a, n)
  BY DEF Keep
<1> HIDE DEF p, t
<1>3. /\ t \in Record /\ t.current = a /\ Allowed(t) = Stored(p) \cup ({a} \ {NoApp})
      /\ ActiveApps(t, n) = ActiveApps(p, n)
      /\ OneEntryPerGame(p) => OneEntryPerGame(t)
  BY <1>1, <1>2, AssignFacts
<1>4. ASSUME WellFormed(s, n), Fits(s, NoApp) PROVE WellFormed(t, n)
  <2>1. LocksInCap(t, n) /\ OneEntryPerGame(t)
    BY <1>1, <1>3, <1>4 DEF WellFormed, LocksInCap
  <2>2. NoneMeansNoPicks(t)
    BY <1>3, RulesAssumption DEF NoneMeansNoPicks
  <2>3. Allowed(t) \subseteq Allowed(s) \cup {a}
    BY <1>1, <1>3 DEF Allowed
  <2>4. GamesInCap(t)
    BY <1>3, <1>4, <2>3, OneMore DEF WellFormed
  <2> QED BY <2>1, <2>2, <2>4 DEF WellFormed
<1> QED BY <1>3, <1>4 DEF t

\* apply_manual_pick, for a pick that is not refused.
LEMMA AddPickFacts ==
    ASSUME NEW s \in Record, NEW a \in App, NEW n \in Time
    PROVE  /\ AddPick(s, a, n) \in Record
           /\ WellFormed(s, n) /\ MayPick(s, a, n) => WellFormed(AddPick(s, a, n), n)
<1> DEFINE rest == Without(s, a)
<1> DEFINE kept == IF s.current = a THEN rest ELSE Park(rest, n)
<1> DEFINE pick == [app |-> a, started |-> n, released |-> FALSE]
<1> DEFINE more == [kept EXCEPT !.picks = Append(@, pick)]
<1> DEFINE t == AddPick(s, a, n)
<1>1. t = Assign(more, a, n)
  BY DEF AddPick
<1>2. /\ rest \in Record /\ rest.current = s.current /\ Stored(rest) = Stored(s) \ {a}
      /\ ActiveApps(rest, n) = ActiveApps(s, n) \ {a}
      /\ OneEntryPerGame(s) => OneEntryPerGame(rest)
  BY WithoutFacts
<1> HIDE DEF rest
<1>3. /\ kept \in Record
      /\ Stored(kept) \subseteq Allowed(s) \ {a}
      /\ ActiveApps(kept, n) = ActiveApps(s, n) \ {a}
      /\ OneEntryPerGame(s) => OneEntryPerGame(kept)
  <2>1. CASE s.current = a
    BY <1>2, <2>1 DEF Allowed
  <2>2. CASE s.current # a
    <3>1. /\ Park(rest, n) \in Record
          /\ Stored(Park(rest, n)) = Stored(rest) \cup ({rest.current} \ {NoApp})
          /\ ActiveApps(Park(rest, n), n) = ActiveApps(rest, n)
          /\ OneEntryPerGame(rest) => OneEntryPerGame(Park(rest, n))
      BY <1>2, ParkFacts
    <3> QED BY <1>2, <2>2, <3>1 DEF Allowed
  <2> QED BY <2>1, <2>2
<1> HIDE DEF kept
<1>4. pick \in Pick /\ pick.app = a
  BY DEF Pick
<1> HIDE DEF pick
<1>5. /\ more \in Record
      /\ Stored(more) = Stored(kept) \cup {pick.app}
      /\ ActiveApps(more, n) \subseteq ActiveApps(kept, n) \cup {pick.app}
      /\ OneEntryPerGame(kept) /\ pick.app \notin Stored(kept) => OneEntryPerGame(more)
  BY <1>3, <1>4, AppendPick
<1> HIDE DEF more, t
<1>6. /\ t \in Record /\ t.current = a /\ Allowed(t) = Stored(more) \cup ({a} \ {NoApp})
      /\ ActiveApps(t, n) = ActiveApps(more, n)
      /\ OneEntryPerGame(more) => OneEntryPerGame(t)
  BY <1>1, <1>5, AssignFacts
<1>7. ASSUME WellFormed(s, n), MayPick(s, a, n) PROVE WellFormed(t, n)
  <2>1. OneEntryPerGame(t)
    BY <1>3, <1>4, <1>5, <1>6, <1>7 DEF WellFormed
  <2>2. NoneMeansNoPicks(t)
    BY <1>6, RulesAssumption DEF NoneMeansNoPicks
  <2>3. Allowed(t) \subseteq Allowed(s) \cup {a}
    BY <1>3, <1>4, <1>5, <1>6
  <2>4. GamesInCap(t)
    BY <1>6, <1>7, <2>3, OneMore DEF WellFormed, MayPick
  <2>5. ActiveApps(t, n) \subseteq ActiveApps(s, n) \cup {a}
    BY <1>3, <1>4, <1>5, <1>6
  <2>6. LocksInCap(t, n)
    <3> DEFINE L == ActiveApps(s, n)
    <3>1. /\ IsFiniteSet(L) /\ Cardinality(L) \in Nat
          /\ Cardinality(Active(s, n)) \in Nat
          /\ Cardinality(L) <= Cardinality(Active(s, n))
      BY GamesType, LocksByPicks, FS_CardinalityType
    <3>2. Cardinality(ActiveApps(t, n)) \in Nat
      BY <1>6, GamesType, FS_CardinalityType
    <3>3. Cardinality(Active(s, n)) < MaxPicks /\ MaxPicks \in Nat
      BY <1>7, RulesAssumption DEF MayPick
    <3> HIDE DEF L
    <3>4. IsFiniteSet(L \cup {a}) /\ Cardinality(L \cup {a}) \in Nat
          /\ Cardinality(L \cup {a}) <= Cardinality(L) + 1
      BY <3>1, FS_AddElement
    <3>5. Cardinality(ActiveApps(t, n)) <= Cardinality(L \cup {a})
      BY <2>5, <3>4, FS_Subset DEF L
    <3> QED BY <3>1, <3>2, <3>3, <3>4, <3>5 DEF LocksInCap
  <2> QED BY <2>1, <2>2, <2>4, <2>6 DEF WellFormed
<1> QED BY <1>6, <1>7 DEF t

-----------------------------------------------------------------------------
(* The sessions. *)

\* What a session that runs command c knows at stage g about its copy s and
\* its target a.
InStep(s, c, g, a) ==
    /\ (a # NoApp) = (c \in {"pick-manual", "abandon-pick"})
    /\ g = "load" => c # "none"
    /\ g = "sweep" => c \in {"check", "sweep", "pick-manual"}
    /\ g = "verdict" => c \in {"check", "done"} /\ s.current # NoApp
    /\ g = "offer" /\ c = "pick" => Fits(s, NoApp)
    /\ g = "confirm" => c \in {"pick-manual", "abandon-pick", "reset"}

CommandsInStep == \A p \in Session : InStep(mem[p], cmd[p], pc[p], target[p])

\* The inductive invariant.
IInv == TypeOK /\ RecordsWellFormed /\ CommandsInStep

-----------------------------------------------------------------------------
\* A step of session p preserves the invariant if what it writes does.
LEMMA OneSessionMoves ==
    ASSUME IInv, NEW p \in Session,
           NEW s \in Record, NEW c \in Command, NEW g \in Stage, NEW a \in App \cup {NoApp},
           WellFormed(s, now), InStep(s, c, g, a),
           mem' = [mem EXCEPT ![p] = s],
           cmd' = [cmd EXCEPT ![p] = c],
           pc' = [pc EXCEPT ![p] = g],
           target' = [target EXCEPT ![p] = a],
           disk' \in Record, WellFormed(disk', now),
           UNCHANGED <<now, steam>>
    PROVE  IInv'
<1>1. TypeOK /\ RecordsWellFormed /\ CommandsInStep
  BY DEF IInv
<1>2. now' = now /\ unlocked' = unlocked /\ complete' = complete
  BY DEF steam
<1>3. TypeOK'
  BY <1>1, <1>2 DEF TypeOK
<1>4. \A q \in Session :
        /\ q = p => mem'[q] = s /\ cmd'[q] = c /\ pc'[q] = g /\ target'[q] = a
        /\ q # p => mem'[q] = mem[q] /\ cmd'[q] = cmd[q] /\ pc'[q] = pc[q] /\ target'[q] = target[q]
  BY <1>1 DEF TypeOK
<1>5. RecordsWellFormed'
  <2>1. WellFormed(disk', now')
    BY <1>2
  <2>2. \A q \in Session : WellFormed(mem'[q], now')
    BY <1>1, <1>2, <1>4 DEF RecordsWellFormed
  <2> QED BY <2>1, <2>2 DEF RecordsWellFormed
<1>6. CommandsInStep'
  <2>1. \A q \in Session : InStep(mem'[q], cmd'[q], pc'[q], target'[q])
    BY <1>1, <1>4 DEF CommandsInStep
  <2> QED BY <2>1 DEF CommandsInStep
<1> QED BY <1>3, <1>5, <1>6 DEF IInv

\* What the invariant says of one session.
LEMMA OneSession ==
    ASSUME IInv, NEW p \in Session
    PROVE  /\ now \in Time /\ disk \in Record /\ WellFormed(disk, now)
           /\ mem[p] \in Record /\ WellFormed(mem[p], now)
           /\ cmd[p] \in Command /\ pc[p] \in Stage /\ target[p] \in App \cup {NoApp}
           /\ InStep(mem[p], cmd[p], pc[p], target[p])
           /\ mem = [mem EXCEPT ![p] = mem[p]] /\ cmd = [cmd EXCEPT ![p] = cmd[p]]
           /\ pc = [pc EXCEPT ![p] = pc[p]] /\ target = [target EXCEPT ![p] = target[p]]
<1>1. now \in Time /\ disk \in Record /\ WellFormed(disk, now)
  BY DEF IInv, TypeOK, RecordsWellFormed, Time
<1>2. mem[p] \in Record /\ WellFormed(mem[p], now)
  BY DEF IInv, TypeOK, RecordsWellFormed
<1>3. InStep(mem[p], cmd[p], pc[p], target[p])
  BY DEF IInv, CommandsInStep
<1> QED BY <1>1, <1>2, <1>3 DEF IInv, TypeOK

\* A command that ends: with disk' well-formed, the invariant holds.
LEMMA CommandEnds ==
    ASSUME IInv, NEW p \in Session, End(p),
           mem' = [mem EXCEPT ![p] = Fresh],
           disk' \in Record, WellFormed(disk', now), UNCHANGED <<now, steam>>
    PROVE  IInv'
<1>1. Fresh \in Record /\ WellFormed(Fresh, now)
  BY FreshFacts, OneSession
<1>2. "none" \in Command /\ "idle" \in Stage /\ InStep(Fresh, "none", "idle", NoApp)
  BY DEF Command, Stage, InStep
<1>3. /\ pc' = [pc EXCEPT ![p] = "idle"] /\ cmd' = [cmd EXCEPT ![p] = "none"]
      /\ target' = [target EXCEPT ![p] = NoApp]
  BY DEF End, GoTo
<1>4. NoApp \in App \cup {NoApp}
  OBVIOUS
<1> QED BY <1>1, <1>2, <1>3, <1>4, OneSessionMoves

\* It ends with a record saved.
LEMMA CommandSaves ==
    ASSUME IInv, NEW p \in Session, End(p), NEW s \in Record, WellFormed(s, now), Save(p, s),
           UNCHANGED <<now, steam>>
    PROVE  IInv'
BY CommandEnds DEF Save

\* It ends with nothing saved.
LEMMA CommandAborts ==
    ASSUME IInv, NEW p \in Session, EndUnsaved(p), UNCHANGED <<now, steam>>
    PROVE  IInv'
<1>1. End(p) /\ mem' = [mem EXCEPT ![p] = Fresh] /\ disk' = disk
  BY DEF EndUnsaved
<1>2. disk' \in Record /\ WellFormed(disk', now)
  BY <1>1, OneSession
<1> QED BY <1>1, <1>2, CommandEnds

-----------------------------------------------------------------------------
(* The invariant is inductive: one lemma for the steps of a session. *)

LEMMA InitIInv == Init => IInv
<1> SUFFICES ASSUME Init PROVE IInv
  OBVIOUS
<1>1. Fresh \in Record /\ 1 \in Time /\ WellFormed(Fresh, 1)
  BY FreshFacts DEF Time
<1>2. TypeOK
  BY <1>1 DEF Init, TypeOK, Command, Stage, Time, NoTime
<1>3. RecordsWellFormed
  BY <1>1 DEF Init, RecordsWellFormed
<1>4. CommandsInStep
  BY DEF Init, CommandsInStep, InStep
<1> QED BY <1>2, <1>3, <1>4 DEF IInv

LEMMA GateStep ==
    ASSUME IInv, NEW p \in Session, NEW c \in Command, NEW a \in App \cup {NoApp}, Gate(p, c, a)
    PROVE  IInv'
<1>1. /\ c # "none" /\ (a # NoApp) = (c \in {"pick-manual", "abandon-pick"})
      /\ cmd' = [cmd EXCEPT ![p] = c] /\ target' = [target EXCEPT ![p] = a]
      /\ pc' = [pc EXCEPT ![p] = "load"] /\ disk' = disk /\ mem' = mem
      /\ UNCHANGED <<now, steam>>
  BY DEF Gate, GoTo
<1>2. InStep(mem[p], c, "load", a) /\ "load" \in Stage
  BY <1>1 DEF InStep, Stage
<1>3. mem' = [mem EXCEPT ![p] = mem[p]] /\ disk' \in Record /\ WellFormed(disk', now)
      /\ mem[p] \in Record /\ WellFormed(mem[p], now)
  BY <1>1, OneSession
<1> QED BY <1>1, <1>2, <1>3, OneSessionMoves

LEMMA LoadStep ==
    ASSUME IInv, NEW p \in Session, Load(p)
    PROVE  IInv'
<1> DEFINE first == FirstStage(cmd[p], target[p], disk)
<1>1. /\ pc[p] = "load" /\ UNCHANGED <<now, steam>>
      /\ IF first = "idle" THEN EndUnsaved(p)
         ELSE /\ mem' = [mem EXCEPT ![p] = disk] /\ pc' = [pc EXCEPT ![p] = first]
              /\ UNCHANGED <<disk, cmd, target>>
  BY DEF Load, GoTo
<1>2. CASE first = "idle"
  BY <1>1, <1>2, CommandAborts
<1>3. CASE first # "idle"
  <2>1. cmd[p] \in Command /\ cmd[p] # "none"
        /\ (target[p] # NoApp) = (cmd[p] \in {"pick-manual", "abandon-pick"})
    BY <1>1, OneSession DEF InStep
  <2>2. first \in Stage /\ InStep(disk, cmd[p], first, target[p])
    BY <1>3, <2>1 DEF FirstStage, InStep, Command, Stage
  <2>3. /\ mem' = [mem EXCEPT ![p] = disk] /\ pc' = [pc EXCEPT ![p] = first]
        /\ cmd' = [cmd EXCEPT ![p] = cmd[p]] /\ target' = [target EXCEPT ![p] = target[p]]
        /\ disk' = disk
    BY <1>1, <1>3, OneSession
  <2>4. /\ disk \in Record /\ WellFormed(disk, now) /\ cmd[p] \in Command
        /\ target[p] \in App \cup {NoApp}
    BY OneSession
  <2> HIDE DEF first
  <2> QED BY <1>1, <2>2, <2>3, <2>4, OneSessionMoves
<1> QED BY <1>2, <1>3

LEMMA SweepStep ==
    ASSUME IInv, NEW p \in Session, Sweep(p)
    PROVE  IInv'
<1>1. PICK D \in SUBSET {a \in ActiveApps(mem[p], now) : Earns(mem[p], a)} :
        LET s == Release(mem[p], D, now, complete)
            next == AfterSweep(cmd[p], s) IN
        /\ disk' = IF D = {} THEN disk ELSE s
        /\ IF next = "idle" THEN End(p) /\ mem' = [mem EXCEPT ![p] = Fresh]
           ELSE GoTo(p, next) /\ mem' = [mem EXCEPT ![p] = s] /\ UNCHANGED <<cmd, target>>
  BY DEF Sweep
<1>2. pc[p] = "sweep" /\ UNCHANGED <<now, steam>>
  BY DEF Sweep
<1> DEFINE s == Release(mem[p], D, now, complete)
<1> DEFINE next == AfterSweep(cmd[p], s)
<1>3. /\ disk' = IF D = {} THEN disk ELSE s
      /\ IF next = "idle" THEN End(p) /\ mem' = [mem EXCEPT ![p] = Fresh]
         ELSE pc' = [pc EXCEPT ![p] = next] /\ mem' = [mem EXCEPT ![p] = s] /\ cmd' = cmd /\ target' = target
  BY <1>1 DEF GoTo
<1>4. /\ now \in Time /\ disk \in Record /\ WellFormed(disk, now)
      /\ mem[p] \in Record /\ WellFormed(mem[p], now)
      /\ cmd[p] \in Command /\ target[p] \in App \cup {NoApp}
      /\ InStep(mem[p], cmd[p], "sweep", target[p])
      /\ cmd = [cmd EXCEPT ![p] = cmd[p]] /\ target = [target EXCEPT ![p] = target[p]]
  BY <1>2, OneSession
<1>5. D \subseteq App
  <2>1. D \subseteq ActiveApps(mem[p], now)
    OBVIOUS
  <2>2. ActiveApps(mem[p], now) \subseteq App
    BY <1>4, GamesType
  <2> QED BY <2>1, <2>2
<1>6. s \in Record /\ WellFormed(s, now)
  BY <1>4, <1>5, ReleaseFacts
<1> HIDE DEF s
<1>7. disk' \in Record /\ WellFormed(disk', now)
  BY <1>3, <1>4, <1>6
<1>8. CASE next = "idle"
  BY <1>2, <1>3, <1>7, <1>8, CommandEnds
<1>9. CASE next # "idle"
  <2>1. next \in Stage /\ InStep(s, cmd[p], next, target[p])
    BY <1>4, <1>9 DEF AfterSweep, InStep, Stage
  <2>2. /\ pc' = [pc EXCEPT ![p] = next] /\ mem' = [mem EXCEPT ![p] = s]
        /\ cmd' = [cmd EXCEPT ![p] = cmd[p]] /\ target' = [target EXCEPT ![p] = target[p]]
    BY <1>3, <1>4, <1>9
  <2> HIDE DEF next
  <2> QED BY <1>2, <1>4, <1>6, <1>7, <2>1, <2>2, OneSessionMoves
<1> QED BY <1>8, <1>9

LEMMA VerdictStep ==
    ASSUME IInv, NEW p \in Session, Verdict(p)
    PROVE  IInv'
<1> DEFINE s == Release(mem[p], {mem[p].current}, now, complete)
<1>1. /\ pc[p] = "verdict" /\ UNCHANGED <<now, steam>>
      /\ \/ /\ mem' = [mem EXCEPT ![p] = s] /\ pc' = [pc EXCEPT ![p] = "offer"]
            /\ disk' = disk /\ cmd' = cmd /\ target' = target
         \/ EndUnsaved(p)
  BY DEF Verdict, GoTo
<1>2. CASE EndUnsaved(p)
  BY <1>1, <1>2, CommandAborts
<1>3. CASE /\ mem' = [mem EXCEPT ![p] = s] /\ pc' = [pc EXCEPT ![p] = "offer"]
           /\ disk' = disk /\ cmd' = cmd /\ target' = target
  <2>1. /\ now \in Time /\ disk \in Record /\ WellFormed(disk, now)
        /\ mem[p] \in Record /\ WellFormed(mem[p], now)
        /\ cmd[p] \in Command /\ target[p] \in App \cup {NoApp}
        /\ InStep(mem[p], cmd[p], "verdict", target[p])
        /\ cmd' = [cmd EXCEPT ![p] = cmd[p]] /\ target' = [target EXCEPT ![p] = target[p]]
    BY <1>1, <1>3, OneSession
  <2>2. {mem[p].current} \subseteq App
    BY <2>1 DEF InStep, Record
  <2>3. s \in Record /\ WellFormed(s, now)
    BY <2>1, <2>2, ReleaseFacts
  <2> HIDE DEF s
  <2>4. "offer" \in Stage /\ InStep(s, cmd[p], "offer", target[p])
    BY <2>1 DEF InStep, Stage
  <2> QED BY <1>1, <1>3, <2>1, <2>3, <2>4, OneSessionMoves
<1> QED BY <1>1, <1>2, <1>3

LEMMA NothingToOfferStep ==
    ASSUME IInv, NEW p \in Session, NothingToOffer(p)
    PROVE  IInv'
BY OneSession, CommandSaves DEF NothingToOffer

LEMMA ChooseStep ==
    ASSUME IInv, NEW p \in Session, NEW a \in App, Choose(p, a)
    PROVE  IInv'
<1>1. /\ now \in Time /\ mem[p] \in Record /\ WellFormed(mem[p], now)
      /\ cmd[p] = "pick" => Fits(mem[p], NoApp)
  BY OneSession DEF Choose, InStep
<1>2. End(p) /\ UNCHANGED <<now, steam>>
  BY DEF Choose
<1>3. CASE cmd[p] = "pick"
  <2>1. Save(p, Keep(mem[p], a, now))
    BY <1>3 DEF Choose
  <2>2. Keep(mem[p], a, now) \in Record /\ WellFormed(Keep(mem[p], a, now), now)
    BY <1>1, <1>3, KeepFacts
  <2> QED BY <1>2, <2>1, <2>2, CommandSaves
<1>4. CASE cmd[p] # "pick"
  <2>1. Save(p, Replace(mem[p], a, now))
    BY <1>4 DEF Choose
  <2>2. Replace(mem[p], a, now) \in Record /\ WellFormed(Replace(mem[p], a, now), now)
    BY <1>1, ReplaceFacts
  <2> QED BY <1>2, <2>1, <2>2, CommandSaves
<1> QED BY <1>3, <1>4

LEMMA DeclineStep ==
    ASSUME IInv, NEW p \in Session, NEW a \in App, Decline(p, a)
    PROVE  IInv'
<1> DEFINE s == Skip(mem[p], a, now + SkipDays)
<1>0. pc[p] = "offer" /\ cmd[p] = "done"
  BY DEF Decline
<1>1. /\ disk' = s /\ mem' = [mem EXCEPT ![p] = s]
      /\ cmd' = cmd /\ pc' = pc /\ target' = target /\ UNCHANGED <<now, steam>>
  BY DEF Decline
<1>2. /\ now \in Time /\ mem[p] \in Record /\ WellFormed(mem[p], now)
      /\ cmd[p] \in Command /\ pc[p] \in Stage /\ target[p] \in App \cup {NoApp}
      /\ InStep(mem[p], cmd[p], pc[p], target[p])
      /\ cmd' = [cmd EXCEPT ![p] = cmd[p]] /\ pc' = [pc EXCEPT ![p] = pc[p]]
      /\ target' = [target EXCEPT ![p] = target[p]]
  BY <1>1, OneSession
<1>3. now + SkipDays \in Time
  BY <1>2, RulesAssumption DEF Time
<1>4. s \in Record /\ WellFormed(s, now)
  BY <1>2, <1>3, SkipFacts
<1> HIDE DEF s
<1>5. InStep(s, cmd[p], pc[p], target[p])
  BY <1>0, <1>2 DEF InStep
<1> QED BY <1>1, <1>2, <1>4, <1>5, OneSessionMoves

LEMMA ConfirmStep ==
    ASSUME IInv, NEW p \in Session, Confirm(p)
    PROVE  IInv'
<1>1. /\ now \in Time /\ mem[p] \in Record /\ WellFormed(mem[p], now)
      /\ target[p] \in App \cup {NoApp}
      /\ InStep(mem[p], cmd[p], "confirm", target[p])
  BY OneSession DEF Confirm
<1>2. UNCHANGED <<now, steam>>
  BY DEF Confirm
<1>3. CASE cmd[p] = "pick-manual"
  <2>1. target[p] \in App
    BY <1>1, <1>3 DEF InStep
  <2>2. CASE MayPick(mem[p], target[p], now)
    <3>1. Save(p, AddPick(mem[p], target[p], now)) /\ End(p)
      BY <1>3, <2>2 DEF Confirm
    <3>2. /\ AddPick(mem[p], target[p], now) \in Record
          /\ WellFormed(AddPick(mem[p], target[p], now), now)
      BY <1>1, <2>1, <2>2, AddPickFacts
    <3> QED BY <1>2, <3>1, <3>2, CommandSaves
  <2>3. CASE ~MayPick(mem[p], target[p], now)
    <3>1. EndUnsaved(p)
      BY <1>3, <2>3 DEF Confirm
    <3> QED BY <1>2, <3>1, CommandAborts
  <2> QED BY <2>2, <2>3
<1>4. CASE cmd[p] = "abandon-pick"
  <2>1. target[p] \in App
    BY <1>1, <1>4 DEF InStep
  <2>2. Save(p, Abandon(mem[p], target[p], now)) /\ End(p)
    BY <1>4 DEF Confirm
  <2>3. Abandon(mem[p], target[p], now) \in Record /\ WellFormed(Abandon(mem[p], target[p], now), now)
    BY <1>1, <2>1, AbandonFacts
  <2> QED BY <1>2, <2>2, <2>3, CommandSaves
<1>5. CASE cmd[p] = "reset"
  <2>1. Save(p, Reset(mem[p])) /\ End(p)
    BY <1>5 DEF Confirm
  <2>2. Reset(mem[p]) \in Record /\ WellFormed(Reset(mem[p]), now)
    BY <1>1, ResetFacts
  <2> QED BY <1>2, <2>1, <2>2, CommandSaves
<1> QED BY <1>1, <1>3, <1>4, <1>5 DEF InStep

LEMMA AbortStep ==
    ASSUME IInv, NEW p \in Session, Abort(p)
    PROVE  IInv'
BY CommandAborts DEF Abort

LEMMA TickStep ==
    ASSUME IInv, Tick
    PROVE  IInv'
<1>1. now \in Nat \ {0} /\ now' = now + 1 /\ now \in Time
      /\ disk' = disk /\ mem' = mem /\ cmd' = cmd /\ pc' = pc /\ target' = target
      /\ unlocked' = unlocked /\ complete' = complete
  BY DEF IInv, TypeOK, Tick, sessions, steam, Time
<1>2. TypeOK'
  <2>1. now' \in Nat \ {0}
    BY <1>1
  <2> QED BY <1>1, <2>1 DEF IInv, TypeOK
<1>3. RecordsWellFormed'
  <2>1. disk \in Record /\ \A p \in Session : mem[p] \in Record
    BY DEF IInv, TypeOK
  <2>2. WellFormed(disk, now) /\ \A p \in Session : WellFormed(mem[p], now)
    BY DEF IInv, RecordsWellFormed
  <2>3. WellFormed(disk, now + 1) /\ \A p \in Session : WellFormed(mem[p], now + 1)
    BY <1>1, <2>1, <2>2, TickFacts
  <2> QED BY <1>1, <2>3 DEF RecordsWellFormed
<1>4. CommandsInStep'
  BY <1>1 DEF IInv, CommandsInStep
<1> QED BY <1>2, <1>3, <1>4 DEF IInv

LEMMA UnlockStep ==
    ASSUME IInv, NEW a \in App, Unlock(a)
    PROVE  IInv'
<1>1. /\ disk' = disk /\ mem' = mem /\ cmd' = cmd /\ pc' = pc /\ target' = target /\ now' = now
      /\ unlocked' = [unlocked EXCEPT ![a] = now]
      /\ complete' = complete \/ complete' = complete \cup {a}
  BY DEF Unlock, sessions
<1>2. TypeOK'
  BY <1>1 DEF IInv, TypeOK, Time
<1>3. RecordsWellFormed'
  BY <1>1 DEF IInv, RecordsWellFormed
<1>4. CommandsInStep'
  BY <1>1 DEF IInv, CommandsInStep
<1> QED BY <1>2, <1>3, <1>4 DEF IInv

LEMMA NextIInv == IInv /\ [Next]_vars => IInv'
<1> SUFFICES ASSUME IInv, [Next]_vars PROVE IInv'
  OBVIOUS
<1>1. ASSUME NEW p \in Session, SessionStep(p) PROVE IInv'
  <2>1. ASSUME NEW c \in Command, NEW a \in App \cup {NoApp}, Gate(p, c, a) PROVE IInv'
    BY <2>1, GateStep
  <2>2. CASE Load(p)
    BY <2>2, LoadStep
  <2>3. CASE Sweep(p)
    BY <2>3, SweepStep
  <2>4. CASE Verdict(p)
    BY <2>4, VerdictStep
  <2>5. CASE NothingToOffer(p)
    BY <2>5, NothingToOfferStep
  <2>6. ASSUME NEW a \in App, Choose(p, a) PROVE IInv'
    BY <2>6, ChooseStep
  <2>7. ASSUME NEW a \in App, Decline(p, a) PROVE IInv'
    BY <2>7, DeclineStep
  <2>8. CASE Confirm(p)
    BY <2>8, ConfirmStep
  <2>9. CASE Abort(p)
    BY <2>9, AbortStep
  <2> QED BY <1>1, <2>1, <2>2, <2>3, <2>4, <2>5, <2>6, <2>7, <2>8, <2>9 DEF SessionStep
<1>2. CASE Tick
  BY <1>2, TickStep
<1>3. ASSUME NEW a \in App, Unlock(a) PROVE IInv'
  BY <1>3, UnlockStep
<1>4. CASE UNCHANGED vars
  BY <1>4 DEF vars, sessions, steam, IInv, TypeOK, RecordsWellFormed, CommandsInStep
<1> QED BY <1>1, <1>2, <1>3, <1>4 DEF Next

-----------------------------------------------------------------------------
(* The theorems. *)

\* The file and every copy are always records of state.json.
THEOREM RecordsTyped == Spec => []TypeOK
<1>1. IInv => TypeOK
  BY DEF IInv
<1> QED BY InitIInv, NextIInv, <1>1, PTL DEF Spec

\* However sessions overlap, every record written or held has one entry per
\* game, at most MaxPicks locks, at most MaxPicks + 1 games, and stores no pick
\* under "no game assigned".
THEOREM RecordsStayWellFormed == Spec => []RecordsWellFormed
<1>1. IInv => RecordsWellFormed
  BY DEF IInv
<1> QED BY InitIInv, NextIInv, <1>1, PTL DEF Spec

\* The caps of config.json hold of state.json at every moment.
THEOREM CapsHold == Spec => [](LocksCapped /\ GamesCapped)
<1>1. IInv => LocksCapped /\ GamesCapped
  BY DEF IInv, RecordsWellFormed, WellFormed, LocksCapped, GamesCapped
<1> QED BY InitIInv, NextIInv, <1>1, PTL DEF Spec

-----------------------------------------------------------------------------
(* One session at a time.  What a copy s must keep of the file r for the    *)
(* file to lose no pick, and no assignment, when the copy is written.       *)

\* Every pick of r that is locked on day n and has not earned its release is in s.
Carries(r, s, n, u, C) ==
    \A e \in Active(r, n) :
        (e \in Elements(s.picks) /\ e.app \notin s.finished) \/ Earned(r, e.app, n, u, C)

\* The assigned game was finished, or played on since a day it counts from.
PlayedOn(r, u, C) ==
    r.current \in C \/ \E t \in Starts(r, r.current) \ {NoTime} : u[r.current] > t

\* The copy has the same game assigned, counted from the same days.
SameAssignment(r, s) == s.current = r.current /\ Starts(s, r.current) = Starts(r, r.current)

\* Releasing no game changes nothing.
LEMMA ReleaseNone ==
    ASSUME NEW s \in Record, NEW n \in Time, NEW C
    PROVE  Release(s, {}, n, C) = s
<1> DEFINE t == Release(s, {}, n, C)
<1>1. Releases(s, t, {}, n, C)
  BY ReleaseShape
<1> HIDE DEF t
<1>2. /\ s.picks \in Seq(Pick) /\ s.finished \in SUBSET App /\ s.skipped \in [App -> Time]
  BY DEF Record
<1>3. t.finished = s.finished
  BY <1>1 DEF Releases
<1>4. t.skipped = s.skipped
  BY <1>1, <1>2 DEF Releases, Cooled
<1>5. t.picks = s.picks
  <2>1. t.picks = [i \in DOMAIN t.picks |-> t.picks[i]] /\ DOMAIN t.picks = DOMAIN s.picks
    BY <1>1 DEF Releases, Stamped
  <2>2. \A i \in DOMAIN s.picks : t.picks[i] = s.picks[i]
    BY <1>1 DEF Releases
  <2>3. s.picks = [i \in DOMAIN s.picks |-> s.picks[i]]
    BY <1>2
  <2> QED BY <2>1, <2>2, <2>3
<1>6. t = [current |-> s.current, assigned |-> s.assigned, picks |-> s.picks,
           finished |-> s.finished, skipped |-> s.skipped]
  BY <1>1, <1>3, <1>4, <1>5 DEF Releases
<1>7. s = [current |-> s.current, assigned |-> s.assigned, picks |-> s.picks,
           finished |-> s.finished, skipped |-> s.skipped]
  BY DEF Record
<1> QED BY <1>6, <1>7 DEF t

\* A release touches the entries of the released games only, and moves no start.
LEMMA ReleaseSpares ==
    ASSUME NEW s \in Record, NEW D \in SUBSET App, NEW n \in Time, NEW C
    PROVE  /\ \A e \in Elements(s.picks) : e.app \notin s.finished /\ e.app \notin D =>
                 /\ e \in Elements(Release(s, D, n, C).picks)
                 /\ e.app \notin Release(s, D, n, C).finished
           /\ \A a \in App : Starts(Release(s, D, n, C), a) = Starts(s, a)
<1> DEFINE t == Release(s, D, n, C)
<1>1. Releases(s, t, D, n, C)
  BY ReleaseShape
<1> HIDE DEF t
<1>2. ASSUME NEW e \in Elements(s.picks), e.app \notin s.finished, e.app \notin D
      PROVE  e \in Elements(t.picks) /\ e.app \notin t.finished
  <2>1. PICK i \in DOMAIN s.picks : e = s.picks[i]
    BY DEF Elements
  <2>2. t.picks[i] = e /\ i \in DOMAIN t.picks
    BY <1>1, <1>2, <2>1 DEF Releases
  <2>3. e.app \notin t.finished
    BY <1>1, <1>2 DEF Releases
  <2> QED BY <2>2, <2>3 DEF Elements
<1>3. ASSUME NEW a \in App PROVE Starts(t, a) = Starts(s, a)
  <2> DEFINE S(r) == {e.started : e \in {d \in Elements(r.picks) : d.app = a}}
  <2>1. \A x : x \in S(t) <=>
                \E i \in DOMAIN t.picks : t.picks[i].app = a /\ x = t.picks[i].started
    BY DEF Elements
  <2>2. \A x : x \in S(s) <=>
                \E i \in DOMAIN s.picks : s.picks[i].app = a /\ x = s.picks[i].started
    BY DEF Elements
  <2>3. DOMAIN t.picks = DOMAIN s.picks
        /\ \A i \in DOMAIN s.picks : t.picks[i].app = s.picks[i].app
                                      /\ t.picks[i].started = s.picks[i].started
    BY <1>1 DEF Releases
  <2>4. S(t) = S(s)
    <3> HIDE DEF S
    <3>1. \A x : x \in S(t) <=> x \in S(s)
      BY <2>1, <2>2, <2>3
    <3> QED BY <3>1
  <2>5. t.current = s.current /\ t.assigned = s.assigned
    BY <1>1 DEF Releases
  <2> QED BY <2>4, <2>5 DEF Starts
<1> QED BY <1>2, <1>3 DEF t

\* With one entry per game, a locked pick counts from its own start.
LEMMA BaselineOfActive ==
    ASSUME NEW s \in Record, NEW n \in Time, OneEntryPerGame(s), NEW e \in Active(s, n)
    PROVE  Baseline(s, e.app, n) = e.started
<1>1. \A d \in Active(s, n) : d.app = e.app => d = e
  BY DEF Active, Elements, OneEntryPerGame
<1>2. e.app \in ActiveApps(s, n)
  BY DEF ActiveApps
<1>3. (CHOOSE d \in Active(s, n) : d.app = e.app) = e
  BY <1>1
<1> QED BY <1>2, <1>3 DEF Baseline

\* What was earned by a pick that is still locked stays earned: days pass, and
\* achievements are not taken back.
LEMMA EarnedStays ==
    ASSUME NEW s \in Record, OneEntryPerGame(s), NEW n \in Time, NEW m \in Time, n <= m,
           NEW e \in Active(s, m),
           NEW u \in [App -> Time], NEW v \in [App -> Time], \A a \in App : u[a] <= v[a],
           NEW C, NEW D, C \subseteq D
    PROVE  e \in Active(s, n) /\ (Earned(s, e.app, n, u, C) => Earned(s, e.app, m, v, D))
<1>0. e \in Elements(s.picks) /\ e \in Pick /\ e.app \in App /\ e.started \in Nat /\ LockDays \in Nat
      /\ n \in Nat /\ m \in Nat
  <2>1. e \in Elements(s.picks) /\ e \in Pick
    BY GamesType
  <2> QED BY <2>1, RulesAssumption DEF Pick, Time
<1>1. IsActive(s, e, m)
  BY DEF Active
<1>2. n < e.started + LockDays
  BY <1>0, <1>1 DEF IsActive
<1>3. e \in Active(s, n)
  BY <1>0, <1>1, <1>2 DEF Active, IsActive
<1>4. Baseline(s, e.app, n) = e.started /\ Baseline(s, e.app, m) = e.started
  BY <1>3, BaselineOfActive
<1>5. u[e.app] \in Nat /\ v[e.app] \in Nat /\ u[e.app] <= v[e.app]
  BY <1>0 DEF Time
<1>6. u[e.app] > e.started => v[e.app] > e.started
  BY <1>0, <1>5
<1> QED BY <1>3, <1>4, <1>6 DEF Earned

\* So a copy that carries the file's picks goes on to do so.
LEMMA CarriesStays ==
    ASSUME NEW r \in Record, OneEntryPerGame(r), NEW s, NEW n \in Time, NEW m \in Time, n <= m,
           NEW u \in [App -> Time], NEW v \in [App -> Time], \A a \in App : u[a] <= v[a],
           NEW C, NEW D, C \subseteq D, Carries(r, s, n, u, C)
    PROVE  Carries(r, s, m, v, D)
<1> SUFFICES ASSUME NEW e \in Active(r, m)
             PROVE  (e \in Elements(s.picks) /\ e.app \notin s.finished) \/ Earned(r, e.app, m, v, D)
  BY DEF Carries
<1>1. e \in Active(r, n) /\ (Earned(r, e.app, n, u, C) => Earned(r, e.app, m, v, D))
  BY EarnedStays
<1> QED BY <1>1 DEF Carries

\* The assigned game that was played on stays so.
LEMMA PlayedOnStays ==
    ASSUME NEW r \in Record, r.current \in App,
           NEW u \in [App -> Time], NEW v \in [App -> Time], \A a \in App : u[a] <= v[a],
           NEW C, NEW D, C \subseteq D, PlayedOn(r, u, C)
    PROVE  PlayedOn(r, v, D)
<1>1. CASE r.current \in C
  BY <1>1 DEF PlayedOn
<1>2. ASSUME NEW t \in Starts(r, r.current) \ {NoTime}, u[r.current] > t PROVE PlayedOn(r, v, D)
  <2>1. t \in Nat
    <3>1. Elements(r.picks) \subseteq Pick
      BY GamesType, 0 \in Time DEF Time
    <3>2. r.assigned \in Nat
      BY DEF Record, Time
    <3> QED BY <3>1, <3>2 DEF Starts, Pick, Time
  <2>2. u[r.current] \in Nat /\ v[r.current] \in Nat /\ u[r.current] <= v[r.current]
    BY DEF Time
  <2>3. v[r.current] > t
    BY <1>2, <2>1, <2>2
  <2> QED BY <2>3 DEF PlayedOn
<1> QED BY <1>1, <1>2 DEF PlayedOn

\* A game that earns its release was played on since a day it counts from.
LEMMA EarnedIsPlayed ==
    ASSUME NEW r \in Record, NEW n \in Time, NEW u, NEW C, Earned(r, r.current, n, u, C)
    PROVE  PlayedOn(r, u, C)
<1>1. CASE r.current \in C
  BY <1>1 DEF PlayedOn
<1>2. CASE r.current \notin C
  <2> DEFINE b == Baseline(r, r.current, n)
  <2>1. b # NoTime /\ u[r.current] > b
    BY <1>2 DEF Earned
  <2>2. b \in Starts(r, r.current)
    <3>1. CASE r.current \in ActiveApps(r, n)
      <4> DEFINE d == CHOOSE e \in Active(r, n) : e.app = r.current
      <4>1. d \in Active(r, n) /\ d.app = r.current
        BY <3>1 DEF ActiveApps
      <4>2. d \in Elements(r.picks)
        BY <4>1 DEF Active
      <4>3. b = d.started
        BY <3>1 DEF Baseline
      <4> HIDE DEF d, b
      <4> QED BY <4>1, <4>2, <4>3 DEF Starts
    <3>2. CASE r.current \notin ActiveApps(r, n)
      <4>1. b = r.assigned
        BY <3>2 DEF Baseline
      <4> HIDE DEF b
      <4> QED BY <4>1 DEF Starts
    <3> QED BY <3>1, <3>2
  <2> HIDE DEF b
  <2> QED BY <2>1, <2>2 DEF PlayedOn
<1> QED BY <1>1, <1>2

\* Record t still has every pick that is locked in s on day n.
KeepsLocked(s, t, n) ==
    \A e \in Active(s, n) : e \in Elements(t.picks) /\ e.app \notin t.finished

\* A record carries its own picks.
LEMMA CarriesSelf ==
    ASSUME NEW s \in Record, NEW n \in Time, NEW u, NEW C
    PROVE  Carries(s, s, n, u, C)
BY DEF Carries, Active, IsActive

\* A copy without the games that earned it carries the rest.
LEMMA CarriesRelease ==
    ASSUME NEW s \in Record, NEW D \in SUBSET App, NEW n \in Time, NEW u, NEW C,
           \A a \in D : Earned(s, a, n, u, C)
    PROVE  Carries(s, Release(s, D, n, C), n, u, C)
<1> DEFINE t == Release(s, D, n, C)
<1>1. \A e \in Elements(s.picks) : e.app \notin s.finished /\ e.app \notin D =>
         e \in Elements(t.picks) /\ e.app \notin t.finished
  BY ReleaseSpares
<1> HIDE DEF t
<1>2. Carries(s, t, n, u, C)
  <2> SUFFICES ASSUME NEW e \in Active(s, n)
               PROVE  (e \in Elements(t.picks) /\ e.app \notin t.finished) \/ Earned(s, e.app, n, u, C)
    BY DEF Carries
  <2>1. e \in Elements(s.picks) /\ e.app \notin s.finished
    BY DEF Active, IsActive
  <2> QED BY <1>1, <2>1
<1> QED BY <1>2 DEF t

\* What keeps the locked picks of a copy carries the file's picks on.
LEMMA CarriesThrough ==
    ASSUME NEW r, NEW s, NEW t, NEW n, NEW u, NEW C,
           Carries(r, s, n, u, C), KeepsLocked(s, t, n)
    PROVE  Carries(r, t, n, u, C)
<1> SUFFICES ASSUME NEW e \in Active(r, n), ~Earned(r, e.app, n, u, C)
             PROVE  e \in Elements(t.picks) /\ e.app \notin t.finished
  BY DEF Carries
<1>1. e \in Elements(s.picks) /\ e.app \notin s.finished
  BY DEF Carries
<1>2. e \in Active(s, n)
  BY <1>1 DEF Active, IsActive
<1> QED BY <1>2 DEF KeepsLocked

\* An assignment leaves the picks alone.
LEMMA AssignKeeps ==
    ASSUME NEW s \in Record, NEW a, NEW d
    PROVE  Assign(s, a, d).picks = s.picks /\ Assign(s, a, d).finished = s.finished
BY DEF Assign, Record

\* So does a new assignment that drops the inactive picks.
LEMMA ReplaceKeeps ==
    ASSUME NEW s \in Record, NEW a \in App, NEW n \in Time
    PROVE  KeepsLocked(s, Replace(s, a, n), n)
<1> DEFINE t == DropInactive(s, n)
<1>1. t \in Record
  BY DropFacts
<1>2. t.finished = s.finished /\ Elements(t.picks) = Elements(s.picks) \cap Active(s, n)
  BY SomePicks DEF DropInactive
<1> HIDE DEF t
<1>3. Assign(t, a, n).picks = t.picks /\ Assign(t, a, n).finished = t.finished
  BY <1>1, AssignKeeps
<1>4. KeepsLocked(s, Assign(t, a, n), n)
  BY <1>2, <1>3 DEF KeepsLocked, Active, IsActive
<1> QED BY <1>4 DEF Replace, t

\* A pick more leaves the others alone.
LEMMA AppendKeeps ==
    ASSUME NEW s \in Record, NEW e \in Pick
    PROVE  LET t == [s EXCEPT !.picks = Append(@, e)] IN
           /\ Elements(t.picks) = Elements(s.picks) \cup {e}
           /\ t.finished = s.finished
<1>1. s.picks \in Seq(Pick)
  BY DEF Record
<1>2. Elements(Append(s.picks, e)) = Elements(s.picks) \cup {e}
  BY <1>1, ElementsAppend
<1> QED BY <1>2 DEF Record

\* The outgoing assignment, kept as a pick, leaves the others alone.
LEMMA ParkKeeps ==
    ASSUME NEW s \in Record, NEW n \in Time
    PROVE  Elements(s.picks) \subseteq Elements(Park(s, n).picks) /\ Park(s, n).finished = s.finished
<1>1. CASE s.current = NoApp \/ s.current \in Stored(s)
  BY <1>1 DEF Park
<1>2. CASE ~(s.current = NoApp \/ s.current \in Stored(s))
  <2> DEFINE e == [app |-> s.current, started |-> IF s.assigned = NoTime THEN n ELSE s.assigned,
                   released |-> TRUE]
  <2>1. e \in Pick
    BY <1>2 DEF Pick, Record
  <2>2. Park(s, n) = [s EXCEPT !.picks = Append(@, e)]
    BY <1>2 DEF Park
  <2> HIDE DEF e
  <2>3. /\ Elements([s EXCEPT !.picks = Append(@, e)].picks) = Elements(s.picks) \cup {e}
        /\ [s EXCEPT !.picks = Append(@, e)].finished = s.finished
    BY <2>1, AppendKeeps
  <2> QED BY <2>2, <2>3
<1> QED BY <1>1, <1>2

\* pick without --replace keeps the locked picks.
LEMMA KeepKeeps ==
    ASSUME NEW s \in Record, NEW a \in App, NEW n \in Time
    PROVE  KeepsLocked(s, Keep(s, a, n), n)
<1> DEFINE t == Park(s, n)
<1>1. t \in Record
  BY ParkFacts
<1>2. Elements(s.picks) \subseteq Elements(t.picks) /\ t.finished = s.finished
  BY ParkKeeps
<1> HIDE DEF t
<1>3. Assign(t, a, n).picks = t.picks /\ Assign(t, a, n).finished = t.finished
  BY <1>1, AssignKeeps
<1>4. KeepsLocked(s, Assign(t, a, n), n)
  BY <1>2, <1>3 DEF KeepsLocked, Active, IsActive
<1> QED BY <1>4 DEF Keep, t

\* pick-manual of a game that is not locked keeps the locked picks.
LEMMA AddPickKeeps ==
    ASSUME NEW s \in Record, NEW a \in App, NEW n \in Time, a \notin ActiveApps(s, n)
    PROVE  KeepsLocked(s, AddPick(s, a, n), n)
<1> DEFINE rest == Without(s, a)
<1> DEFINE kept == IF s.current = a THEN rest ELSE Park(rest, n)
<1> DEFINE pick == [app |-> a, started |-> n, released |-> FALSE]
<1> DEFINE more == [kept EXCEPT !.picks = Append(@, pick)]
<1>1. rest \in Record
  BY WithoutFacts
<1>2. /\ rest.finished = s.finished
      /\ Elements(rest.picks) = Elements(s.picks) \cap {e \in Elements(s.picks) : e.app # a}
  BY SomePicks DEF Without
<1>3. AddPick(s, a, n) = Assign(more, a, n)
  BY DEF AddPick
<1> HIDE DEF rest
<1>4. kept \in Record /\ Elements(rest.picks) \subseteq Elements(kept.picks)
      /\ kept.finished = s.finished
  BY <1>1, <1>2, ParkFacts, ParkKeeps
<1>5. pick \in Pick
  BY DEF Pick, Time
<1> HIDE DEF kept, pick
<1>6. more \in Record
  BY <1>4, <1>5, AppendPick
<1>7. Elements(more.picks) = Elements(kept.picks) \cup {pick} /\ more.finished = kept.finished
  BY <1>4, <1>5, AppendKeeps
<1> HIDE DEF more
<1>8. Assign(more, a, n).picks = more.picks /\ Assign(more, a, n).finished = more.finished
  BY <1>6, AssignKeeps
<1>9. ASSUME NEW e \in Active(s, n) PROVE e \in Elements(more.picks) /\ e.app \notin more.finished
  <2>1. e \in Elements(s.picks) /\ e.app \notin s.finished
    BY DEF Active, IsActive
  <2>2. e.app # a
    BY DEF ActiveApps
  <2>3. e \in Elements(rest.picks)
    BY <1>2, <2>1, <2>2
  <2> QED BY <1>4, <1>7, <2>1, <2>3
<1> QED BY <1>3, <1>8, <1>9 DEF KeepsLocked

\* A skipped candidate leaves picks and assignment alone.
LEMMA SkipKeeps ==
    ASSUME NEW s \in Record, NEW a \in App, NEW d \in Time, NEW n \in Time
    PROVE  /\ KeepsLocked(s, Skip(s, a, d), n)
           /\ Skip(s, a, d).current = s.current
           /\ \A b : Starts(Skip(s, a, d), b) = Starts(s, b)
<1>1. /\ Skip(s, a, d).picks = s.picks /\ Skip(s, a, d).finished = s.finished
      /\ Skip(s, a, d).current = s.current /\ Skip(s, a, d).assigned = s.assigned
  BY DEF Skip, Record
<1> QED BY <1>1 DEF KeepsLocked, Active, IsActive, Starts

-----------------------------------------------------------------------------
(* The only session.  With one session at a time nobody else writes the     *)
(* file while a command is open.                                            *)

\* Nothing was unlocked after today.
NoUnlockAhead == \A a \in App : unlocked[a] <= now

\* What asks whether a game earned its release works on a fresh copy.
CopiesFresh == \A p \in Session : pc[p] \in {"sweep", "verdict"} => mem[p] = disk

\* A copy that may be written carries the picks of the file.
CopiesCarry ==
    \A p \in Session : pc[p] \in {"sweep", "verdict", "offer", "confirm"} =>
        Carries(disk, mem[p], now, unlocked, complete)

\* done and check choose the next game only for an assigned game that was
\* finished or played on.
OffersPlayed ==
    \A p \in Session : pc[p] = "offer" /\ cmd[p] \in {"done", "check"} =>
        /\ disk.current \in App
        /\ SameAssignment(disk, mem[p])
        /\ PlayedOn(disk, unlocked, complete)

\* The inductive invariant of a single session.
SoloInv == IInv /\ NoUnlockAhead /\ CopiesFresh /\ CopiesCarry /\ OffersPlayed

\* What the two action properties say of one step.
Kept ==
    \A e \in Active(disk, now) :
        \/ e \in Elements(disk'.picks) /\ e.app \notin disk'.finished
        \/ Earns(disk, e.app)
        \/ StepOf({"abandon-pick", "reset"})

Moved ==
    disk'.current # disk.current /\ StepOf({"done", "check"})
       => \/ disk.current \in complete
          \/ \E t \in Starts(disk, disk.current) \ {NoTime} : unlocked[disk.current] > t

\* What is the case while a command is open.
LEMMA SoloFacts ==
    ASSUME SoloInv, NEW p \in Session
    PROVE  /\ now \in Time /\ disk \in Record /\ OneEntryPerGame(disk)
           /\ mem[p] \in Record /\ OneEntryPerGame(mem[p])
           /\ cmd[p] \in Command /\ pc[p] \in Stage /\ target[p] \in App \cup {NoApp}
           /\ InStep(mem[p], cmd[p], pc[p], target[p])
           /\ pc[p] \in {"sweep", "verdict"} => mem[p] = disk
           /\ pc[p] \in {"sweep", "verdict", "offer", "confirm"} =>
                 Carries(disk, mem[p], now, unlocked, complete)
           /\ pc[p] = "offer" /\ cmd[p] \in {"done", "check"} =>
                 /\ disk.current \in App
                 /\ SameAssignment(disk, mem[p])
                 /\ PlayedOn(disk, unlocked, complete)
<1>1. IInv
  BY DEF SoloInv
<1>2. /\ now \in Time /\ disk \in Record /\ WellFormed(disk, now)
      /\ mem[p] \in Record /\ WellFormed(mem[p], now)
      /\ cmd[p] \in Command /\ pc[p] \in Stage /\ target[p] \in App \cup {NoApp}
      /\ InStep(mem[p], cmd[p], pc[p], target[p])
  BY <1>1, OneSession
<1>3. OneEntryPerGame(disk) /\ OneEntryPerGame(mem[p])
  BY <1>2 DEF WellFormed
<1> QED BY <1>2, <1>3 DEF SoloInv, CopiesFresh, CopiesCarry, OffersPlayed

\* A step of the only session preserves its invariant if what it holds then does.
LEMMA SoloMoves ==
    ASSUME SoloInv, IInv', NEW p \in Session, \A q \in Session : q = p,
           NEW s, NEW c, NEW g,
           mem'[p] = s, cmd'[p] = c, pc'[p] = g, UNCHANGED <<now, steam>>,
           g \in {"sweep", "verdict"} => s = disk',
           g \in {"sweep", "verdict", "offer", "confirm"} => Carries(disk', s, now, unlocked, complete),
           g = "offer" /\ c \in {"done", "check"} =>
              /\ disk'.current \in App
              /\ SameAssignment(disk', s)
              /\ PlayedOn(disk', unlocked, complete)
    PROVE  SoloInv'
<1>1. now' = now /\ unlocked' = unlocked /\ complete' = complete
  BY DEF steam
<1>2. NoUnlockAhead'
  BY <1>1 DEF SoloInv, NoUnlockAhead
<1>3. CopiesFresh'
  BY DEF CopiesFresh
<1>4. CopiesCarry'
  BY <1>1 DEF CopiesCarry
<1>5. OffersPlayed'
  BY <1>1 DEF OffersPlayed
<1> QED BY <1>2, <1>3, <1>4, <1>5 DEF SoloInv

\* A command that is over holds nothing.
LEMMA SoloEnds ==
    ASSUME SoloInv, IInv', NEW p \in Session, \A q \in Session : q = p,
           End(p), UNCHANGED <<now, steam>>
    PROVE  SoloInv'
<1>1. pc'[p] = "idle"
  BY DEF End, GoTo, SoloInv, IInv, TypeOK
<1> QED BY <1>1, SoloMoves

\* A step that leaves the file alone loses no pick and no assignment.
LEMMA FileUntouched ==
    ASSUME disk' = disk
    PROVE  Kept /\ Moved
BY DEF Kept, Moved, Active, IsActive

\* A written copy that carries the picks of the file loses none.
LEMMA WrittenCarries ==
    ASSUME Carries(disk, disk', now, unlocked, complete)
    PROVE  Kept
BY DEF Carries, Kept, Earns

\* The session whose stage changes is the only one.
LEMMA SoloStepOf ==
    ASSUME NEW p \in Session, \A q \in Session : q = p, NEW C
    PROVE  StepOf(C) <=> (cmd[p] \in C /\ pc'[p] # pc[p])
BY DEF StepOf

\* done and check, and nobody else, need the assigned game to be played on.
LEMMA MovedBy ==
    ASSUME NEW p \in Session, \A q \in Session : q = p,
           \/ disk'.current = disk.current
           \/ cmd[p] \notin {"done", "check"}
           \/ PlayedOn(disk, unlocked, complete)
    PROVE  Moved
BY SoloStepOf DEF Moved, PlayedOn

\* Gate and load write nothing; the copy loaded is the file.
LEMMA SoloGate ==
    ASSUME SoloInv, IInv', NEW p \in Session, \A q \in Session : q = p,
           NEW c \in Command, NEW a \in App \cup {NoApp}, Gate(p, c, a)
    PROVE  SoloInv' /\ Kept /\ Moved
<1>1. pc'[p] = "load" /\ disk' = disk /\ UNCHANGED <<now, steam>>
  BY DEF Gate, GoTo, SoloInv, IInv, TypeOK
<1>2. SoloInv'
  BY <1>1, SoloMoves
<1> QED BY <1>1, <1>2, FileUntouched

LEMMA SoloLoad ==
    ASSUME SoloInv, IInv', NEW p \in Session, \A q \in Session : q = p, Load(p)
    PROVE  SoloInv' /\ Kept /\ Moved
<1> DEFINE first == FirstStage(cmd[p], target[p], disk)
<1>1. UNCHANGED <<now, steam>> /\ disk' = disk
  BY DEF Load, EndUnsaved
<1>2. CASE first = "idle"
  <2>1. End(p)
    BY <1>2 DEF Load, EndUnsaved
  <2> QED BY <1>1, <2>1, SoloEnds, FileUntouched
<1>3. CASE first # "idle"
  <2>1. mem'[p] = disk /\ pc'[p] = first /\ cmd'[p] = cmd[p]
    BY <1>3 DEF Load, GoTo, SoloInv, IInv, TypeOK
  <2>2. cmd[p] \in Command
    BY SoloFacts
  <2>3. first = "offer" => cmd[p] \notin {"done", "check"}
    BY <2>2 DEF FirstStage, Command
  <2> HIDE DEF first
  <2>4. Carries(disk', disk, now, unlocked, complete)
    BY <1>1, SoloFacts, CarriesSelf
  <2>5. SoloInv'
    BY <1>1, <2>1, <2>3, <2>4, SoloMoves
  <2> QED BY <1>1, <2>5, FileUntouched
<1> QED BY <1>2, <1>3

\* The sweep works on the file and releases only what earned it.
LEMMA SoloSweep ==
    ASSUME SoloInv, IInv', NEW p \in Session, \A q \in Session : q = p, Sweep(p)
    PROVE  SoloInv' /\ Kept /\ Moved
<1>1. PICK D \in SUBSET {a \in ActiveApps(mem[p], now) : Earns(mem[p], a)} :
        LET s == Release(mem[p], D, now, complete)
            next == AfterSweep(cmd[p], s) IN
        /\ disk' = IF D = {} THEN disk ELSE s
        /\ IF next = "idle" THEN End(p) /\ mem' = [mem EXCEPT ![p] = Fresh]
           ELSE GoTo(p, next) /\ mem' = [mem EXCEPT ![p] = s] /\ UNCHANGED <<cmd, target>>
  BY DEF Sweep
<1> DEFINE s == Release(disk, D, now, complete)
<1> DEFINE next == AfterSweep(cmd[p], s)
<1>2. pc[p] = "sweep" /\ UNCHANGED <<now, steam>>
  BY DEF Sweep
<1>3. /\ now \in Time /\ disk \in Record /\ mem[p] = disk
      /\ InStep(mem[p], cmd[p], "sweep", target[p])
  BY <1>2, SoloFacts
<1>4. /\ disk' = IF D = {} THEN disk ELSE s
      /\ IF next = "idle" THEN End(p)
         ELSE pc'[p] = next /\ mem'[p] = s /\ cmd'[p] = cmd[p]
  BY <1>1, <1>3 DEF GoTo, SoloInv, IInv, TypeOK
<1>5. D \in SUBSET App /\ \A a \in D : Earned(disk, a, now, unlocked, complete)
  <2>1. ActiveApps(disk, now) \subseteq App
    BY <1>3, GamesType
  <2> QED BY <1>3, <2>1 DEF Earns
<1>6. disk' = s
  BY <1>3, <1>4, ReleaseNone
<1>7. Carries(disk, s, now, unlocked, complete)
  BY <1>3, <1>5, CarriesRelease
<1>8. s.current = disk.current /\ s \in Record
  BY <1>3, <1>5, ReleaseFacts
<1>9. next # "offer"
  BY DEF AfterSweep
<1> HIDE DEF s, next
<1>10. SoloInv'
  <2>1. CASE next = "idle"
    BY <1>2, <1>4, <2>1, SoloEnds
  <2>2. CASE next # "idle"
    <3>1. Carries(disk', s, now, unlocked, complete)
      BY <1>3, <1>6, <1>8, CarriesSelf
    <3> QED BY <1>2, <1>4, <1>6, <1>9, <2>2, <3>1, SoloMoves
  <2> QED BY <2>1, <2>2
<1>11. Kept
  BY <1>6, <1>7, WrittenCarries
<1>12. Moved
  BY <1>6, <1>8, MovedBy
<1> QED BY <1>10, <1>11, <1>12

\* The verdict on the assigned game: its release stays in the copy.
LEMMA SoloVerdict ==
    ASSUME SoloInv, IInv', NEW p \in Session, \A q \in Session : q = p, Verdict(p)
    PROVE  SoloInv' /\ Kept /\ Moved
<1> DEFINE s == Release(disk, {disk.current}, now, complete)
<1>1. pc[p] = "verdict" /\ UNCHANGED <<now, steam>> /\ disk' = disk
  BY DEF Verdict, EndUnsaved
<1>2. /\ now \in Time /\ disk \in Record /\ mem[p] = disk
      /\ InStep(mem[p], cmd[p], "verdict", target[p])
  BY <1>1, SoloFacts
<1>3. disk.current \in App
  BY <1>2 DEF InStep, Record
<1>4. CASE ~Earns(disk, disk.current)
  <2>1. End(p)
    BY <1>2, <1>4 DEF Verdict, EndUnsaved
  <2> QED BY <1>1, <2>1, SoloEnds, FileUntouched
<1>5. CASE Earns(disk, disk.current)
  <2>1. mem'[p] = s /\ pc'[p] = "offer" /\ cmd'[p] = cmd[p]
    BY <1>2, <1>5 DEF Verdict, GoTo, SoloInv, IInv, TypeOK
  <2>2. Earned(disk, disk.current, now, unlocked, complete)
    BY <1>5 DEF Earns
  <2>3. Carries(disk, s, now, unlocked, complete)
    BY <1>2, <1>3, <2>2, CarriesRelease
  <2>4. PlayedOn(disk, unlocked, complete)
    BY <1>2, <2>2, EarnedIsPlayed
  <2>5. SameAssignment(disk, s)
    <3>1. s.current = disk.current
      BY <1>2, <1>3, ReleaseFacts
    <3>2. Starts(s, disk.current) = Starts(disk, disk.current)
      BY <1>2, <1>3, ReleaseSpares
    <3> HIDE DEF s
    <3> QED BY <3>1, <3>2 DEF SameAssignment
  <2> HIDE DEF s
  <2>6. SoloInv'
    BY <1>1, <1>3, <2>1, <2>3, <2>4, <2>5, SoloMoves
  <2> QED BY <1>1, <2>6, FileUntouched
<1> QED BY <1>4, <1>5

\* No candidate: the copy is written.
LEMMA SoloNothingToOffer ==
    ASSUME SoloInv, IInv', NEW p \in Session, \A q \in Session : q = p, NothingToOffer(p)
    PROVE  SoloInv' /\ Kept /\ Moved
<1>1. pc[p] = "offer" /\ End(p) /\ disk' = mem[p] /\ UNCHANGED <<now, steam>>
  BY DEF NothingToOffer, Save
<1>2. SoloInv'
  BY <1>1, SoloEnds
<1>3. Kept
  BY <1>1, SoloFacts, WrittenCarries
<1>4. Moved
  BY <1>1, SoloFacts, MovedBy DEF SameAssignment
<1> QED BY <1>2, <1>3, <1>4

\* A game is chosen.
LEMMA SoloChoose ==
    ASSUME SoloInv, IInv', NEW p \in Session, \A q \in Session : q = p,
           NEW a \in App, Choose(p, a)
    PROVE  SoloInv' /\ Kept /\ Moved
<1>1. pc[p] = "offer" /\ End(p) /\ UNCHANGED <<now, steam>>
  BY DEF Choose
<1>2. disk' = Keep(mem[p], a, now) \/ disk' = Replace(mem[p], a, now)
  BY DEF Choose, Save
<1>3. now \in Time /\ mem[p] \in Record /\ Carries(disk, mem[p], now, unlocked, complete)
  BY <1>1, SoloFacts
<1>4. KeepsLocked(mem[p], disk', now)
  BY <1>2, <1>3, KeepKeeps, ReplaceKeeps
<1>5. Kept
  BY <1>3, <1>4, CarriesThrough, WrittenCarries
<1>6. Moved
  BY <1>1, SoloFacts, MovedBy
<1>7. SoloInv'
  BY <1>1, SoloEnds
<1> QED BY <1>5, <1>6, <1>7

\* A candidate is declined: the copy is written and worked on.
LEMMA SoloDecline ==
    ASSUME SoloInv, IInv', NEW p \in Session, \A q \in Session : q = p,
           NEW a \in App, Decline(p, a)
    PROVE  SoloInv' /\ Kept /\ Moved
<1> DEFINE s == Skip(mem[p], a, now + SkipDays)
<1>1. pc[p] = "offer" /\ cmd[p] = "done" /\ UNCHANGED <<now, steam>>
      /\ disk' = s /\ mem'[p] = s /\ cmd'[p] = cmd[p] /\ pc'[p] = "offer"
  BY DEF Decline, SoloInv, IInv, TypeOK
<1>2. /\ now \in Time /\ mem[p] \in Record /\ Carries(disk, mem[p], now, unlocked, complete)
      /\ disk.current \in App /\ SameAssignment(disk, mem[p]) /\ PlayedOn(disk, unlocked, complete)
  BY <1>1, SoloFacts
<1>3. now + SkipDays \in Time
  BY <1>2, RulesAssumption DEF Time
<1>4. KeepsLocked(mem[p], s, now) /\ s.current = mem[p].current
      /\ \A b : Starts(s, b) = Starts(mem[p], b)
  BY <1>2, <1>3, SkipKeeps
<1>5. s \in Record
  BY <1>2, <1>3, SkipFacts
<1> HIDE DEF s
<1>6. Kept
  BY <1>1, <1>2, <1>4, CarriesThrough, WrittenCarries
<1>7. Moved
  BY <1>2, MovedBy
<1>8. s.current = disk.current /\ Starts(s, disk.current) = Starts(disk, disk.current)
  BY <1>2, <1>4 DEF SameAssignment
<1>9. /\ disk'.current \in App /\ SameAssignment(disk', s) /\ PlayedOn(disk', unlocked, complete)
  BY <1>1, <1>2, <1>8 DEF SameAssignment, PlayedOn
<1>10. Carries(disk', s, now, unlocked, complete)
  BY <1>1, <1>2, <1>5, CarriesSelf
<1>11. SoloInv'
  BY <1>1, <1>9, <1>10, SoloMoves
<1> QED BY <1>6, <1>7, <1>11

\* The typed confirmation: only abandon-pick and reset give a locked pick up.
LEMMA SoloConfirm ==
    ASSUME SoloInv, IInv', NEW p \in Session, \A q \in Session : q = p, Confirm(p)
    PROVE  SoloInv' /\ Kept /\ Moved
<1>1. pc[p] = "confirm" /\ UNCHANGED <<now, steam>>
  BY DEF Confirm
<1>2. /\ now \in Time /\ mem[p] \in Record /\ target[p] \in App \cup {NoApp}
      /\ Carries(disk, mem[p], now, unlocked, complete)
      /\ InStep(mem[p], cmd[p], "confirm", target[p])
  BY <1>1, SoloFacts
<1>3. cmd[p] \in {"pick-manual", "abandon-pick", "reset"}
  BY <1>2 DEF InStep
<1>4. Moved
  BY <1>3, MovedBy
<1>5. End(p)
  BY <1>3 DEF Confirm, EndUnsaved
<1>6. SoloInv'
  BY <1>1, <1>5, SoloEnds
<1>7. CASE cmd[p] = "pick-manual"
  <2>1. target[p] \in App
    BY <1>2, <1>7 DEF InStep
  <2>2. CASE MayPick(mem[p], target[p], now)
    <3>1. disk' = AddPick(mem[p], target[p], now)
      BY <1>7, <2>2 DEF Confirm, Save
    <3>2. KeepsLocked(mem[p], disk', now)
      BY <1>2, <2>1, <2>2, <3>1, AddPickKeeps DEF MayPick
    <3>3. Kept
      BY <1>2, <3>2, CarriesThrough, WrittenCarries
    <3> QED BY <1>4, <1>6, <3>3
  <2>3. CASE ~MayPick(mem[p], target[p], now)
    <3>1. disk' = disk
      BY <1>7, <2>3 DEF Confirm, EndUnsaved
    <3> QED BY <1>6, <3>1, FileUntouched
  <2> QED BY <2>2, <2>3
<1>8. CASE cmd[p] \in {"abandon-pick", "reset"}
  <2>1. pc'[p] = "idle"
    BY <1>5 DEF End, GoTo, SoloInv, IInv, TypeOK
  <2>2. StepOf({"abandon-pick", "reset"})
    BY <1>1, <1>8, <2>1, SoloStepOf
  <2>3. Kept
    BY <2>2 DEF Kept
  <2> QED BY <1>4, <1>6, <2>3
<1> QED BY <1>3, <1>7, <1>8

\* An interrupted command writes nothing.
LEMMA SoloAbort ==
    ASSUME SoloInv, IInv', NEW p \in Session, \A q \in Session : q = p, Abort(p)
    PROVE  SoloInv' /\ Kept /\ Moved
<1>1. End(p) /\ disk' = disk /\ UNCHANGED <<now, steam>>
  BY DEF Abort, EndUnsaved
<1> QED BY <1>1, SoloEnds, FileUntouched

\* Neither the clock nor the player undoes what a copy carries.
LEMMA SoloTime ==
    ASSUME SoloInv, IInv', Tick \/ \E a \in App : Unlock(a)
    PROVE  SoloInv' /\ Kept /\ Moved
<1>1. disk' = disk /\ mem' = mem /\ cmd' = cmd /\ pc' = pc
  BY DEF Tick, Unlock, sessions
<1>2. /\ now \in Nat /\ now' \in Nat /\ unlocked \in [App -> Nat] /\ unlocked' \in [App -> Nat]
  BY DEF SoloInv, IInv, TypeOK, Time
<1>3. NoUnlockAhead
  BY DEF SoloInv
<1>4. /\ now <= now' /\ complete \subseteq complete'
      /\ \A a \in App : unlocked[a] <= unlocked'[a] /\ unlocked'[a] <= now'
  <2>1. CASE Tick
    <3>1. now' = now + 1 /\ unlocked' = unlocked /\ complete' = complete
      BY <2>1 DEF Tick, steam
    <3>2. \A a \in App : unlocked[a] \in Nat /\ unlocked[a] <= now
      BY <1>2, <1>3 DEF NoUnlockAhead
    <3> QED BY <1>2, <3>1, <3>2
  <2>2. ASSUME NEW b \in App, Unlock(b)
        PROVE  /\ now <= now' /\ complete \subseteq complete'
               /\ \A a \in App : unlocked[a] <= unlocked'[a] /\ unlocked'[a] <= now'
    <3>1. /\ now' = now /\ unlocked' = [unlocked EXCEPT ![b] = now]
          /\ complete' = complete \/ complete' = complete \cup {b}
      BY <2>2 DEF Unlock
    <3>2. \A a \in App : unlocked[a] \in Nat /\ unlocked[a] <= now
      BY <1>2, <1>3 DEF NoUnlockAhead
    <3>3. \A a \in App : unlocked'[a] = unlocked[a] \/ unlocked'[a] = now
      BY <1>2, <3>1
    <3>4. complete \subseteq complete'
      BY <3>1
    <3> QED BY <1>2, <3>1, <3>2, <3>3, <3>4
  <2> QED BY <2>1, <2>2
<1>5. NoUnlockAhead'
  BY <1>4 DEF NoUnlockAhead
<1>6. CopiesFresh'
  BY <1>1 DEF SoloInv, CopiesFresh
<1>7. CopiesCarry'
  <2> SUFFICES ASSUME NEW p \in Session, pc[p] \in {"sweep", "verdict", "offer", "confirm"}
               PROVE  Carries(disk, mem[p], now', unlocked', complete')
    BY <1>1 DEF CopiesCarry
  <2>1. disk \in Record /\ OneEntryPerGame(disk) /\ Carries(disk, mem[p], now, unlocked, complete)
    BY SoloFacts
  <2> QED BY <1>2, <1>4, <2>1, CarriesStays DEF Time
<1>8. OffersPlayed'
  <2> SUFFICES ASSUME NEW p \in Session, pc[p] = "offer", cmd[p] \in {"done", "check"}
               PROVE  /\ disk.current \in App
                      /\ SameAssignment(disk, mem[p])
                      /\ PlayedOn(disk, unlocked', complete')
    BY <1>1 DEF OffersPlayed
  <2>1. /\ disk \in Record /\ disk.current \in App /\ SameAssignment(disk, mem[p])
        /\ PlayedOn(disk, unlocked, complete)
    BY SoloFacts
  <2> QED BY <1>2, <1>4, <2>1, PlayedOnStays DEF Time
<1> QED BY <1>1, <1>5, <1>6, <1>7, <1>8, FileUntouched DEF SoloInv

LEMMA SoloInit == Init => SoloInv
<1> SUFFICES ASSUME Init PROVE SoloInv
  OBVIOUS
<1>1. IInv
  BY InitIInv
<1> QED BY <1>1 DEF Init, SoloInv, NoUnlockAhead, CopiesFresh, CopiesCarry, OffersPlayed, NoTime

LEMMA SoloNext ==
    ASSUME \A p, q \in Session : p = q
    PROVE  SoloInv /\ [Next]_vars => SoloInv' /\ [Kept /\ Moved]_vars
<1> SUFFICES ASSUME SoloInv, [Next]_vars
             PROVE  SoloInv' /\ [Kept /\ Moved]_vars
  OBVIOUS
<1>0. IInv'
  BY NextIInv DEF SoloInv
<1>1. ASSUME NEW p \in Session, SessionStep(p) PROVE SoloInv' /\ Kept /\ Moved
  <2>0. \A q \in Session : q = p
    OBVIOUS
  <2>1. ASSUME NEW c \in Command, NEW a \in App \cup {NoApp}, Gate(p, c, a)
        PROVE  SoloInv' /\ Kept /\ Moved
    BY <1>0, <2>0, <2>1, SoloGate
  <2>2. CASE Load(p)
    BY <1>0, <2>0, <2>2, SoloLoad
  <2>3. CASE Sweep(p)
    BY <1>0, <2>0, <2>3, SoloSweep
  <2>4. CASE Verdict(p)
    BY <1>0, <2>0, <2>4, SoloVerdict
  <2>5. CASE NothingToOffer(p)
    BY <1>0, <2>0, <2>5, SoloNothingToOffer
  <2>6. ASSUME NEW a \in App, Choose(p, a) PROVE SoloInv' /\ Kept /\ Moved
    BY <1>0, <2>0, <2>6, SoloChoose
  <2>7. ASSUME NEW a \in App, Decline(p, a) PROVE SoloInv' /\ Kept /\ Moved
    BY <1>0, <2>0, <2>7, SoloDecline
  <2>8. CASE Confirm(p)
    BY <1>0, <2>0, <2>8, SoloConfirm
  <2>9. CASE Abort(p)
    BY <1>0, <2>0, <2>9, SoloAbort
  <2> QED BY <1>1, <2>1, <2>2, <2>3, <2>4, <2>5, <2>6, <2>7, <2>8, <2>9 DEF SessionStep
<1>2. CASE Tick \/ \E a \in App : Unlock(a)
  BY <1>0, <1>2, SoloTime
<1>3. CASE UNCHANGED vars
  <2>1. SoloInv'
    BY <1>0, <1>3 DEF vars, sessions, steam, SoloInv, NoUnlockAhead, CopiesFresh, CopiesCarry,
                      OffersPlayed
  <2> QED BY <1>3, <2>1
<1> QED BY <1>1, <1>2, <1>3 DEF Next

\* With one session at a time, a locked pick outlives every command but its
\* abandonment and a reset, until it earned its release or its deadline: for any
\* library, caps, cooldowns and order of commands.
THEOREM LockedPicksHold ==
    ASSUME \A p, q \in Session : p = q
    PROVE  Spec => PicksHold
<1>1. SoloInv /\ [Next]_vars => SoloInv' /\ [Kept]_vars
  BY SoloNext
<1> QED BY SoloInit, <1>1, PTL DEF Spec, PicksHold, Kept

\* With one session at a time, done and check give out another game only for one
\* that was finished or played on.
THEOREM NobodyMovesOnUnearned ==
    ASSUME \A p, q \in Session : p = q
    PROVE  Spec => MovesOnWhenEarned
<1>1. SoloInv /\ [Next]_vars => SoloInv' /\ [Moved]_vars
  BY SoloNext
<1> QED BY SoloInit, <1>1, PTL DEF Spec, MovesOnWhenEarned, Moved
=============================================================================
