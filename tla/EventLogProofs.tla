---------------------------- MODULE EventLogProofs ----------------------------
(***************************************************************************)
(* Proofs about EventLog: for any threads that look a job up, anything the  *)
(* job writes and any number of broken connections, the sequence numbers    *)
(* increase and the browser has seen the events up to its last one.         *)
(***************************************************************************)
EXTENDS EventLog, SequenceTheorems, WellFoundedInduction, TLAPS

LEMMA SetInduction ==
    ASSUME NEW T, 0 \in T, \A n \in Nat : n \in T => n + 1 \in T
    PROVE  \A n \in Nat : n \in T
<1> DEFINE B == {n \in Nat : n \notin T}
<1>1. SUFFICES ASSUME B # {} PROVE FALSE
  OBVIOUS
<1>2. PICK b \in B : \A m \in B : ~(<<m, b>> \in OpToRel(<, Nat))
  <2>1. B \subseteq Nat /\ B # {}
    BY <1>1
  <2> HIDE DEF B
  <2> QED
    BY <2>1, NatLessThanWellFounded, WFMin
<1>3. b \in Nat /\ b \notin T /\ b # 0
  BY <1>2
<1>4. b - 1 \in Nat /\ b - 1 < b
  BY <1>3
<1>5. b - 1 \in T
  BY <1>2, <1>4 DEF OpToRel
<1>6. (b - 1) + 1 \in T
  BY <1>4, <1>5
<1>7. (b - 1) + 1 = b
  BY <1>3
<1> QED
  BY <1>3, <1>6, <1>7

-----------------------------------------------------------------------------
(* The events among the first n lines, those after number from. *)

IsEvent(e, from) == e.kind \in EventKinds /\ e.seq > from
Take(acc, e, from) == IF IsEvent(e, from) THEN Append(acc, e) ELSE acc
Takes(f, s, from, n) == f = [k \in 0..n |-> IF k = 0 THEN <<>> ELSE Take(f[k - 1], s[k], from)]
Taking(s, from, n) == CHOOSE f : Takes(f, s, from, n)
Taken(s, from, n) == Taking(s, from, n)[n]

LEMMA ReadEventsIs == ASSUME NEW from PROVE ReadEvents(from) = Taken(log, from, Len(log))
BY DEF ReadEvents, Taken, Taking, Takes, Take, IsEvent

LEMMA ReadingExists ==
    ASSUME NEW s, NEW from PROVE \A n \in Nat : \E f : Takes(f, s, from, n)
<1> DEFINE T == {n \in Nat : \E f : Takes(f, s, from, n)}
<1>1. 0 \in T
  <2> DEFINE f == [k \in 0..0 |-> <<>>]
  <2>1. Takes(f, s, from, 0)
    BY DEF Takes
  <2> QED
    BY <2>1
<1>2. ASSUME NEW n \in Nat, n \in T PROVE n + 1 \in T
  <2>1. PICK f : Takes(f, s, from, n)
    BY <1>2
  <2> DEFINE g == [k \in 0..(n + 1) |-> IF k <= n THEN f[k] ELSE Take(f[n], s[n + 1], from)]
  <2>2. \A k \in 0..n : f[k] = IF k = 0 THEN <<>> ELSE Take(f[k - 1], s[k], from)
    BY <2>1 DEF Takes
  <2>3. ASSUME NEW k \in 0..(n + 1)
        PROVE  g[k] = IF k = 0 THEN <<>> ELSE Take(g[k - 1], s[k], from)
    <3>1. CASE k = 0
      BY <2>2, <3>1
    <3>2. CASE k # 0
      <4>1. k - 1 \in 0..n /\ k - 1 \in 0..(n + 1)
        BY <3>2
      <4>2. g[k - 1] = f[k - 1]
        BY <4>1
      <4>3. CASE k <= n
        <5>1. g[k] = f[k] /\ f[k] = Take(f[k - 1], s[k], from)
          BY <2>2, <3>2, <4>3
        <5> QED
          BY <3>2, <4>2, <5>1
      <4>4. CASE ~(k <= n)
        <5>1. k - 1 = n /\ k = n + 1 /\ g[k] = Take(f[n], s[n + 1], from)
          BY <4>4
        <5> QED
          BY <3>2, <4>2, <5>1
      <4> QED
        BY <4>3, <4>4
    <3> QED
      BY <3>1, <3>2
  <2>4. Takes(g, s, from, n + 1)
    <3>1. g = [k \in 0..(n + 1) |-> g[k]]
      OBVIOUS
    <3> HIDE DEF g
    <3>2. g = [k \in 0..(n + 1) |-> IF k = 0 THEN <<>> ELSE Take(g[k - 1], s[k], from)]
      BY <2>3, <3>1
    <3> QED
      BY <3>2 DEF Takes
  <2> QED
    BY <2>4
<1> HIDE DEF T
<1>3. \A n \in Nat : n \in T
  BY <1>1, <1>2, SetInduction
<1> QED
  BY <1>3 DEF T

\* Lists that agree on their first n lines keep the same of them.
LEMMA ReadingUnique ==
    ASSUME NEW s, NEW t, NEW from, NEW n \in Nat, NEW m \in Nat, NEW q \in Nat, n <= m, n <= q,
           \A k \in 1..n : s[k] = t[k],
           NEW f, NEW g, Takes(f, s, from, m), Takes(g, t, from, q)
    PROVE  f[n] = g[n]
<1> DEFINE T == {k \in Nat : k <= n => f[k] = g[k]}
<1>1. \A k \in 0..n : /\ f[k] = IF k = 0 THEN <<>> ELSE Take(f[k - 1], s[k], from)
                      /\ g[k] = IF k = 0 THEN <<>> ELSE Take(g[k - 1], t[k], from)
  BY DEF Takes
<1>2. 0 \in T
  BY <1>1
<1>3. ASSUME NEW k \in Nat, k \in T PROVE k + 1 \in T
  <2> SUFFICES ASSUME k + 1 <= n PROVE f[k + 1] = g[k + 1]
    OBVIOUS
  <2>1. f[k] = g[k] /\ s[k + 1] = t[k + 1]
    BY <1>3
  <2>2. k + 1 \in 0..n /\ k + 1 # 0 /\ (k + 1) - 1 = k
    OBVIOUS
  <2> QED
    BY <1>1, <2>1, <2>2
<1> HIDE DEF T
<1>4. n \in T
  BY <1>2, <1>3, SetInduction
<1> QED
  BY <1>4 DEF T

LEMMA KeptAgree ==
    ASSUME NEW s, NEW t, NEW from, NEW n \in Nat, \A k \in 1..n : s[k] = t[k]
    PROVE  Taken(s, from, n) = Taken(t, from, n)
<1> DEFINE f == Taking(s, from, n)  g == Taking(t, from, n)
<1>1. Takes(f, s, from, n) /\ Takes(g, t, from, n)
  BY ReadingExists DEF Taking
<1> HIDE DEF f, g
<1>2. f[n] = g[n]
  BY <1>1, ReadingUnique
<1> QED
  BY <1>2 DEF Taken, f, g

LEMMA KeptIs ==
    ASSUME NEW s, NEW from
    PROVE  /\ Taken(s, from, 0) = <<>>
           /\ \A n \in Nat : Taken(s, from, n + 1) = Take(Taken(s, from, n), s[n + 1], from)
<1>1. \A n \in Nat : Takes(Taking(s, from, n), s, from, n)
  BY ReadingExists DEF Taking
<1>2. Taken(s, from, 0) = <<>>
  <2>1. Takes(Taking(s, from, 0), s, from, 0)
    BY <1>1
  <2> QED
    BY <2>1 DEF Takes, Taken
<1>3. ASSUME NEW n \in Nat PROVE Taken(s, from, n + 1) = Take(Taken(s, from, n), s[n + 1], from)
  <2> DEFINE f == Taking(s, from, n)  g == Taking(s, from, n + 1)
  <2>1. Takes(f, s, from, n) /\ Takes(g, s, from, n + 1)
    BY <1>1
  <2> HIDE DEF f, g
  <2>2. f[n] = g[n]
    BY <2>1, ReadingUnique
  <2>3. g[n + 1] = Take(g[n], s[n + 1], from)
    <3>1. n + 1 \in 0..(n + 1) /\ n + 1 # 0 /\ (n + 1) - 1 = n
      OBVIOUS
    <3> QED
      BY <2>1, <3>1 DEF Takes
  <2> QED
    BY <2>2, <2>3 DEF Taken, f, g
<1> QED
  BY <1>2, <1>3

LEMMA KeptType ==
    ASSUME NEW s \in Seq(Lines), NEW from \in Nat
    PROVE  \A n \in Nat : n <= Len(s) =>
              /\ Taken(s, from, n) \in Seq(Lines)
              /\ \A i \in 1..Len(Taken(s, from, n)) : IsEvent(Taken(s, from, n)[i], from)
<1> DEFINE T == {n \in Nat : n <= Len(s) =>
              /\ Taken(s, from, n) \in Seq(Lines)
              /\ \A i \in 1..Len(Taken(s, from, n)) : IsEvent(Taken(s, from, n)[i], from)}
<1>1. 0 \in T
  <2>1. Taken(s, from, 0) = <<>>
    BY KeptIs
  <2> DEFINE K == Taken(s, from, 0)
  <2>2. K \in Seq(Lines) /\ \A i \in 1..Len(K) : IsEvent(K[i], from)
    <3>1. K = <<>>
      BY <2>1
    <3> HIDE DEF K
    <3> QED
      BY <3>1
  <2> QED
    BY <2>2
<1>2. ASSUME NEW n \in Nat, n \in T PROVE n + 1 \in T
  <2> SUFFICES ASSUME n + 1 <= Len(s)
               PROVE  /\ Taken(s, from, n + 1) \in Seq(Lines)
                      /\ \A i \in 1..Len(Taken(s, from, n + 1)) : IsEvent(Taken(s, from, n + 1)[i], from)
    OBVIOUS
  <2> DEFINE K == Taken(s, from, n)  L == Taken(s, from, n + 1)  e == s[n + 1]
  <2>1. K \in Seq(Lines) /\ \A i \in 1..Len(K) : IsEvent(K[i], from)
    BY <1>2
  <2>2. L = Take(K, e, from)
    BY KeptIs
  <2>3. e \in Lines
    OBVIOUS
  <2> HIDE DEF K, L, e
  <2>4. CASE IsEvent(e, from)
    <3>1. L = Append(K, e)
      BY <2>2, <2>4 DEF Take
    <3>2. L \in Seq(Lines) /\ Len(L) = Len(K) + 1 /\ L[Len(K) + 1] = e
          /\ \A i \in 1..Len(K) : L[i] = K[i]
      BY <2>1, <2>3, <3>1
    <3>3. \A i \in 1..Len(L) : i \in 1..Len(K) \/ i = Len(K) + 1
      BY <2>1, <3>2
    <3>4. \A i \in 1..Len(L) : IsEvent(L[i], from)
      BY <2>1, <2>4, <3>2, <3>3
    <3> QED
      BY <3>2, <3>4 DEF L
  <2>5. CASE ~IsEvent(e, from)
    <3>1. L = K
      BY <2>2, <2>5 DEF Take
    <3> QED
      BY <2>1, <3>1 DEF L
  <2> QED
    BY <2>4, <2>5
<1> HIDE DEF T
<1>3. \A n \in Nat : n \in T
  BY <1>1, <1>2, SetInduction
<1> QED
  BY <1>3 DEF T

\* Where the numbers exceed a from event m on, the events after a are those.
LEMMA KeptLater ==
    ASSUME NEW s \in Seq(Lines), NEW a \in Nat, NEW m \in Nat
    PROVE  \A n \in Nat :
              n <= Len(s) /\ (\A i \in 1..Len(Taken(s, 0, n)) : Taken(s, 0, n)[i].seq > a <=> i > m) =>
                 /\ Len(Taken(s, a, n)) = IF Len(Taken(s, 0, n)) <= m THEN 0 ELSE Len(Taken(s, 0, n)) - m
                 /\ \A i \in 1..Len(Taken(s, a, n)) : Taken(s, a, n)[i] = Taken(s, 0, n)[m + i]
<1> DEFINE Split(K) == \A i \in 1..Len(K) : K[i].seq > a <=> i > m
           Rest(J, K) == /\ Len(J) = IF Len(K) <= m THEN 0 ELSE Len(K) - m
                         /\ \A i \in 1..Len(J) : J[i] = K[m + i]
           T == {n \in Nat : n <= Len(s) /\ Split(Taken(s, 0, n)) => Rest(Taken(s, a, n), Taken(s, 0, n))}
<1>1. 0 \in T
  BY KeptIs
<1>2. ASSUME NEW n \in Nat, n \in T PROVE n + 1 \in T
  <2> DEFINE K == Taken(s, 0, n)  L == Taken(s, 0, n + 1)  e == s[n + 1]
             J == Taken(s, a, n)  M == Taken(s, a, n + 1)
  <2> SUFFICES ASSUME n + 1 <= Len(s), Split(L) PROVE Rest(M, L)
    OBVIOUS
  <2>1. K \in Seq(Lines) /\ J \in Seq(Lines)
    BY KeptType
  <2>2. L = Take(K, e, 0) /\ M = Take(J, e, a)
    BY KeptIs
  <2>3. e \in Lines
    OBVIOUS
  <2>4. Split(K) => Rest(J, K)
    BY <1>2
  <2> HIDE DEF K, L, M, J, e, T
  <2>5. CASE ~IsEvent(e, 0)
    <3>1. ~IsEvent(e, a)
      BY <2>3, <2>5 DEF IsEvent, Lines
    <3>2. L = K /\ M = J
      BY <2>2, <2>5, <3>1 DEF Take
    <3> QED
      BY <2>4, <3>2
  <2>6. CASE IsEvent(e, 0)
    <3>1. L = Append(K, e)
      BY <2>2, <2>6 DEF Take
    <3>2. /\ L \in Seq(Lines) /\ Len(L) = Len(K) + 1 /\ L[Len(K) + 1] = e
          /\ \A i \in 1..Len(K) : L[i] = K[i]
      BY <2>1, <2>3, <3>1
    <3>3. Len(K) \in Nat /\ Len(J) \in Nat
      BY <2>1
    <3>4. Split(K)
      BY <3>2, <3>3
    <3>5. Rest(J, K)
      BY <2>4, <3>4
    <3>6. e.seq > a <=> Len(K) + 1 > m
      BY <3>2, <3>3
    <3>7. CASE Len(K) + 1 > m
      <4>1. M = Append(J, e)
        BY <2>2, <2>6, <3>6, <3>7 DEF Take, IsEvent
      <4>2. /\ Len(M) = Len(J) + 1 /\ M[Len(J) + 1] = e
            /\ \A i \in 1..Len(J) : M[i] = J[i]
        BY <2>1, <2>3, <4>1
      <4>3. Len(J) = Len(K) - m
        BY <3>3, <3>5, <3>7
      <4>4. ASSUME NEW i \in 1..Len(M) PROVE M[i] = L[m + i]
        <5>1. CASE i = Len(J) + 1
          <6>1. m + i = Len(K) + 1
            BY <3>3, <4>3, <5>1
          <6> QED
            BY <3>2, <4>2, <5>1, <6>1
        <5>2. CASE i # Len(J) + 1
          <6>1. i \in 1..Len(J)
            BY <3>3, <4>2, <5>2
          <6>2. m + i \in 1..Len(K)
            BY <3>3, <4>3, <6>1
          <6> QED
            BY <3>2, <3>5, <4>2, <6>1, <6>2
        <5> QED
          BY <5>1, <5>2
      <4>5. Len(M) = Len(L) - m /\ ~(Len(L) <= m)
        BY <3>2, <3>3, <3>7, <4>2, <4>3
      <4> QED
        BY <4>4, <4>5
    <3>8. CASE ~(Len(K) + 1 > m)
      <4>1. M = J
        BY <2>2, <2>6, <3>6, <3>8 DEF Take, IsEvent
      <4>2. Len(J) = 0 /\ Len(L) <= m
        BY <3>2, <3>3, <3>5, <3>8
      <4> QED
        BY <4>1, <4>2
    <3> QED
      BY <3>7, <3>8
  <2> QED
    BY <2>5, <2>6
<1> HIDE DEF T
<1>3. \A n \in Nat : n \in T
  BY <1>1, <1>2, SetInduction
<1> QED
  BY <1>3 DEF T

\* A line at the end.
LEMMA AppendKeeps ==
    ASSUME NEW s \in Seq(Lines), NEW e \in Lines
    PROVE  Taken(Append(s, e), 0, Len(s) + 1) = Take(Taken(s, 0, Len(s)), e, 0)
<1> DEFINE t == Append(s, e)
<1>1. Len(s) \in Nat /\ t[Len(s) + 1] = e /\ \A k \in 1..Len(s) : s[k] = t[k]
  OBVIOUS
<1> HIDE DEF t
<1>2. Taken(s, 0, Len(s)) = Taken(t, 0, Len(s))
  BY <1>1, KeptAgree
<1>3. Taken(t, 0, Len(s) + 1) = Take(Taken(t, 0, Len(s)), t[Len(s) + 1], 0)
  BY <1>1, KeptIs
<1> QED
  BY <1>1, <1>2, <1>3 DEF t

\* A line in the place of the last one, where neither is an event.
LEMMA FrontKeeps ==
    ASSUME NEW s \in Seq(Lines), NEW e \in Lines, s # <<>>, ~IsEvent(Last(s), 0), ~IsEvent(e, 0)
    PROVE  /\ Append(Front(s), e) \in Seq(Lines) /\ Len(Append(Front(s), e)) = Len(s)
           /\ Taken(Append(Front(s), e), 0, Len(s)) = Taken(s, 0, Len(s))
<1> DEFINE t == Append(Front(s), e)  n == Len(s) - 1
<1>1. n \in Nat /\ n + 1 = Len(s)
  OBVIOUS
<1>2. t \in Seq(Lines) /\ Len(t) = Len(s) /\ t[n + 1] = e /\ \A k \in 1..n : t[k] = s[k]
  <2>1. Front(s) \in Seq(Lines) /\ Len(Front(s)) = n /\ \A k \in 1..n : Front(s)[k] = s[k]
    BY <1>1 DEF Front
  <2> DEFINE F == Front(s)
  <2>2. F \in Seq(Lines) /\ Len(F) = n /\ \A k \in 1..n : F[k] = s[k]
    BY <2>1
  <2> HIDE DEF F, n
  <2>3. /\ Append(F, e) \in Seq(Lines) /\ Len(Append(F, e)) = n + 1 /\ Append(F, e)[n + 1] = e
        /\ \A k \in 1..n : Append(F, e)[k] = F[k]
    BY <2>2
  <2> QED
    BY <1>1, <2>2, <2>3 DEF F
<1>3. s[n + 1] = Last(s)
  BY <1>1 DEF Last
<1> HIDE DEF t, n
<1>4. Taken(t, 0, n) = Taken(s, 0, n)
  BY <1>1, <1>2, KeptAgree
<1>5. Taken(t, 0, n + 1) = Take(Taken(t, 0, n), t[n + 1], 0)
  BY <1>1, KeptIs
<1>6. Taken(s, 0, n + 1) = Take(Taken(s, 0, n), s[n + 1], 0)
  BY <1>1, KeptIs
<1>7. Taken(t, 0, n + 1) = Taken(s, 0, n + 1)
  BY <1>2, <1>3, <1>4, <1>5, <1>6 DEF Take
<1> QED
  BY <1>1, <1>2, <1>7 DEF t

-----------------------------------------------------------------------------
(***************************************************************************)
(* The invariant.  A writer that wrote last knows a number no smaller than *)
(* the last one, and one that did not sees it.  What the browser took in   *)
(* and what is on its way to it are the first events, and an open stream   *)
(* goes on with the next.                                                  *)
(***************************************************************************)
Events == ReadEvents(0)
Shown == Len(seen) + Len(wire)
SeqAt(n) == IF n = 0 THEN 0 ELSE Events[n].seq

Numbered ==
    \A w \in Writers : /\ writer[w].size <= size
                       /\ writer[w].size = size => LastSeq <= writer[w].seq
Followed ==
    /\ Shown <= Len(Events)
    /\ \A i \in 1..Len(seen) : seen[i] = Events[i]
    /\ \A i \in 1..Len(wire) : wire[i] = Events[Len(seen) + i]
    /\ liveJob.lastSeq = SeqAt(Len(seen))
    /\ stream \in {"read", "judge"} => after = SeqAt(Shown)
    /\ stream = "none" => wire = <<>>
LogInv == EventLogTypeOK /\ Numbered /\ SeqsIncrease /\ Followed

LEMMA EventsIs == Events = Taken(log, 0, Len(log)) /\ Events' = Taken(log', 0, Len(log'))
<1>1. Events = Taken(log, 0, Len(log))
  BY DEF Events, ReadEvents, Taken, Taking, Takes, Take, IsEvent
<1>2. Events' = Taken(log', 0, Len(log'))
  BY DEF Events, ReadEvents, Taken, Taking, Takes, Take, IsEvent
<1> QED
  BY <1>1, <1>2

LEMMA EventsAre ==
    ASSUME EventLogTypeOK
    PROVE  /\ Events \in Seq(Lines) /\ \A i \in 1..Len(Events) : IsEvent(Events[i], 0)
           /\ Events = Taken(log, 0, Len(log)) /\ log \in Seq(Lines)
<1>1. log \in Seq(Lines) /\ Len(log) \in Nat /\ Len(log) <= Len(log)
  BY DEF EventLogTypeOK
<1>2. Events = Taken(log, 0, Len(log))
  BY EventsIs
<1> QED
  BY <1>1, <1>2, KeptType

LEMMA LastIsGreatest ==
    ASSUME EventLogTypeOK, SeqsIncrease
    PROVE  LastSeq \in Nat /\ \A i \in 1..Len(Events) : Events[i].seq <= LastSeq
<1>1. Events \in Seq(Lines) /\ LastSeq = IF Events = <<>> THEN 0 ELSE Last(Events).seq
  BY EventsAre DEF LastSeq, Events
<1>2. \A i, j \in 1..Len(Events) : i < j => Events[i].seq < Events[j].seq
  BY <1>1 DEF SeqsIncrease, Events
<1> DEFINE E == Events
<1> HIDE DEF E
<1>3. CASE Events = <<>>
  BY <1>1, <1>3
<1>4. CASE Events # <<>>
  <2>1. Len(Events) \in 1..Len(Events) /\ LastSeq = Events[Len(Events)].seq
    BY <1>1, <1>4 DEF Last
  <2>2. \A i \in 1..Len(Events) : Events[i] \in Lines
    BY <1>1
  <2>3. \A i \in 1..Len(Events) : Events[i].seq \in Nat
    BY <2>2 DEF Lines
  <2>4. ASSUME NEW i \in 1..Len(Events) PROVE Events[i].seq <= Events[Len(Events)].seq
    <3>1. CASE i = Len(Events)
      BY <2>1, <2>3, <3>1
    <3>2. CASE i # Len(Events)
      <4>1. i < Len(Events)
        BY <1>1, <3>2
      <4> QED
        BY <1>2, <2>1, <2>3, <4>1
    <3> QED
      BY <3>1, <3>2
  <2> QED
    BY <2>1, <2>3, <2>4
<1> QED
  BY <1>3, <1>4

\* The next event has a number that exceeds all others, whoever writes it.
LEMMA NextExceeds ==
    ASSUME EventLogTypeOK, SeqsIncrease, Numbered, NEW w \in Writers
    PROVE  NextSeq(w) \in Nat /\ NextSeq(w) > LastSeq
<1>1. LastSeq \in Nat
  BY LastIsGreatest
<1>2. writer[w].seq \in Nat
  BY DEF EventLogTypeOK
<1> QED
  BY <1>1, <1>2 DEF NextSeq, Numbered

\* An event more, or none.
Grown == \/ Events' = Events
         \/ \E e \in Lines : Events' = Append(Events, e) /\ e.seq > LastSeq /\ e.kind \in EventKinds

LEMMA EmitGrows ==
    ASSUME LogInv, NEW w \in Writers, NEW kind \in EventKinds, Emit(w, kind)
    PROVE  /\ log' \in Seq(Lines) /\ size' \in Nat /\ writer' \in [Writers -> [seq: Nat, size: Int]]
           /\ Grown /\ LastSeq' <= NextSeq(w)
           /\ size' = size + 1 /\ writer' = [writer EXCEPT ![w] = [seq |-> NextSeq(w), size |-> size + 1]]
<1> DEFINE e == [seq |-> NextSeq(w), kind |-> kind]  b == [seq |-> NextSeq(w), kind |-> "bad"]
<1>1. EventLogTypeOK /\ SeqsIncrease /\ Numbered
  BY DEF LogInv
<1>2. NextSeq(w) \in Nat /\ NextSeq(w) > LastSeq /\ LastSeq \in Nat
  BY <1>1, NextExceeds, LastIsGreatest
<1>3. e \in Lines /\ b \in Lines /\ e.seq = NextSeq(w) /\ e.kind = kind /\ IsEvent(e, 0) /\ ~IsEvent(b, 0)
  BY <1>2 DEF Lines, IsEvent, EventKinds
<1>4. size' = size + 1 /\ writer' = [writer EXCEPT ![w] = [seq |-> NextSeq(w), size |-> size + 1]]
  BY DEF Emit
<1>5. size \in Nat /\ writer \in [Writers -> [seq: Nat, size: Int]]
  BY <1>1 DEF EventLogTypeOK
<1>6. size' \in Nat /\ writer' \in [Writers -> [seq: Nat, size: Int]]
  BY <1>2, <1>4, <1>5
<1>7. /\ Events \in Seq(Lines) /\ log \in Seq(Lines) /\ Events = Taken(log, 0, Len(log))
      /\ Events' = Taken(log', 0, Len(log'))
      /\ LastSeq = IF Events = <<>> THEN 0 ELSE Last(Events).seq
      /\ LastSeq' = IF Events' = <<>> THEN 0 ELSE Last(Events').seq
  <2>1. LastSeq = IF Events = <<>> THEN 0 ELSE Last(Events).seq
    BY DEF LastSeq, Events
  <2>2. LastSeq' = IF Events' = <<>> THEN 0 ELSE Last(Events').seq
    BY DEF LastSeq, Events
  <2> QED
    BY <1>1, <2>1, <2>2, EventsAre, EventsIs, Zenon
<1>8. CASE log # <<>> /\ Last(log).kind = "partial"
  <2>1. log' = Append(Front(log), b)
    BY <1>8 DEF Emit
  <2>2. ~IsEvent(Last(log), 0)
    BY <1>8 DEF IsEvent, EventKinds
  <2>3. /\ Append(Front(log), b) \in Seq(Lines) /\ Len(Append(Front(log), b)) = Len(log)
        /\ Taken(Append(Front(log), b), 0, Len(log)) = Taken(log, 0, Len(log))
    BY <1>3, <1>7, <1>8, <2>2, FrontKeeps
  <2>4. log' \in Seq(Lines) /\ Events' = Events
    BY <1>7, <2>1, <2>3, Zenon
  <2>5. LastSeq' = LastSeq
    BY <1>7, <2>4
  <2> QED
    BY <1>2, <1>4, <1>6, <2>4, <2>5 DEF Grown
<1>9. CASE ~(log # <<>> /\ Last(log).kind = "partial")
  <2>1. log' = Append(log, e)
    BY <1>9 DEF Emit
  <2> HIDE DEF e
  <2>2. Len(log') = Len(log) + 1 /\ log' \in Seq(Lines)
    BY <1>3, <1>7, <2>1
  <2>3. Taken(Append(log, e), 0, Len(log) + 1) = Take(Taken(log, 0, Len(log)), e, 0)
    BY <1>3, <1>7, AppendKeeps
  <2>4. Events' = Append(Events, e)
    BY <1>3, <1>7, <2>1, <2>2, <2>3 DEF Take
  <2>5. Events' # <<>> /\ Last(Events') = e
    BY <1>3, <1>7, <2>4 DEF Last
  <2>6. LastSeq' = NextSeq(w)
    BY <1>3, <1>7, <2>5
  <2>7. Grown
    BY <1>2, <1>3, <2>4 DEF Grown
  <2> QED
    BY <1>2, <1>4, <1>6, <2>2, <2>6, <2>7
<1> QED
  BY <1>8, <1>9

\* What the browser and the stream go by survives.
LEMMA GrownKeeps ==
    ASSUME LogInv, EventLogTypeOK', Grown,
           UNCHANGED <<seen, wire, liveJob, stream, after>>
    PROVE  SeqsIncrease' /\ Followed'
<1>1. EventLogTypeOK /\ SeqsIncrease /\ Followed
  BY DEF LogInv
<1>2. /\ Events \in Seq(Lines) /\ seen \in Seq(Lines) /\ wire \in Seq(Lines)
      /\ \A i, j \in 1..Len(Events) : i < j => Events[i].seq < Events[j].seq
  <2>1. Events \in Seq(Lines)
    BY <1>1, EventsAre
  <2>2. \A i, j \in DOMAIN Events : i < j => Events[i].seq < Events[j].seq
    BY <1>1 DEF SeqsIncrease, Events
  <2>3. DOMAIN Events = 1..Len(Events)
    BY <2>1
  <2>4. seen \in Seq(Lines) /\ wire \in Seq(Lines)
    BY <1>1 DEF EventLogTypeOK
  <2> QED
    BY <2>1, <2>2, <2>3, <2>4, Zenon
<1>3. CASE Events' = Events
  BY <1>1, <1>3 DEF SeqsIncrease, Followed, Shown, SeqAt, Events
<1>4. ASSUME NEW e \in Lines, Events' = Append(Events, e), e.seq > LastSeq
      PROVE  SeqsIncrease' /\ Followed'
  <2>1. LastSeq \in Nat /\ \A i \in 1..Len(Events) : Events[i].seq <= LastSeq
    BY <1>1, LastIsGreatest
  <2>2. \A i \in 1..Len(Events) : Events[i] \in Lines
    BY <1>2
  <2>3. e.seq \in Nat /\ \A i \in 1..Len(Events) : Events[i].seq \in Nat
    BY <2>2 DEF Lines
  <2>4. Len(Events) \in Nat
    BY <1>2
  <2>5. /\ DOMAIN Events' = 1..(Len(Events) + 1) /\ Len(Events') = Len(Events) + 1
        /\ Events'[Len(Events) + 1] = e /\ \A i \in 1..Len(Events) : Events'[i] = Events[i]
    BY <1>2, <1>4
  <2>6. ASSUME NEW i \in DOMAIN Events', NEW j \in DOMAIN Events', i < j
        PROVE  Events'[i].seq < Events'[j].seq
    <3>1. i \in 1..Len(Events)
      BY <2>4, <2>5, <2>6
    <3>2. CASE j \in 1..Len(Events)
      BY <1>2, <2>5, <2>6, <3>1, <3>2
    <3>3. CASE j = Len(Events) + 1
      <4>1. Events'[i].seq = Events[i].seq /\ Events'[j].seq = e.seq
        BY <2>5, <3>1, <3>3
      <4>2. Events[i].seq <= LastSeq /\ Events[i].seq \in Nat
        BY <2>1, <2>3, <3>1
      <4> QED
        BY <1>4, <2>1, <2>3, <4>1, <4>2
    <3> QED
      BY <2>4, <2>5, <3>2, <3>3
  <2>7. SeqsIncrease'
    BY <2>6 DEF SeqsIncrease, Events
  <2>8. Len(seen) \in Nat /\ Len(wire) \in Nat /\ Len(seen) + Len(wire) <= Len(Events)
    BY <1>1, <1>2 DEF Followed, Shown
  <2>9. \A n \in 0..Len(Events) : SeqAt(n)' = SeqAt(n)
    BY <2>4, <2>5 DEF SeqAt
  <2>10. (SeqAt(Len(seen)))' = SeqAt(Len(seen)) /\ (SeqAt(Shown))' = SeqAt(Shown)
    BY <2>4, <2>5, <2>8 DEF SeqAt, Shown
  <2>11. /\ Shown' = Shown /\ seen' = seen /\ wire' = wire /\ liveJob' = liveJob /\ stream' = stream
         /\ after' = after
    BY DEF Shown
  <2>12. /\ Shown <= Len(Events)
         /\ \A i \in 1..Len(seen) : seen[i] = Events[i] /\ i \in 1..Len(Events)
         /\ \A i \in 1..Len(wire) : wire[i] = Events[Len(seen) + i] /\ Len(seen) + i \in 1..Len(Events)
         /\ liveJob.lastSeq = SeqAt(Len(seen))
         /\ stream \in {"read", "judge"} => after = SeqAt(Shown)
         /\ stream = "none" => wire = <<>>
    BY <1>1, <2>4, <2>8 DEF Followed
  <2>13. \A i \in 1..Len(seen') : seen'[i] = Events'[i]
    BY <2>5, <2>11, <2>12
  <2>14. \A i \in 1..Len(wire') : wire'[i] = Events'[Len(seen') + i]
    BY <2>5, <2>11, <2>12
  <2>15. Shown' <= Len(Events')
    BY <2>4, <2>5, <2>8, <2>11 DEF Shown
  <2>16. Followed'
    BY <2>10, <2>11, <2>12, <2>13, <2>14, <2>15 DEF Followed
  <2> QED
    BY <2>7, <2>16
<1> QED
  BY <1>3, <1>4 DEF Grown

\* What is read after an event are the events after it.
LEMMA LaterAre ==
    ASSUME EventLogTypeOK, SeqsIncrease, NEW m \in 0..Len(Events), NEW a, a = SeqAt(m)
    PROVE  /\ a \in Nat /\ ReadEvents(a) \in Seq(Lines) /\ Len(ReadEvents(a)) = Len(Events) - m
           /\ \A i \in 1..Len(ReadEvents(a)) : ReadEvents(a)[i] = Events[m + i]
<1>1. /\ Events \in Seq(Lines) /\ \A i \in 1..Len(Events) : IsEvent(Events[i], 0)
      /\ Events = Taken(log, 0, Len(log)) /\ log \in Seq(Lines)
  BY EventsAre
<1>2. \A i, j \in 1..Len(Events) : i < j => Events[i].seq < Events[j].seq
  <2>1. DOMAIN Events = 1..Len(Events)
    BY <1>1
  <2> QED
    BY <2>1 DEF SeqsIncrease, Events
<1>3. Len(Events) \in Nat /\ Len(log) \in Nat /\ Len(log) <= Len(log)
  BY <1>1
<1>4. \A i \in 1..Len(Events) : Events[i].seq \in Nat /\ Events[i].seq > 0
  <2>1. \A i \in 1..Len(Events) : Events[i] \in Lines
    BY <1>1
  <2> QED
    BY <1>1, <2>1 DEF Lines, IsEvent
<1>5. a \in Nat /\ \A i \in 1..Len(Events) : Events[i].seq > a <=> i > m
  <2>1. CASE m = 0
    BY <1>3, <1>4, <2>1 DEF SeqAt
  <2>2. CASE m # 0
    <3>1. m \in 1..Len(Events) /\ a = Events[m].seq
      BY <1>3, <2>2 DEF SeqAt
    <3>2. ASSUME NEW i \in 1..Len(Events) PROVE Events[i].seq > a <=> i > m
      <4>1. CASE i > m
        BY <1>2, <1>4, <3>1, <4>1
      <4>2. CASE i = m
        BY <1>4, <3>1, <4>2
      <4>3. CASE i < m
        <5>1. Events[i].seq < a
          BY <1>2, <3>1, <4>3
        <5> QED
          BY <1>4, <3>1, <4>3, <5>1
      <4> QED
        BY <1>3, <3>1, <4>1, <4>2, <4>3
    <3> QED
      BY <1>4, <3>1, <3>2
  <2> QED
    BY <2>1, <2>2
<1>6. ReadEvents(a) = Taken(log, a, Len(log))
  BY ReadEventsIs
<1>7. ReadEvents(a) \in Seq(Lines)
  BY <1>1, <1>3, <1>5, <1>6, KeptType
<1>8. /\ Len(Taken(log, a, Len(log))) = IF Len(Taken(log, 0, Len(log))) <= m THEN 0
                                      ELSE Len(Taken(log, 0, Len(log))) - m
      /\ \A i \in 1..Len(Taken(log, a, Len(log))) :
            Taken(log, a, Len(log))[i] = Taken(log, 0, Len(log))[m + i]
  <2>1. \A i \in 1..Len(Taken(log, 0, Len(log))) : Taken(log, 0, Len(log))[i].seq > a <=> i > m
    BY <1>1, <1>5
  <2>2. m \in Nat
    BY <1>3
  <2> QED
    <3>1. \A n \in Nat :
              n <= Len(log) /\ (\A i \in 1..Len(Taken(log, 0, n)) : Taken(log, 0, n)[i].seq > a <=> i > m) =>
                 /\ Len(Taken(log, a, n)) = IF Len(Taken(log, 0, n)) <= m THEN 0
                                           ELSE Len(Taken(log, 0, n)) - m
                 /\ \A i \in 1..Len(Taken(log, a, n)) : Taken(log, a, n)[i] = Taken(log, 0, n)[m + i]
      BY <1>1, <1>5, <2>2, KeptLater, Zenon
    <3> QED
      BY <1>3, <2>1, <3>1, Zenon
<1>9. Len(ReadEvents(a)) = IF Len(Events) <= m THEN 0 ELSE Len(Events) - m
  BY <1>1, <1>6, <1>8
<1>10. Len(ReadEvents(a)) = Len(Events) - m
  BY <1>3, <1>9
<1>11. \A i \in 1..Len(ReadEvents(a)) : ReadEvents(a)[i] = Events[m + i]
  BY <1>1, <1>6, <1>8
<1> QED
  BY <1>5, <1>7, <1>10, <1>11

LEMMA MinIsMember == ASSUME NEW I \in SUBSET Nat, I # {} PROVE Min(I) \in I
<1>1. PICK b \in I : \A m \in I : ~(<<m, b>> \in OpToRel(<, Nat))
  BY NatLessThanWellFounded, WFMin
<1>2. ASSUME NEW m \in I PROVE b <= m
  <2>1. b \in Nat /\ m \in Nat
    OBVIOUS
  <2>2. <<m, b>> \in OpToRel(<, Nat) <=> m < b
    BY <2>1 DEF OpToRel
  <2>3. ~(m < b)
    BY <1>1, <2>2, Zenon
  <2> QED
    BY <2>1, <2>3
<1>3. \E x \in I : \A y \in I : x <= y
  BY <1>2
<1> QED
  BY <1>3 DEF Min

\* What the stream sends of what it read.
SentUpTo(events) == SelectInSeq(events, LAMBDA e : e.kind \in Terminal)
LEMMA SentUpToIs == ASSUME NEW events \in Seq(Lines) PROVE SentUpTo(events) \in 0..Len(events)
<1> DEFINE I == {i \in 1..Len(events) : events[i].kind \in Terminal}
<1>1. SentUpTo(events) = IF I # {} THEN Min(I) ELSE 0
  BY DEF SentUpTo, SelectInSeq
<1>2. I \in SUBSET Nat /\ I \subseteq 1..Len(events) /\ Len(events) \in Nat
  OBVIOUS
<1> HIDE DEF I
<1>3. CASE I = {}
  BY <1>1, <1>2, <1>3
<1>4. CASE I # {}
  <2>1. Min(I) \in I
    BY <1>2, <1>4, MinIsMember
  <2>2. SentUpTo(events) \in 1..Len(events)
    BY <1>1, <1>2, <1>4, <2>1, Zenon
  <2> QED
    BY <1>2, <2>2
<1> QED
  BY <1>3, <1>4

LEMMA SentIs ==
    ASSUME NEW events \in Seq(Lines), NEW ends \in 0..Len(events),
           NEW sent, sent = IF ends = 0 THEN events ELSE SubSeq(events, 1, ends)
    PROVE  /\ sent \in Seq(Lines) /\ Len(sent) <= Len(events)
           /\ \A i \in 1..Len(sent) : sent[i] = events[i]
<1>1. Len(events) \in Nat
  OBVIOUS
<1>3. CASE ends = 0
  BY <1>1, <1>3
<1>4. CASE ends # 0
  <2>1. ends \in 1..Len(events) /\ sent = SubSeq(events, 1, ends)
    BY <1>1, <1>4
  <2> QED
    BY <1>1, <2>1
<1> QED
  BY <1>3, <1>4

\* The log as it was.
LEMMA LogSame ==
    ASSUME LogInv, UNCHANGED <<log, size, writer>>
    PROVE  /\ Events' = Events /\ Numbered' /\ SeqsIncrease'
           /\ \A n : SeqAt(n)' = SeqAt(n)
<1>1. Events' = Events /\ LastSeq' = LastSeq
  BY DEF Events, LastSeq, ReadEvents
<1>2. Numbered' /\ SeqsIncrease'
  BY <1>1 DEF LogInv, Numbered, SeqsIncrease, Events
<1> QED
  BY <1>1, <1>2 DEF SeqAt

LEMMA LogInitInv == EventLogInit => LogInv
<1> SUFFICES ASSUME EventLogInit PROVE LogInv
  OBVIOUS
<1>1. EventLogTypeOK
  <2>1. log \in Seq(Lines) /\ wire \in Seq(Lines) /\ seen \in Seq(Lines) /\ todo \in Seq(EventKinds)
    BY EventLogAssumption DEF EventLogAssumption, EventLogInit
  <2>2. writer \in [Writers -> [seq: Nat, size: Int]]
    BY DEF EventLogInit
  <2>3. thread \in [Threads -> {"idle", "result", "state"}] /\ breaks \in 0..MaxBreaks
    BY EventLogAssumption DEF EventLogAssumption, EventLogInit
  <2>4. liveJob \in [lastSeq: Nat, over: BOOLEAN, result: BOOLEAN]
    BY DEF EventLogInit
  <2>5. size \in Nat /\ alive \in BOOLEAN /\ after \in Nat /\ grace \in BOOLEAN
        /\ stream \in {"none", "read", "judge", "closed"}
    BY DEF EventLogInit
  <2> QED
    BY <2>1, <2>2, <2>3, <2>4, <2>5 DEF EventLogTypeOK
<1>2. Events = <<>>
  <2>1. Events = Taken(log, 0, Len(log)) /\ Len(log) = 0
    BY <1>1, EventsAre DEF EventLogInit
  <2> QED
    BY <2>1, KeptIs
<1>3. SeqsIncrease
  BY <1>2 DEF SeqsIncrease, Events
<1>4. Numbered
  BY DEF EventLogInit, Numbered
<1>5. Followed
  BY <1>2 DEF EventLogInit, Followed, Shown, SeqAt
<1> QED
  BY <1>1, <1>3, <1>4, <1>5 DEF LogInv

\* Whoever writes.
LEMMA EmitKeeps ==
    ASSUME LogInv, NEW w \in Writers, NEW kind \in EventKinds, Emit(w, kind),
           alive' \in BOOLEAN, todo' \in Seq(EventKinds),
           thread' \in [Threads -> {"idle", "result", "state"}],
           UNCHANGED <<stream, after, grace, wire, liveJob, seen, breaks>>
    PROVE  LogInv'
<1>1. EventLogTypeOK /\ Numbered
  BY DEF LogInv
<1>2. /\ log' \in Seq(Lines) /\ size' \in Nat /\ writer' \in [Writers -> [seq: Nat, size: Int]]
      /\ Grown /\ LastSeq' <= NextSeq(w)
      /\ size' = size + 1 /\ writer' = [writer EXCEPT ![w] = [seq |-> NextSeq(w), size |-> size + 1]]
  BY EmitGrows
<1>3. EventLogTypeOK'
  BY <1>1, <1>2 DEF EventLogTypeOK
<1>4. SeqsIncrease' /\ Followed'
  BY <1>2, <1>3, GrownKeeps
<1>5. Numbered'
  <2>1. /\ size \in Nat /\ writer \in [Writers -> [seq: Nat, size: Int]]
        /\ \A v \in Writers : writer[v].size <= size
    BY <1>1 DEF EventLogTypeOK, Numbered
  <2>2. writer'[w].seq = NextSeq(w) /\ writer'[w].size = size'
    BY <1>2, <2>1
  <2>3. \A v \in Writers \ {w} : writer'[v] = writer[v]
    BY <1>2, <2>1
  <2>4. ASSUME NEW v \in Writers
        PROVE  writer'[v].size <= size' /\ (writer'[v].size = size' => LastSeq' <= writer'[v].seq)
    <3>1. CASE v = w
      BY <1>2, <2>2, <3>1
    <3>2. CASE v # w
      <4>1. writer'[v].size \in Int /\ writer'[v].size <= size
        BY <2>1, <2>3, <3>2
      <4> QED
        BY <1>2, <2>1, <4>1
    <3> QED
      BY <3>1, <3>2
  <2> QED
    BY <2>4 DEF Numbered
<1> QED
  BY <1>3, <1>4, <1>5 DEF LogInv

LEMMA JobDiesKeeps == ASSUME LogInv, JobDies PROVE LogInv'
<1>1. EventLogTypeOK /\ Numbered /\ SeqsIncrease /\ Followed
  BY DEF LogInv
<1>2. CASE UNCHANGED <<log, size>>
  <2>1. Events' = Events /\ Numbered' /\ SeqsIncrease' /\ \A n : SeqAt(n)' = SeqAt(n)
    BY <1>2, LogSame DEF JobDies
  <2>2. EventLogTypeOK'
    BY <1>1, <1>2 DEF JobDies, EventLogTypeOK
  <2>3. Grown
    BY <2>1 DEF Grown
  <2>4. Followed'
    BY <2>2, <2>3, GrownKeeps DEF JobDies
  <2> QED
    BY <2>1, <2>2, <2>4 DEF LogInv
<1>3. ASSUME log' = Append(log, [seq |-> NextSeq("job"), kind |-> "partial"]), size' = size + 1
      PROVE  LogInv'
  <2> DEFINE e == [seq |-> NextSeq("job"), kind |-> "partial"]
  <2>1. NextSeq("job") \in Nat
    BY <1>1, NextExceeds DEF Writers
  <2>2. e \in Lines /\ ~IsEvent(e, 0)
    BY <2>1 DEF Lines, IsEvent, EventKinds
  <2>3. log' = Append(log, e) /\ log \in Seq(Lines)
    BY <1>1, <1>3, EventsAre
  <2> HIDE DEF e
  <2>4. Len(log') = Len(log) + 1 /\ log' \in Seq(Lines)
    BY <2>2, <2>3
  <2>5. Taken(Append(log, e), 0, Len(log) + 1) = Take(Taken(log, 0, Len(log)), e, 0)
    BY <2>2, <2>3, AppendKeeps
  <2>6. Events' = Events
    BY <2>2, <2>3, <2>4, <2>5, EventsIs DEF Take
  <2>7. LastSeq' = LastSeq
    BY <2>6 DEF LastSeq, Events
  <2>8. EventLogTypeOK'
    <3>1. size' \in Nat /\ alive' \in BOOLEAN
      <4>1. size \in Nat /\ alive' = FALSE
        BY <1>1 DEF JobDies, EventLogTypeOK
      <4>2. size' = size + 1
        BY <1>3
      <4>3. size' \in Nat
        BY <4>1, <4>2
      <4> QED
        BY <4>1, <4>3
    <3>2. UNCHANGED <<writer, todo, thread, stream, after, grace, wire, liveJob, seen, breaks>>
      BY DEF JobDies
    <3> QED
      BY <1>1, <2>4, <3>1, <3>2 DEF EventLogTypeOK
  <2>9. SeqsIncrease' /\ Followed'
    BY <2>6, <2>8, GrownKeeps DEF JobDies, Grown
  <2>10. Numbered'
    <3>1. /\ size \in Nat /\ writer' = writer /\ size' = size + 1
          /\ \A v \in Writers : writer[v].size \in Int /\ writer[v].size <= size
      BY <1>1, <1>3 DEF EventLogTypeOK, Numbered, JobDies
    <3> QED
      BY <3>1 DEF Numbered
  <2> QED
    BY <2>8, <2>9, <2>10 DEF LogInv
<1> QED
  BY <1>2, <1>3 DEF JobDies

LEMMA PumpReadsKeeps == ASSUME LogInv, PumpReads PROVE LogInv'
<1>1. EventLogTypeOK /\ Followed /\ SeqsIncrease
  BY DEF LogInv
<1>2. Events' = Events /\ Numbered' /\ SeqsIncrease' /\ \A n : SeqAt(n)' = SeqAt(n)
  BY LogSame DEF PumpReads
<1> DEFINE events == ReadEvents(after)
           ends == SentUpTo(events)
           sent == IF ends = 0 THEN events ELSE SubSeq(events, 1, ends)
<1>3. /\ stream = "read" /\ wire' = wire \o sent /\ liveJob' = liveJob /\ seen' = seen
      /\ after' = IF sent = <<>> THEN after ELSE Last(sent).seq
      /\ stream' = IF ends # 0 THEN "closed" ELSE IF events = <<>> THEN "judge" ELSE "read"
      /\ grace' \in BOOLEAN
  BY <1>1 DEF PumpReads, SentUpTo, EventLogTypeOK
<1>4. /\ Events \in Seq(Lines) /\ seen \in Seq(Lines) /\ wire \in Seq(Lines)
      /\ Len(Events) \in Nat /\ Len(seen) \in Nat /\ Len(wire) \in Nat
      /\ Shown \in 0..Len(Events) /\ after = SeqAt(Shown)
  <2>1. Events \in Seq(Lines) /\ seen \in Seq(Lines) /\ wire \in Seq(Lines)
    BY <1>1, EventsAre DEF EventLogTypeOK
  <2>2. Shown <= Len(Events) /\ after = SeqAt(Shown)
    BY <1>1, <1>3 DEF Followed
  <2> QED
    BY <2>1, <2>2 DEF Shown
<1>5. /\ after \in Nat /\ events \in Seq(Lines) /\ Len(events) = Len(Events) - Shown
      /\ \A i \in 1..Len(events) : events[i] = Events[Shown + i]
  BY <1>1, <1>4, LaterAre
<1>6. ends \in 0..Len(events)
  BY <1>5, SentUpToIs
<1> HIDE DEF events, ends
<1>7. /\ sent \in Seq(Lines) /\ Len(sent) <= Len(events)
      /\ \A i \in 1..Len(sent) : sent[i] = events[i]
  BY <1>5, <1>6, SentIs
<1>8. /\ wire' \in Seq(Lines) /\ Len(wire') = Len(wire) + Len(sent) /\ Len(sent) \in Nat
      /\ \A i \in 1..Len(wire) : wire'[i] = wire[i]
      /\ \A i \in 1..Len(sent) : wire'[Len(wire) + i] = sent[i]
  <2> HIDE DEF sent
  <2> QED
    BY <1>3, <1>4, <1>7
<1>9. Shown' = Shown + Len(sent) /\ Shown' <= Len(Events)
  <2> HIDE DEF sent
  <2>1. Shown' = Len(seen) + (Len(wire) + Len(sent)) /\ Shown = Len(seen) + Len(wire)
    BY <1>3, <1>8 DEF Shown
  <2> QED
    BY <1>4, <1>5, <1>7, <1>8, <2>1
<1>10. after' \in Nat /\ after' = SeqAt(Shown')
  <2> HIDE DEF sent
  <2>1. CASE sent = <<>>
    BY <1>3, <1>4, <1>5, <1>9, <2>1
  <2>2. CASE sent # <<>>
    <3>1. Len(sent) \in 1..Len(sent) /\ after' = sent[Len(sent)].seq /\ Len(sent) # 0
      BY <1>3, <1>7, <2>2 DEF Last
    <3>2. sent[Len(sent)] = Events[Shown + Len(sent)] /\ sent[Len(sent)] \in Lines
      BY <1>5, <1>7, <3>1
    <3>3. Shown' # 0
      BY <1>4, <1>9, <3>1
    <3> QED
      BY <1>9, <3>1, <3>2, <3>3 DEF SeqAt, Lines
  <2> QED
    BY <2>1, <2>2
<1>11. \A i \in 1..Len(wire') : wire'[i] = Events[Len(seen) + i]
  <2> HIDE DEF sent
  <2>1. \A i \in 1..Len(wire) : wire[i] = Events[Len(seen) + i]
    BY <1>1 DEF Followed
  <2> SUFFICES ASSUME NEW i \in 1..Len(wire') PROVE wire'[i] = Events[Len(seen) + i]
    OBVIOUS
  <2>2. CASE i \in 1..Len(wire)
    BY <1>8, <2>1, <2>2
  <2>3. CASE i \notin 1..Len(wire)
    <3>1. i - Len(wire) \in 1..Len(sent) /\ Len(wire) + (i - Len(wire)) = i
      BY <1>4, <1>8, <2>3
    <3>2. wire'[i] = sent[i - Len(wire)]
      BY <1>8, <3>1
    <3>3. i - Len(wire) \in 1..Len(events)
      BY <1>5, <1>7, <1>4, <3>1
    <3>4. sent[i - Len(wire)] = Events[Shown + (i - Len(wire))]
      BY <1>5, <1>7, <3>1, <3>3
    <3>5. Shown + (i - Len(wire)) = Len(seen) + i
      BY <1>4, <3>1 DEF Shown
    <3> QED
      BY <3>2, <3>4, <3>5
  <2> QED
    BY <2>2, <2>3
<1> HIDE DEF sent
<1>12. Followed'
  <2>1. /\ \A i \in 1..Len(seen) : seen[i] = Events[i]
        /\ liveJob.lastSeq = SeqAt(Len(seen))
    BY <1>1 DEF Followed
  <2>2. (SeqAt(Len(seen)))' = SeqAt(Len(seen)) /\ (SeqAt(Shown))' = SeqAt(Shown')
    BY <1>2, <1>3 DEF SeqAt
  <2>3. stream' # "none"
    BY <1>3
  <2> QED
    BY <1>2, <1>3, <1>9, <1>10, <1>11, <2>1, <2>2, <2>3 DEF Followed
<1>13. EventLogTypeOK'
  BY <1>1, <1>3, <1>8, <1>10 DEF PumpReads, EventLogTypeOK
<1> QED
  BY <1>2, <1>12, <1>13 DEF LogInv

LEMMA IngestKeeps == ASSUME LogInv, HubIngests PROVE LogInv'
<1>1. EventLogTypeOK /\ Followed /\ SeqsIncrease
  BY DEF LogInv
<1>2. Events' = Events /\ Numbered' /\ SeqsIncrease' /\ \A n : SeqAt(n)' = SeqAt(n)
  BY LogSame DEF HubIngests
<1> DEFINE e == Head(wire)  n == Len(seen)
<1>3. /\ wire # <<>> /\ wire' = Tail(wire) /\ stream' = stream /\ after' = after
      /\ IF e.seq <= liveJob.lastSeq THEN UNCHANGED <<liveJob, seen>>
         ELSE /\ seen' = Append(seen, e)
              /\ liveJob' = [lastSeq |-> e.seq, over |-> liveJob.over \/ e.kind \in Terminal,
                             result |-> liveJob.result \/ e.kind = "result"]
  BY DEF HubIngests
<1>4. /\ Events \in Seq(Lines) /\ seen \in Seq(Lines) /\ wire \in Seq(Lines)
      /\ Len(Events) \in Nat /\ n \in Nat /\ Len(wire) \in Nat \ {0}
      /\ n + Len(wire) <= Len(Events)
      /\ \A i \in 1..Len(Events) : Events[i].seq > 0 /\ Events[i].seq \in Nat
      /\ \A i \in 1..Len(wire) : wire[i] = Events[n + i]
      /\ \A i \in 1..n : seen[i] = Events[i]
      /\ liveJob.lastSeq = SeqAt(n)
  <2>1. Events \in Seq(Lines) /\ seen \in Seq(Lines) /\ wire \in Seq(Lines)
    BY <1>1, EventsAre DEF EventLogTypeOK
  <2>2. \A i \in 1..Len(Events) : Events[i].seq > 0 /\ Events[i].seq \in Nat
    <3>1. \A i \in 1..Len(Events) : Events[i] \in Lines /\ IsEvent(Events[i], 0)
      BY <1>1, <2>1, EventsAre
    <3> QED
      BY <3>1 DEF IsEvent, Lines
  <2>3. n + Len(wire) <= Len(Events) /\ liveJob.lastSeq = SeqAt(n)
        /\ (\A i \in 1..Len(wire) : wire[i] = Events[n + i]) /\ (\A i \in 1..n : seen[i] = Events[i])
    BY <1>1 DEF Followed, Shown
  <2>4. Len(Events) \in Nat /\ n \in Nat /\ Len(wire) \in Nat \ {0}
    BY <1>3, <2>1
  <2> QED
    BY <2>1, <2>2, <2>3, <2>4
<1>5. e = Events[n + 1] /\ e \in Lines /\ n + 1 \in 1..Len(Events)
  BY <1>4
<1>6. e.seq > SeqAt(n) /\ e.seq \in Nat
  <2>1. CASE n = 0
    BY <1>4, <1>5, <2>1 DEF SeqAt
  <2>2. CASE n # 0
    <3>1. n \in 1..Len(Events) /\ n < n + 1 /\ SeqAt(n) = Events[n].seq
      BY <1>4, <2>2 DEF SeqAt
    <3>2. DOMAIN Events = 1..Len(Events)
      BY <1>4
    <3>3. Events[n].seq < Events[n + 1].seq
      BY <1>1, <1>5, <3>1, <3>2 DEF SeqsIncrease, Events
    <3> QED
      BY <1>4, <1>5, <3>1, <3>3
  <2> QED
    BY <2>1, <2>2
<1>7. SeqAt(n) \in Nat /\ ~(e.seq <= liveJob.lastSeq)
  BY <1>4, <1>5, <1>6 DEF SeqAt
<1>8. /\ seen' = Append(seen, e)
      /\ liveJob' = [lastSeq |-> e.seq, over |-> liveJob.over \/ e.kind \in Terminal,
                     result |-> liveJob.result \/ e.kind = "result"]
  BY <1>3, <1>7
<1> HIDE DEF e
<1>9. /\ seen' \in Seq(Lines) /\ Len(seen') = n + 1 /\ seen'[n + 1] = e
      /\ \A i \in 1..n : seen'[i] = seen[i]
  BY <1>4, <1>5, <1>8
<1>10. /\ wire' \in Seq(Lines) /\ Len(wire') = Len(wire) - 1
       /\ \A i \in 1..Len(wire') : wire'[i] = wire[i + 1]
  BY <1>3, <1>4
<1> DEFINE k == n + 1
<1>11. k = n + 1 /\ k \in Nat /\ Len(seen) = n
  BY <1>4
<1> HIDE DEF n, k
<1>12. Shown' = Shown
  BY <1>4, <1>9, <1>10, <1>11 DEF Shown
<1>13. \A i \in 1..k : seen'[i] = Events[i]
  BY <1>4, <1>5, <1>9, <1>11
<1>14. ASSUME NEW i \in 1..Len(wire') PROVE wire'[i] = Events[k + i]
  <2>1. wire'[i] = wire[i + 1] /\ i + 1 \in 1..Len(wire) /\ n + (i + 1) = k + i
    BY <1>4, <1>10, <1>11
  <2> QED
    BY <1>4, <2>1
<1>15. liveJob'.lastSeq = SeqAt(k)
  <2>1. liveJob'.lastSeq = e.seq /\ k # 0
    BY <1>4, <1>8, <1>11
  <2> QED
    BY <1>5, <1>11, <2>1 DEF SeqAt
<1>16. Followed'
  <2>1. (SeqAt(Len(seen)))' = SeqAt(k) /\ (SeqAt(Shown))' = SeqAt(Shown)
    BY <1>2, <1>9, <1>11, <1>12 DEF SeqAt
  <2>2. Shown <= Len(Events) /\ (stream \in {"read", "judge"} => after = SeqAt(Shown))
        /\ stream # "none"
    BY <1>1, <1>3 DEF Followed
  <2> QED
    BY <1>2, <1>3, <1>9, <1>11, <1>12, <1>13, <1>14, <1>15, <2>1, <2>2 DEF Followed
<1>17. EventLogTypeOK'
  <2>1. liveJob.over \in BOOLEAN /\ liveJob.result \in BOOLEAN
    BY <1>1 DEF EventLogTypeOK
  <2>2. liveJob' \in [lastSeq: Nat, over: BOOLEAN, result: BOOLEAN]
    BY <1>6, <1>8, <2>1
  <2> QED
    BY <1>1, <1>9, <1>10, <2>2 DEF HubIngests, EventLogTypeOK
<1> QED
  BY <1>2, <1>16, <1>17 DEF LogInv

LEMMA LogStepInv == LogInv /\ [EventLogNext]_eventVars => LogInv'
<1> SUFFICES ASSUME LogInv, [EventLogNext]_eventVars PROVE LogInv'
  OBVIOUS
<1>1. EventLogTypeOK /\ Numbered /\ SeqsIncrease /\ Followed
  BY DEF LogInv
<1>2. ASSUME UNCHANGED <<log, size, writer>>, UNCHANGED <<seen, wire, liveJob>>, EventLogTypeOK',
             stream' \in {"read", "judge"} => after' = SeqAt(Shown), stream' = "none" => wire' = <<>>
      PROVE  LogInv'
  <2>1. Events' = Events /\ Numbered' /\ SeqsIncrease' /\ \A n : SeqAt(n)' = SeqAt(n)
    BY <1>2, LogSame
  <2>2. (SeqAt(Len(seen)))' = SeqAt(Len(seen)) /\ Shown' = Shown /\ (SeqAt(Shown))' = SeqAt(Shown)
    BY <1>2, <2>1 DEF SeqAt, Shown
  <2>3. /\ Shown <= Len(Events) /\ liveJob.lastSeq = SeqAt(Len(seen))
        /\ \A i \in 1..Len(seen) : seen[i] = Events[i]
        /\ \A i \in 1..Len(wire) : wire[i] = Events[Len(seen) + i]
    BY <1>1 DEF Followed
  <2>4. Followed'
    BY <1>2, <2>1, <2>2, <2>3 DEF Followed
  <2> QED
    BY <1>2, <2>1, <2>4 DEF LogInv
<1>3. stream \in {"read", "judge"} => after = SeqAt(Shown)
  BY <1>1 DEF Followed
<1>4. CASE UNCHANGED eventVars
  <2>1. EventLogTypeOK'
    BY <1>1, <1>4 DEF eventVars, EventLogTypeOK
  <2>2. stream' = "none" => wire' = <<>>
    BY <1>1, <1>4 DEF eventVars, Followed
  <2> QED
    BY <1>2, <1>3, <1>4, <2>1, <2>2 DEF eventVars
<1>5. CASE JobEmits
  <2>1. Head(todo) \in EventKinds /\ todo' \in Seq(EventKinds) /\ alive' \in BOOLEAN
    BY <1>1, <1>5 DEF JobEmits, EventLogTypeOK
  <2>2. thread' \in [Threads -> {"idle", "result", "state"}]
    BY <1>1, <1>5 DEF JobEmits, EventLogTypeOK
  <2>3. "job" \in Writers /\ Emit("job", Head(todo))
    BY <1>5 DEF JobEmits, Writers
  <2> QED
    BY <1>5, <2>1, <2>2, <2>3, EmitKeeps DEF JobEmits
<1>6. CASE JobDies
  BY <1>6, JobDiesKeeps
<1>7. CASE PumpReads
  BY <1>7, PumpReadsKeeps
<1>8. CASE PumpJudges
  <2>1. stream = "judge" /\ stream' \in {"read", "closed"}
    BY <1>8 DEF PumpJudges
  <2>2. EventLogTypeOK'
    BY <1>1, <1>8, <2>1 DEF PumpJudges, EventLogTypeOK
  <2> QED
    BY <1>2, <1>3, <1>8, <2>1, <2>2 DEF PumpJudges
<1>9. ASSUME NEW t \in Threads, ReconcileStarts(t) PROVE LogInv'
  <2>1. EventLogTypeOK'
    BY <1>1, <1>9 DEF ReconcileStarts, EventLogTypeOK
  <2>2. stream' = "none" => wire' = <<>>
    BY <1>1, <1>9 DEF ReconcileStarts, Followed
  <2> QED
    BY <1>2, <1>3, <1>9, <2>1, <2>2 DEF ReconcileStarts
<1>10. ASSUME NEW t \in Threads, ReconcileEmits(t) PROVE LogInv'
  <2>1. t \in Writers /\ {"result", "failed"} \subseteq EventKinds
    BY DEF Writers, EventKinds
  <2>2. /\ thread' \in [Threads -> {"idle", "result", "state"}]
        /\ alive' \in BOOLEAN /\ todo' \in Seq(EventKinds)
    BY <1>1, <1>10 DEF ReconcileEmits, EventLogTypeOK
  <2>3. PICK kind \in EventKinds : Emit(t, kind)
    BY <1>10, <2>1 DEF ReconcileEmits
  <2> QED
    BY <1>10, <2>1, <2>2, <2>3, EmitKeeps DEF ReconcileEmits
<1>11. CASE HubOpens
  <2>1. /\ stream = "none" /\ stream' = "read" /\ after' = liveJob.lastSeq /\ wire = <<>>
        /\ wire' = wire
    BY <1>1, <1>11 DEF HubOpens, ResumeAfter, Followed
  <2>2. after' = SeqAt(Shown)
    <3>1. Shown = Len(seen) /\ liveJob.lastSeq = SeqAt(Len(seen))
      <4>1. Len(wire) = 0 /\ Len(seen) \in Nat
        BY <1>1, <2>1 DEF EventLogTypeOK
      <4> QED
        BY <1>1, <4>1 DEF Shown, Followed
    <3> QED
      BY <2>1, <3>1
  <2>3. EventLogTypeOK'
    BY <1>1, <1>11, <2>1 DEF HubOpens, EventLogTypeOK
  <2> QED
    BY <1>2, <1>11, <2>1, <2>2, <2>3 DEF HubOpens
<1>12. CASE HubIngests
  BY <1>12, IngestKeeps
<1>13. CASE HubReconnects
  <2>1. stream' = "none" /\ wire' = <<>>
    BY <1>13 DEF HubReconnects
  <2>2. EventLogTypeOK'
    BY <1>1, <1>13 DEF HubReconnects, EventLogTypeOK
  <2> QED
    BY <1>2, <1>13, <2>1, <2>2 DEF HubReconnects
<1>14. CASE StreamBreaks
  <2>1. Events' = Events /\ Numbered' /\ SeqsIncrease' /\ \A n : SeqAt(n)' = SeqAt(n)
    BY <1>14, LogSame DEF StreamBreaks
  <2>2. wire' = <<>> /\ stream' = "closed" /\ seen' = seen /\ liveJob' = liveJob
        /\ breaks' = breaks + 1 /\ breaks < MaxBreaks
    BY <1>14 DEF StreamBreaks
  <2>3. Len(wire) \in Nat /\ Len(seen) \in Nat /\ Len(Events) \in Nat
    BY <1>1, EventsAre DEF EventLogTypeOK
  <2>4. Len(wire') = 0 /\ wire' \in Seq(Lines)
    BY <2>2
  <2>5. EventLogTypeOK'
    <3>1. breaks' \in 0..MaxBreaks
      BY <1>1, <2>2, EventLogAssumption DEF EventLogTypeOK, EventLogAssumption
    <3> QED
      BY <1>1, <1>14, <2>4, <3>1 DEF StreamBreaks, EventLogTypeOK
  <2>6. Shown' <= Len(Events)
    BY <1>1, <2>2, <2>3, <2>4 DEF Shown, Followed
  <2>7. (SeqAt(Len(seen)))' = SeqAt(Len(seen))
    BY <2>1, <2>2 DEF SeqAt
  <2>8. liveJob.lastSeq = SeqAt(Len(seen)) /\ \A i \in 1..Len(seen) : seen[i] = Events[i]
    BY <1>1 DEF Followed
  <2>9. Followed'
    BY <2>1, <2>2, <2>4, <2>6, <2>7, <2>8 DEF Followed
  <2> QED
    BY <2>1, <2>5, <2>9 DEF LogInv
<1> QED
  BY <1>4, <1>5, <1>6, <1>7, <1>8, <1>9, <1>10, <1>11, <1>12, <1>13, <1>14,
     EventLogAssumption DEF EventLogNext, PumpSteps, EventLogAssumption

LEMMA FollowedIsPrefix == LogInv => BrowserSeesPrefix
<1> SUFFICES ASSUME LogInv PROVE BrowserSeesPrefix
  OBVIOUS
<1>1. /\ SeqsIncrease /\ Events \in Seq(Lines) /\ seen \in Seq(Lines) /\ wire \in Seq(Lines)
      /\ Len(seen) + Len(wire) <= Len(Events)
      /\ \A i \in 1..Len(seen) : seen[i] = Events[i]
      /\ liveJob.lastSeq = SeqAt(Len(seen))
  BY EventsAre DEF LogInv, EventLogTypeOK, Followed, Shown
<1>2. Len(seen) \in Nat /\ Len(wire) \in Nat /\ Len(Events) \in Nat /\ Len(seen) <= Len(Events)
      /\ DOMAIN seen = 1..Len(seen) /\ DOMAIN Events = 1..Len(Events)
  BY <1>1
<1>3. IsPrefix(seen, Events)
  <2> DEFINE a == SubSeq(seen, 1, Len(seen))  b == SubSeq(Events, 1, Len(seen))
  <2>1. a \in Seq(Lines) /\ b \in Seq(Lines) /\ Len(a) = Len(seen) /\ Len(b) = Len(seen)
        /\ \A i \in 1..Len(seen) : a[i] = seen[i] /\ b[i] = Events[i]
    BY <1>1, <1>2
  <2> HIDE DEF a, b
  <2>2. a = b
    BY <1>1, <2>1, SeqEqual
  <2> QED
    BY <1>2, <2>2 DEF IsPrefix, a, b
<1>4. ASSUME NEW i \in DOMAIN Events
      PROVE  Events[i].seq <= liveJob.lastSeq <=> i \in DOMAIN seen
  <2>1. \A j \in 1..Len(Events) : Events[j].seq \in Nat /\ Events[j].seq > 0
    <3>1. \A j \in 1..Len(Events) : Events[j] \in Lines /\ IsEvent(Events[j], 0)
      BY <1>1, EventsAre DEF LogInv
    <3> QED
      BY <3>1 DEF IsEvent, Lines
  <2>2. CASE Len(seen) = 0
    BY <1>1, <1>2, <2>1, <2>2 DEF SeqAt
  <2>3. CASE Len(seen) # 0
    <3>1. Len(seen) \in DOMAIN Events /\ liveJob.lastSeq = Events[Len(seen)].seq
      BY <1>1, <1>2, <2>3 DEF SeqAt
    <3>2. \A j, k \in DOMAIN Events : j < k => Events[j].seq < Events[k].seq
      BY <1>1 DEF SeqsIncrease, Events
    <3>3. CASE i < Len(seen)
      <4>1. Events[i].seq < Events[Len(seen)].seq
        BY <3>1, <3>2, <3>3
      <4> QED
        BY <1>2, <2>1, <3>1, <3>3, <4>1
    <3>4. CASE i = Len(seen)
      BY <1>2, <2>1, <2>3, <3>1, <3>4
    <3>5. CASE i > Len(seen)
      <4>1. Events[Len(seen)].seq < Events[i].seq
        BY <3>1, <3>2, <3>5
      <4> QED
        BY <1>2, <2>1, <3>1, <3>5, <4>1
    <3> QED
      BY <1>2, <3>3, <3>4, <3>5
  <2> QED
    BY <2>2, <2>3
<1> QED
  BY <1>1, <1>3, <1>4 DEF BrowserSeesPrefix, Events

\* For any threads, job and number of broken connections: the sequence numbers
\* of the events increase, whoever writes them, and the browser has taken in
\* exactly those up to its last one, in order.
THEOREM BrowserFollows == EventLogSpec => []BrowserSeesPrefix
<1> QED
  BY LogInitInv, LogStepInv, FollowedIsPrefix, PTL DEF EventLogSpec
=============================================================================
