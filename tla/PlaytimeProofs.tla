---------------------------- MODULE PlaytimeProofs ----------------------------
(***************************************************************************)
(* Proofs about Playtime: for any launchers, budgets, clamps and            *)
(* disturbances, what a tick bills is measured too, spent time comes back   *)
(* for a cause only, and a day keeps what it granted.                      *)
(***************************************************************************)
EXTENDS Playtime, TLAPS

-----------------------------------------------------------------------------
\* The functions of a tick.
LEMMA DayIsNat ==
    ASSUME NEW t \in Nat
    PROVE  Day(t) \in Nat
  BY PlaytimeAssumption DEF Day

LEMMA DayIsMonotone ==
    ASSUME NEW t \in Nat, NEW u \in Nat, t <= u
    PROVE  Day(t) <= Day(u)
<1> DEFINE d == DayLength
           a == t \div d
           b == u \div d
<1>1. d \in Nat /\ d > 0
  BY PlaytimeAssumption
<1>2. /\ a \in Nat /\ b \in Nat
      /\ d * a <= t /\ u < d * (b + 1)
  BY <1>1
<1>3. ASSUME a > b PROVE FALSE
  <2>1. a >= b + 1
    BY <1>2, <1>3
  <2> HIDE DEF a, b, d
  <2>2. d * (b + 1) <= d * a
    BY <1>1, <1>2, <2>1
  <2>3. d * a \in Nat /\ d * (b + 1) \in Nat
    BY <1>1, <1>2
  <2> QED
    BY <1>2, <2>2, <2>3
<1> HIDE DEF d
<1> QED
  BY <1>2, <1>3 DEF Day, d

LEMMA FreshIsRecord ==
    ASSUME NEW d \in Nat, NEW t \in Nat
    PROVE  /\ FreshDay(d, t) \in Record
           /\ FreshDay(d, t).day = d /\ FreshDay(d, t).seconds = 0 /\ FreshDay(d, t).blocked = 0
           /\ FreshDay(d, t).measured = 0 /\ FreshDay(d, t).high = 0
  BY DEF FreshDay, Record

\* The budget of a tick covers what the file says its day has granted.
LEMMA BudgetFacts ==
    ASSUME TypeOK
    PROVE  /\ Budget \in Nat
           /\ file # NoFile /\ file.day = Day(clock) => Budget >= file.high
<1>1. live \in Nat
  BY PlaytimeAssumption DEF TypeOK
<1>2. file # NoFile => file.high \in Nat
  BY DEF TypeOK, Record
<1>3. Held \in Nat /\ (file # NoFile /\ file.day = Day(clock) => Held = file.high)
  BY <1>2 DEF Held
<1> QED
  BY <1>1, <1>3 DEF Budget, Larger

\* The record a tick starts from.
LEMMA RecoverFacts ==
    ASSUME TypeOK
    PROVE  /\ StateOrRecover \in Record
           /\ file # NoFile => StateOrRecover = file
           /\ file = NoFile /\ Masked = {} => StateOrRecover = FreshDay(Day(now), now)
           /\ file = NoFile => StateOrRecover.day = Day(now) /\ StateOrRecover.last = now
           /\ file = NoFile /\ Masked # {} => StateOrRecover.seconds = Budget
<1>1. now \in Nat
  BY PlaytimeAssumption DEF TypeOK
<1>2. FreshDay(Day(now), now) \in Record
  BY <1>1, DayIsNat, FreshIsRecord
<1>3. [FreshDay(Day(now), now) EXCEPT !.seconds = Budget, !.blocked = now] \in Record
  BY <1>1, <1>2, BudgetFacts DEF Record
<1>4. file # NoFile => file \in Record
  BY DEF TypeOK
<1>5. file = NoFile /\ Masked # {} =>
         StateOrRecover = [FreshDay(Day(now), now) EXCEPT !.seconds = Budget, !.blocked = now]
  BY DEF StateOrRecover
<1>6. file = NoFile => StateOrRecover.day = Day(now) /\ StateOrRecover.last = now
  BY <1>5 DEF StateOrRecover, FreshDay
<1>7. file = NoFile /\ Masked # {} => StateOrRecover.seconds = Budget
  BY <1>5 DEF FreshDay
<1> QED
  BY <1>2, <1>3, <1>4, <1>6, <1>7 DEF StateOrRecover

\* That record, of today: what the file has of today is kept.
LEMMA TodayFacts ==
    ASSUME TypeOK
    PROVE  /\ Today \in Record /\ Today.day = Day(now) /\ Today.high >= Budget
           /\ file # NoFile /\ file.day = Day(now) =>
                 /\ Today.seconds = file.seconds /\ Today.measured = file.measured
                 /\ Today.blocked = file.blocked
           /\ (file # NoFile /\ file.day # Day(now)) \/ (file = NoFile /\ Masked = {}) =>
                 Today.seconds = 0 /\ Today.measured = 0 /\ Today.blocked = 0
           /\ file = NoFile /\ Masked # {} => Today.seconds = Budget
           /\ file # NoFile /\ file.day = Day(now) => Today.high >= file.high
           /\ Today.last = IF file # NoFile THEN file.last ELSE now
<1> DEFINE s == RollOver(StateOrRecover, Day(now))
<1>1. now \in Nat /\ Day(now) \in Nat
  BY PlaytimeAssumption, DayIsNat DEF TypeOK
<1>2. StateOrRecover.last \in Nat
  BY RecoverFacts DEF Record
<1>3. FreshDay(Day(now), StateOrRecover.last) \in Record
  BY <1>1, <1>2, FreshIsRecord
<1>4. s \in Record /\ s.day = Day(now)
  BY <1>1, <1>2, <1>3, RecoverFacts, FreshIsRecord DEF RollOver
<1>5. /\ file # NoFile /\ file.day = Day(now) => s = file
      /\ (file # NoFile /\ file.day # Day(now)) \/ (file = NoFile /\ Masked = {}) =>
            s.seconds = 0 /\ s.measured = 0 /\ s.blocked = 0
  BY <1>1, <1>2, RecoverFacts, FreshIsRecord DEF RollOver
<1>8. file = NoFile /\ Masked # {} => s.seconds = Budget
  BY RecoverFacts DEF RollOver
<1>9. s.last = IF file # NoFile THEN file.last ELSE now
  BY RecoverFacts DEF RollOver, FreshDay
<1>6. Today = [s EXCEPT !.high = Larger(s.high, Budget)]
  BY DEF Today
<1>7. /\ Larger(s.high, Budget) \in Nat /\ Larger(s.high, Budget) >= Budget
      /\ Larger(s.high, Budget) >= s.high
  BY <1>4, BudgetFacts DEF Larger, Record
<1> HIDE DEF s
<1> QED
  BY <1>4, <1>5, <1>6, <1>7, <1>8, <1>9 DEF Record

LEMMA CreditIsNat ==
    ASSUME TypeOK, NEW s \in Record
    PROVE  Credit(s) \in Nat
<1>1. now \in Nat /\ cap \in Nat /\ s.last \in Nat
  BY PlaytimeAssumption DEF TypeOK, Record
<1> QED
  BY <1>1 DEF Credit, Smaller

\* What is billed is measured: billing adds the same credit, to a game or to
\* leisure, which are both measured.
LEMMA AccountedFacts ==
    ASSUME TypeOK
    PROVE  /\ Accounted \in Record /\ Accounted.day = Today.day /\ Accounted.high = Today.high
           /\ Accounted.blocked = Today.blocked /\ Accounted.seconds >= Today.seconds
           /\ Accounted.last = now
           /\ Covered(Today) => Covered(Accounted)
           /\ gaming /\ screen # "paused" => Accounted.seconds = Today.seconds + Credit(Today)
<1> DEFINE t == Today
           c == Credit(Today)
           m == Measured(t)
           measures == gaming \/ screen \in {"paused", "leisure"}
           bills == IF m.day >= LeisureFrom
                    THEN screen # "paused" /\ (gaming \/ screen = "leisure") ELSE gaming
           n == IF bills THEN m.seconds + c ELSE m.seconds
<1>1. t \in Record /\ c \in Nat
  BY TodayFacts, CreditIsNat
<1>2. /\ m \in Record /\ m.day = t.day /\ m.high = t.high /\ m.blocked = t.blocked
      /\ m.seconds = t.seconds /\ m.last = t.last
      /\ m.measured = IF measures THEN t.measured + c ELSE t.measured
  BY <1>1 DEF Measured, Record
<1>3. Credit(m) = c
  BY <1>2 DEF Credit
<1>4. Accounted = [m EXCEPT !.last = now, !.seconds = n]
  BY <1>3 DEF Accounted, Billed
<1>5. (bills => measures) /\ (gaming /\ screen # "paused" => bills)
  OBVIOUS
<1>6. now \in Nat
  BY PlaytimeAssumption DEF TypeOK
<1>7. n \in Nat /\ n >= t.seconds /\ (bills => n = t.seconds + c) /\ (~bills => n = t.seconds)
  BY <1>1, <1>2 DEF Record
<1> HIDE DEF t, c, m, measures, bills, n
<1>8. /\ Accounted \in Record /\ Accounted.day = t.day /\ Accounted.high = t.high
      /\ Accounted.blocked = t.blocked /\ Accounted.measured = m.measured
      /\ Accounted.seconds = n /\ Accounted.last = now
  BY <1>2, <1>4, <1>6, <1>7 DEF Record
<1>9. Covered(t) => Covered(Accounted)
  <2>1. t.seconds \in Nat /\ t.measured \in Nat
    BY <1>1 DEF Record
  <2>2. CASE bills
    BY <1>1, <1>2, <1>5, <1>7, <1>8, <2>1, <2>2 DEF Covered
  <2>3. CASE ~bills
    BY <1>1, <1>2, <1>7, <1>8, <2>1, <2>3 DEF Covered
  <2> QED
    BY <2>2, <2>3
<1> QED
  BY <1>5, <1>7, <1>8, <1>9 DEF t, c

\* What is due is done to the latch and the warnings only.
LEMMA PolicyFacts ==
    ASSUME TypeOK, NEW s \in Record, NEW b \in Nat, NEW p, p = Policy(s, b)
    PROVE  /\ p.state \in Record /\ p.state.day = s.day /\ p.state.seconds = s.seconds
           /\ p.state.high = s.high /\ p.state.measured = s.measured /\ p.state.last = s.last
           /\ p.mask \in {"release", "mask", "leave"} /\ p.kill \in {"none", "term", "kill"}
           /\ p.mask = "mask" => s.blocked # 0
           /\ p.mask = "release" => ~enforcing \/ s.seconds < b
           /\ p.state.blocked > 0 => s.blocked > 0 \/ s.seconds >= b
<1>1. now \in Nat /\ s.seconds \in Nat /\ s.blocked \in Nat
  BY PlaytimeAssumption DEF TypeOK, Record
<1>2. CASE ~enforcing
  BY <1>1, <1>2 DEF Policy
<1>3. CASE enforcing /\ s.seconds < b
  <2> DEFINE released == IF s.blocked > 0 THEN [s EXCEPT !.blocked = 0, !.warned = {}] ELSE s
             kept == {t \in released.warned : t >= b - released.seconds}
             rearmed == [released EXCEPT !.warned = kept]
             warned == rearmed.warned \cup Pending(rearmed, b)
  <2>1. /\ released \in Record /\ released.day = s.day /\ released.seconds = s.seconds
        /\ released.high = s.high /\ released.measured = s.measured /\ released.last = s.last
        /\ released.blocked = 0
    <3> DEFINE cleared == [s EXCEPT !.blocked = 0, !.warned = {}]
    <3>1. /\ cleared \in Record /\ cleared.day = s.day /\ cleared.seconds = s.seconds
          /\ cleared.high = s.high /\ cleared.measured = s.measured /\ cleared.last = s.last
          /\ cleared.blocked = 0
      BY DEF Record
    <3>2. released = IF s.blocked > 0 THEN cleared ELSE s
      OBVIOUS
    <3> HIDE DEF cleared, released
    <3> QED
      BY <1>1, <3>1, <3>2
  <2>2. kept \in SUBSET Thresholds
    BY <2>1 DEF Record
  <2> HIDE DEF released, kept
  <2>3. /\ rearmed \in Record /\ rearmed.day = s.day /\ rearmed.seconds = s.seconds
        /\ rearmed.high = s.high /\ rearmed.measured = s.measured /\ rearmed.last = s.last
        /\ rearmed.blocked = 0
    BY <2>1, <2>2 DEF Record
  <2> HIDE DEF rearmed
  <2>4. warned \in SUBSET Thresholds
    BY <2>3 DEF Record, Pending
  <2> HIDE DEF warned
  <2>5. UnderBudget(s, b) = [rearmed EXCEPT !.warned = warned]
    BY DEF UnderBudget, Warned, rearmed, kept, released, warned
  <2>6. p.state = UnderBudget(s, b) /\ p.mask = "release" /\ p.kill = "none"
    BY <1>3 DEF Policy
  <2> QED
    BY <1>1, <1>3, <2>3, <2>4, <2>5, <2>6 DEF Record
<1>4. CASE enforcing /\ ~(s.seconds < b) /\ s.blocked = 0
  <2>1. [s EXCEPT !.blocked = now] \in Record
    BY <1>1 DEF Record
  <2>2. p.state = [s EXCEPT !.blocked = now] /\ p.mask = "leave" /\ p.kill = "term"
    BY <1>4 DEF Policy
  <2> QED
    BY <1>1, <1>4, <2>1, <2>2 DEF Record
<1>5. CASE enforcing /\ ~(s.seconds < b) /\ s.blocked # 0
  <2>1. p.state = s /\ p.mask \in {"mask", "leave"} /\ p.kill \in {"kill", "term"}
    BY <1>5 DEF Policy
  <2> QED
    BY <1>1, <1>5, <2>1
<1> QED
  BY <1>2, <1>3, <1>4, <1>5

-----------------------------------------------------------------------------
\* Disturbances and mounts.

\* Counts of disturbances only grow.
Grown == used' \in [Kinds -> Nat] /\ \A k \in Kinds : used'[k] >= used[k]

LEMMA HappensFacts ==
    ASSUME used \in [Kinds -> Nat], NEW kind \in Kinds, Happens(kind)
    PROVE  Grown /\ used'[kind] > used[kind]
  BY DEF Happens, Grown

LEMMA SameGrown ==
    ASSUME used \in [Kinds -> Nat], UNCHANGED used
    PROVE  Grown
  BY DEF Grown

LEMMA FaultsFacts ==
    ASSUME used \in [Kinds -> Nat], NEW bad, Faults(bad)
    PROVE  Grown
  BY HappensFacts, SameGrown DEF Faults, Kinds

LEMMA DropFacts ==
    ASSUME TypeOK, DropMarker
    PROVE  marker' \in {0, marker} /\ Grown
<1>1. PICK left \in {0, marker} : marker' = left /\ Faults(left # 0)
  BY DEF DropMarker
<1> QED
  BY <1>1, FaultsFacts DEF TypeOK

LEMMA ReleaseFacts ==
    ASSUME TypeOK, ReleaseBlock
    PROVE  /\ mounts' \in [Target -> {"free", "rw", "ro"}] /\ Grown
           /\ \A t \in Target : mounts'[t] \in {mounts[t], "free"}
<1>1. PICK stuck \in SUBSET Masked :
        /\ mounts' = [t \in Target |-> IF t \in stuck THEN mounts[t] ELSE "free"]
        /\ Faults(stuck # {})
  BY DEF ReleaseBlock
<1>2. Grown
  BY <1>1, FaultsFacts DEF TypeOK
<1> QED
  BY <1>1, <1>2 DEF TypeOK

LEMMA ApplyFacts ==
    ASSUME TypeOK, ApplyBlock
    PROVE  /\ mounts' \in [Target -> {"free", "rw", "ro"}] /\ Grown
           /\ \A t \in Target : mounts[t] # "free" => mounts'[t] = mounts[t]
<1>1. CASE UNCHANGED <<mounts, used>>
  BY <1>1, SameGrown DEF TypeOK
<1>2. CASE \E m \in [Target -> {"free", "rw", "ro"}] :
            /\ \A t \in Masked : m[t] = mounts[t]
            /\ mounts' = m
            /\ Faults(\E t \in Target \ Masked : m[t] # "ro")
  <2>1. PICK m \in [Target -> {"free", "rw", "ro"}] :
            /\ \A t \in Masked : m[t] = mounts[t]
            /\ mounts' = m
            /\ Faults(\E t \in Target \ Masked : m[t] # "ro")
    BY <1>2
  <2>2. Grown
    BY <2>1, FaultsFacts DEF TypeOK
  <2> QED
    BY <2>1, <2>2 DEF Masked
<1> QED
  BY <1>1, <1>2 DEF ApplyBlock

LEMMA ReconcileFacts ==
    ASSUME TypeOK, NEW mask \in {"release", "mask", "leave"}, Reconcile(mask)
    PROVE  /\ mounts' \in [Target -> {"free", "rw", "ro"}] /\ Grown
           /\ mask # "mask" => \A t \in Target : mounts'[t] \in {mounts[t], "free"}
           /\ mask # "release" => \A t \in Target : mounts[t] # "free" => mounts'[t] = mounts[t]
<1>1. CASE mask = "release"
  BY <1>1, ReleaseFacts DEF Reconcile
<1>2. CASE mask = "mask"
  BY <1>2, ApplyFacts DEF Reconcile
<1>3. CASE mask = "leave"
  BY <1>3, SameGrown DEF Reconcile, TypeOK
<1> QED
  BY <1>1, <1>2, <1>3

\* A tick, as one relation between what it read and what it will save.
LEMMA TickFacts ==
    ASSUME TypeOK, Tick
    PROVE  /\ mem' \in Record /\ mem'.day = Day(now) /\ rule' = Budget
           /\ mem'.high >= Budget /\ mem'.high = Today.high /\ mem'.seconds >= Today.seconds
           /\ Covered(Today) => Covered(mem')
           /\ mem'.last \in {Today.last, now}
           /\ mem'.blocked > 0 => Today.blocked > 0 \/ mem'.seconds >= Budget
           /\ ~total /\ gaming /\ screen # "paused" =>
                 mem'.seconds = Today.seconds + Credit(Today)
           /\ mounts' \in [Target -> {"free", "rw", "ro"}] /\ Grown /\ gaming' \in BOOLEAN
           /\ Today.blocked = 0 => \A t \in Target : mounts'[t] \in {mounts[t], "free"}
           /\ (\E t \in Target : mounts[t] # "free" /\ mounts'[t] = "free") =>
                 total \/ ~enforcing \/ mem'.seconds < Budget
<1> USE TodayFacts
<1>1. rule' = Budget /\ Today.seconds \in Nat /\ Today.high \in Nat /\ Budget \in Nat
  BY BudgetFacts DEF Tick, Record
<1>2. CASE TickAside
  <2>1. mem' = Today /\ ReleaseBlock /\ total /\ UNCHANGED gaming
    BY <1>2 DEF TickAside
  <2>2. /\ mounts' \in [Target -> {"free", "rw", "ro"}] /\ Grown
        /\ \A t \in Target : mounts'[t] \in {mounts[t], "free"}
    BY <2>1, ReleaseFacts
  <2>3. gaming' \in BOOLEAN
    BY <2>1 DEF TypeOK
  <2> QED
    BY <1>1, <2>1, <2>2, <2>3
<1>3. CASE TickAccounts
  <2> DEFINE p == Policy(Accounted, Budget)
  <2>1. ~total /\ mem' = p.state /\ Reconcile(p.mask) /\ Killed(p.kill)
    BY <1>3 DEF TickAccounts
  <2>2. Accounted \in Record /\ Accounted.seconds \in Nat
    BY AccountedFacts DEF Record
  <2>3. /\ p.state \in Record /\ p.state.day = Accounted.day /\ p.state.seconds = Accounted.seconds
        /\ p.state.high = Accounted.high /\ p.state.measured = Accounted.measured
        /\ p.state.last = Accounted.last
        /\ p.mask \in {"release", "mask", "leave"} /\ p.kill \in {"none", "term", "kill"}
        /\ p.mask = "mask" => Accounted.blocked # 0
        /\ p.mask = "release" => ~enforcing \/ Accounted.seconds < Budget
        /\ p.state.blocked > 0 => Accounted.blocked > 0 \/ Accounted.seconds >= Budget
    BY <1>1, <2>2, PolicyFacts
  <2> HIDE DEF p
  <2>4. /\ mounts' \in [Target -> {"free", "rw", "ro"}] /\ Grown
        /\ p.mask # "mask" => \A t \in Target : mounts'[t] \in {mounts[t], "free"}
        /\ p.mask # "release" => \A t \in Target : mounts[t] # "free" => mounts'[t] = mounts[t]
    BY <2>1, <2>3, ReconcileFacts
  <2>5. gaming' \in BOOLEAN
    BY <2>1, <2>3 DEF Killed, TypeOK
  <2>6. /\ mem' \in Record /\ mem'.day = Day(now) /\ mem'.high >= Budget
        /\ mem'.high = Today.high /\ mem'.seconds >= Today.seconds /\ mem'.last = now
    BY <2>1, <2>3, AccountedFacts
  <2>7. Covered(Today) => Covered(mem')
    BY <2>1, <2>3, AccountedFacts DEF Covered
  <2>8. mem'.blocked > 0 => Today.blocked > 0 \/ mem'.seconds >= Budget
    BY <2>1, <2>3, AccountedFacts
  <2>9. gaming /\ screen # "paused" => mem'.seconds = Today.seconds + Credit(Today)
    BY <2>1, <2>3, AccountedFacts
  <2>10. Today.blocked = 0 => \A t \in Target : mounts'[t] \in {mounts[t], "free"}
    BY <2>3, <2>4, AccountedFacts
  <2>11. (\E t \in Target : mounts[t] # "free" /\ mounts'[t] = "free") =>
            ~enforcing \/ mem'.seconds < Budget
    BY <2>1, <2>3, <2>4
  <2> QED
    BY <1>1, <2>4, <2>5, <2>6, <2>7, <2>8, <2>9, <2>10, <2>11
<1> QED
  BY <1>2, <1>3 DEF Tick

-----------------------------------------------------------------------------
\* Type correctness.
LEMMA TypeInit == Init => TypeOK
<1> SUFFICES ASSUME Init PROVE TypeOK
  OBVIOUS
<1>1. FreshDay(0, 0) \in Record
  BY FreshIsRecord
<1>2. 1 \in 1..MaxTime /\ 0 \in 0..MaxTime /\ Clamp \in Nat
  BY PlaytimeAssumption
<1> QED
  BY <1>1, <1>2 DEF Init, TypeOK, NoFile, NoBlock

LEMMA EndIsRecord ==
    ASSUME EndTick
    PROVE  mem' \in Record /\ rule' \in Nat /\ now' \in 0..MaxTime
  BY FreshIsRecord, PlaytimeAssumption DEF EndTick

LEMMA GrantType ==
    ASSUME TypeOK, Grant
    PROVE  /\ granted' \in [day : Nat, budget : Nat]
           /\ cause' \in [day : Nat, budget : Nat] \cup {NoBlock}
<1>1. mem.day \in Nat /\ rule \in Nat /\ granted.budget \in Nat
  BY DEF TypeOK, Record
<1>2. cause # NoBlock => cause.budget \in Nat
  BY DEF TypeOK
<1> DEFINE high == IF granted.day = mem.day THEN Larger(granted.budget, rule) ELSE rule
           low == IF cause # NoBlock /\ cause.day = mem.day THEN Smaller(cause.budget, rule) ELSE rule
<1>3. high \in Nat /\ low \in Nat
  BY <1>1, <1>2 DEF Larger, Smaller
<1>4. /\ granted' = [day |-> mem.day, budget |-> high]
      /\ cause' = NoBlock \/ cause' = [day |-> mem.day, budget |-> low]
  BY DEF Grant
<1> HIDE DEF high, low
<1> QED
  BY <1>1, <1>3, <1>4

\* The steps of the daemon.
LEMMA TypeDaemon ==
    ASSUME TypeOK, Daemon
    PROVE  TypeOK'
<1>1. clock \in Nat /\ Clamp \in Nat /\ GapSlack \in Nat /\ marker \in Nat
  BY PlaytimeAssumption DEF TypeOK
<1>7. CASE Begin
  <2>1. now' \in 0..MaxTime
    BY <1>7, PlaytimeAssumption DEF Begin, TypeOK
  <2> QED
    BY <1>7, <2>1 DEF Begin, TypeOK, world, history
<1>2. CASE Tick
  <2>1. rule' \in Nat /\ now' \in 0..MaxTime
    BY TickFacts, BudgetFacts, PlaytimeAssumption, <1>2 DEF Tick
  <2> QED
    BY <1>2, <2>1, TickFacts DEF Tick, TypeOK, Grown
<1>3. CASE Save
  BY <1>1, <1>3, EndIsRecord, GrantType DEF Save, TypeOK, world
<1>4. CASE Leave
  <2>1. marker' \in Nat /\ exited' \in Nat /\ used' \in [Kinds -> Nat]
    BY <1>1, <1>4, FaultsFacts DEF Leave, RecordExit, TypeOK, Grown
  <2> QED
    BY <1>1, <1>4, <2>1, EndIsRecord, GrantType DEF Leave, TypeOK, world
<1>5. CASE Start
  <2>1. used' \in [Kinds -> Nat] /\ enforcing' \in BOOLEAN
    BY <1>5, HappensFacts DEF Start, TypeOK, Grown, Kinds
  <2> QED
    BY <1>5, <2>1 DEF Start, TypeOK, world, history
<1>6. CASE Settle
  <2> DEFINE gap == clock - marker
             bills == marker # 0 /\ 0 < gap /\ gap <= MaxGap
  <2>1. /\ mode' \in {"gap", "loop"} /\ cap' = IF bills THEN Larger(Clamp, gap + GapSlack) ELSE Clamp
        /\ owed' = IF exited # 0 /\ clock - exited \in 1..MaxGap THEN clock - exited ELSE 0
    BY <1>6 DEF Settle
  <2>2. cap' \in Nat
    BY <1>1, <2>1 DEF Larger
  <2>3. owed' \in Nat
    BY <1>1, <2>1
  <2>4. marker' \in Nat /\ used' \in [Kinds -> Nat]
    BY <1>1, <1>6, DropFacts DEF Settle, Grown
  <2> QED
    BY <1>6, <2>1, <2>2, <2>3, <2>4 DEF Settle, TypeOK, world
<1> QED
  BY <1>2, <1>3, <1>4, <1>5, <1>6, <1>7 DEF Daemon

\* The steps of everyone else: what they leave of the daemon, and their counts.
LEMMA TypeOthers ==
    ASSUME TypeOK,
           RequestRestart \/ Crash \/ ResetLoad \/ ResetSave \/ Unblock \/ Environment
    PROVE  TypeOK'
<1>1. clock \in Nat /\ clock \in 1..MaxTime /\ Clamp \in Nat /\ MaxTime \in Nat
  BY PlaytimeAssumption DEF TypeOK
<1>2. FreshDay(0, 0) \in Record
  BY FreshIsRecord
<1>3. CASE RequestRestart
  <2>1. used' \in [Kinds -> Nat]
    BY <1>3, HappensFacts DEF RequestRestart, TypeOK, Grown, Kinds
  <2> QED
    BY <1>3, <2>1 DEF RequestRestart, TypeOK, world, history
<1>4. CASE Crash
  <2>1. used' \in [Kinds -> Nat]
    BY <1>4, HappensFacts DEF Crash, TypeOK, Grown, Kinds
  <2>2. /\ mounts' \in [Target -> {"free", "rw", "ro"}] /\ gaming' \in BOOLEAN
        /\ pacman' \in BOOLEAN /\ cli' \in {"off", "loaded"}
    BY <1>4 DEF Crash, TypeOK
  <2> QED
    BY <1>1, <1>4, <2>1, <2>2, EndIsRecord DEF Crash, TypeOK
<1>5. CASE ResetLoad
  <2> DEFINE before == IF file = NoFile THEN FreshDay(Day(clock), clock)
                       ELSE RollOver(file, Day(clock))
  <2>1. used' \in [Kinds -> Nat]
    BY <1>5, HappensFacts DEF ResetLoad, TypeOK, Grown, Kinds
  <2>2. before \in Record
    <3>1. file # NoFile => file \in Record /\ file.last \in Nat
      BY DEF TypeOK, Record
    <3> QED
      BY <1>1, <3>1, DayIsNat, FreshIsRecord DEF RollOver
  <2>3. copy' = [before EXCEPT !.seconds = 0, !.blocked = 0, !.last = clock, !.warned = {}]
    BY <1>5 DEF ResetLoad
  <2> HIDE DEF before
  <2>4. copy' \in Record
    BY <1>1, <2>2, <2>3 DEF Record
  <2>5. mounts' \in [Target -> {"free", "rw", "ro"}]
    BY <1>5 DEF ResetLoad, TypeOK
  <2> QED
    BY <1>5, <2>1, <2>4, <2>5 DEF ResetLoad, TypeOK, world, daemon, history
<1>6. CASE ResetSave
  BY <1>2, <1>6 DEF ResetSave, TypeOK, world, daemon, history
<1>7. CASE Unblock
  <2>1. used' \in [Kinds -> Nat]
    BY <1>7, HappensFacts DEF Unblock, TypeOK, Grown, Kinds
  <2>2. mounts' \in [Target -> {"free", "rw", "ro"}]
    BY <1>7 DEF Unblock
  <2> QED
    BY <1>7, <2>1, <2>2 DEF Unblock, TypeOK, world, daemon, history
<1>8. CASE Environment
  <2>1. used' \in [Kinds -> Nat]
    <3>1. UNCHANGED used \/ \E k \in Kinds : Happens(k)
      BY <1>8 DEF Environment, PassTime, StepClock, Resolve, PlayOrStop, Watch, Pacman,
                  TotalBlock, LoseFile, Kinds
    <3> QED
      BY <3>1, HappensFacts DEF TypeOK, Grown
  <2>2. clock' \in 1..MaxTime
    BY <1>1, <1>8 DEF Environment, PassTime, StepClock, Resolve, PlayOrStop, Watch, Pacman,
                      TotalBlock, LoseFile
  <2>3. /\ live' \in Budgets /\ gaming' \in BOOLEAN /\ screen' \in {"paused", "leisure", "free"}
        /\ total' \in BOOLEAN /\ pacman' \in BOOLEAN
    BY <1>8 DEF Environment, PassTime, StepClock, Resolve, PlayOrStop, Watch, Pacman,
                TotalBlock, LoseFile, TypeOK, world
  <2>4. file' \in Record \cup {NoFile}
    BY <1>8 DEF Environment, PassTime, StepClock, Resolve, PlayOrStop, Watch, Pacman,
                TotalBlock, LoseFile, TypeOK
  <2>5. CASE StepClock
    BY <2>1, <2>2, <2>5 DEF StepClock, TypeOK, world, daemon
  <2>6. CASE Same
    BY <2>1, <2>2, <2>3, <2>4, <2>6 DEF Same, TypeOK, daemon, history
  <2> QED
    BY <1>8, <2>5, <2>6 DEF Environment, PassTime, Resolve, PlayOrStop, Watch, Pacman,
                            TotalBlock, LoseFile
<1> QED
  BY <1>3, <1>4, <1>5, <1>6, <1>7, <1>8

LEMMA TypeStep == TypeOK /\ [Next]_vars => TypeOK'
<1> SUFFICES ASSUME TypeOK, [Next]_vars PROVE TypeOK'
  OBVIOUS
<1>1. CASE UNCHANGED vars
  BY <1>1 DEF vars, world, daemon, history, TypeOK
<1> QED
  BY <1>1, TypeDaemon, TypeOthers DEF Next

\* TypeOK: whatever the clock, the files and the mounts do, every record, stamp
\* and count keeps its range (PlaytimeState, _playtime_block.py).
THEOREM TypeCorrect == Spec => []TypeOK
  BY TypeInit, TypeStep, PTL DEF Spec

-----------------------------------------------------------------------------
\* The inductive invariants.
Kept == used.delete = 0
Apart == Kept /\ used.reset = 0
Steady == Apart /\ used.step = 0

\* The command line holds a record only while it resets, and no one deletes it.
ResetIsCounted == cli = "loaded" => used.reset > 0

\* Before the first record is written nothing is masked.
MasksHaveARecord == Kept /\ file = NoFile => Masked = {}

\* What a tick is about to write keeps what the file has of its day and what the
\* day has granted.
Pursues(s) ==
    /\ file # NoFile /\ file.day = s.day => s.seconds >= file.seconds
    /\ s.high >= rule
    /\ granted.day = s.day => s.high >= granted.budget
MemKeepsTheDay == Apart /\ pc = "save" => Pursues(mem)

\* The file has what its day has granted.
FileHolds ==
    Apart => IF file = NoFile THEN granted.budget = 0
             ELSE file.day = granted.day /\ file.high >= granted.budget

\* A record that says blocked has spent the budget it is blocked under.
BlockIsSpent(s, b) ==
    s.blocked > 0 =>
        \/ s.seconds >= b
        \/ cause # NoBlock /\ cause.day = s.day /\ s.seconds >= cause.budget
MemIsSpent == used.reset = 0 /\ pc = "save" => BlockIsSpent(mem, rule)
FileIsSpent ==
    used.reset = 0 /\ file # NoFile =>
        IF cause = NoBlock THEN file.blocked = 0
        ELSE file.day = cause.day /\ file.seconds >= cause.budget

\* Stamps are behind the clock while nobody sets it.
StampsAreBehind ==
    Steady => /\ pc = "price" => now \in 1..clock
              /\ pc = "save" => mem.last \in 1..clock
              /\ file # NoFile => file.last \in 1..clock

\* So are days: the file's, the tick's, and the one about to be written.
DaysGoOn ==
    Steady => /\ file # NoFile => file.day <= Day(clock)
              /\ pc = "price" => Day(now) <= Day(clock) /\ (file # NoFile => file.day <= Day(now))
              /\ pc = "save" => mem.day <= Day(clock) /\ (file # NoFile => file.day <= mem.day)

\* An exit for a restart is marked, and comes after the last tick.
ExitIsMarked ==
    Steady /\ exited # 0 =>
        /\ pc \in {"down", "settle"} /\ marker = exited /\ exited <= clock
        /\ file # NoFile /\ file.last <= exited

\* A downtime that is owed fits between the last tick and the next, and in its cap.
OwedFits ==
    Steady /\ owed # 0 =>
        /\ pc \in {"tick", "price"} /\ file # NoFile /\ owed <= cap
        /\ pc = "tick" => file.last + owed <= clock
        /\ pc = "price" => file.last + owed <= now

Inv ==
    /\ ResetIsCounted /\ MasksHaveARecord /\ ShadowCoversEnforced
    /\ MemKeepsTheDay /\ FileHolds /\ MemIsSpent /\ FileIsSpent
    /\ StampsAreBehind /\ DaysGoOn /\ ExitIsMarked /\ OwedFits

\* What has happened has happened.
LEMMA CountFacts ==
    ASSUME TypeOK, Grown
    PROVE  /\ Kept' => Kept
           /\ Apart' => Apart
           /\ Steady' => Steady
           /\ used'.reset = 0 => used.reset = 0
           /\ used.reset > 0 => used'.reset > 0
<1>1. /\ used'["delete"] >= used["delete"] /\ used'["reset"] >= used["reset"]
      /\ used'["step"] >= used["step"]
  BY DEF Grown, Kinds
<1>2. /\ used'["delete"] \in Nat /\ used'["reset"] \in Nat /\ used'["step"] \in Nat
      /\ used["delete"] \in Nat /\ used["reset"] \in Nat /\ used["step"] \in Nat
  BY DEF Grown, TypeOK, Kinds
<1> QED
  BY <1>1, <1>2 DEF Kept, Apart, Steady

\* Masks that only come off leave nothing masked where nothing was.
LEMMA OnlyOff ==
    ASSUME \A t \in Target : mounts'[t] \in {mounts[t], "free"}
    PROVE  Masked = {} => Masked' = {}
  BY DEF Masked

LEMMA InvInit == Init => Inv
<1> SUFFICES ASSUME Init PROVE Inv
  OBVIOUS
<1>1. Covered(mem) /\ Covered(copy)
  BY FreshIsRecord DEF Init, Covered
<1>2. Masked = {}
  BY DEF Init, Masked
<1> QED
  BY <1>1, <1>2 DEF Init, Inv, ResetIsCounted, MasksHaveARecord, ShadowCoversEnforced,
     MemKeepsTheDay, FileHolds, MemIsSpent, FileIsSpent, StampsAreBehind, DaysGoOn, ExitIsMarked,
     OwedFits

\* A step that touches no record: at most the clock goes on and masks come off.
Quiet ==
    /\ UNCHANGED <<file, now, mem, pc, cap, rule, marker, copy, cli, exited, owed, granted, cause>>
    /\ clock' \in Nat /\ clock' >= clock
    /\ \A t \in Target : mounts'[t] \in {mounts[t], "free"}
    /\ Grown

LEMMA InvQuiet ==
    ASSUME TypeOK, Inv, Quiet
    PROVE  Inv'
<1> USE CountFacts DEF Quiet
<1>1. ResetIsCounted'
  BY DEF Inv, ResetIsCounted
<1>2. MasksHaveARecord'
  BY OnlyOff DEF Inv, MasksHaveARecord
<1>3. ShadowCoversEnforced'
  BY DEF Inv, ShadowCoversEnforced, Covered, Kept
<1>4. MemKeepsTheDay' /\ FileHolds'
  BY DEF Inv, MemKeepsTheDay, FileHolds, Pursues
<1>5. MemIsSpent' /\ FileIsSpent'
  BY DEF Inv, MemIsSpent, FileIsSpent, BlockIsSpent
<1>6. clock \in Nat /\ now \in Nat /\ mem.last \in Nat /\ (file # NoFile => file.last \in Nat)
      /\ exited \in Nat /\ owed \in Nat
  BY PlaytimeAssumption DEF TypeOK, Record
<1>7. StampsAreBehind'
  BY <1>6 DEF Inv, StampsAreBehind
<1>8. ExitIsMarked'
  BY <1>6 DEF Inv, ExitIsMarked
<1>9. OwedFits'
  BY <1>6 DEF Inv, OwedFits
<1>10. DaysGoOn'
  <2>1. Day(clock) <= Day(clock')
    BY <1>6, DayIsMonotone
  <2>2. /\ Day(clock) \in Nat /\ Day(clock') \in Nat /\ Day(now) \in Nat
        /\ mem.day \in Nat /\ (file # NoFile => file.day \in Nat)
    BY <1>6, DayIsNat DEF TypeOK, Record
  <2>3. now' = now /\ Day(now') = Day(now)
    OBVIOUS
  <2> QED
    BY <2>1, <2>2, <2>3 DEF Inv, DaysGoOn
<1> QED
  BY <1>1, <1>2, <1>3, <1>4, <1>5, <1>7, <1>8, <1>9, <1>10 DEF Inv

\* While the file was never lost, what a tick starts from is covered.
LEMMA TodayCovered ==
    ASSUME TypeOK, Inv, Kept
    PROVE  Covered(Today)
<1>1. file # NoFile => Covered(file)
  BY DEF Inv, ShadowCoversEnforced, Kept
<1>2. file = NoFile => Masked = {}
  BY DEF Inv, MasksHaveARecord
<1> QED
  BY <1>1, <1>2, TodayFacts DEF Covered

\* A tick begins by reading the clock.
LEMMA InvBegin ==
    ASSUME TypeOK, Inv, Begin
    PROVE  Inv'
<1> USE CountFacts
<1>1. /\ UNCHANGED <<clock, mounts, file, mem, cap, rule, marker, copy, cli, used,
                     exited, owed, granted, cause>>
      /\ pc = "tick" /\ pc' = "price" /\ now' = clock
  BY DEF Begin, history
<1>2. Grown /\ clock \in 1..MaxTime /\ clock \in Nat
  BY <1>1, SameGrown, PlaytimeAssumption DEF TypeOK
<1> USE <1>1, <1>2
<1>3. ResetIsCounted' /\ MasksHaveARecord'
  BY DEF Inv, ResetIsCounted, MasksHaveARecord, Masked
<1>4. ShadowCoversEnforced'
  BY DEF Inv, ShadowCoversEnforced, Covered, Kept
<1>5. MemKeepsTheDay' /\ FileHolds'
  BY DEF Inv, MemKeepsTheDay, FileHolds
<1>6. MemIsSpent' /\ FileIsSpent'
  BY DEF Inv, MemIsSpent, FileIsSpent
<1>7. StampsAreBehind' /\ ExitIsMarked' /\ OwedFits'
  BY DEF Inv, StampsAreBehind, ExitIsMarked, OwedFits
<1>8. DaysGoOn'
  <2>1. Day(now') = Day(clock) /\ Day(clock') = Day(clock) /\ Day(clock) \in Nat
    BY DayIsNat
  <2> QED
    BY <2>1 DEF Inv, DaysGoOn
<1> QED
  BY <1>3, <1>4, <1>5, <1>6, <1>7, <1>8 DEF Inv

LEMMA InvTick ==
    ASSUME TypeOK, Inv, Tick
    PROVE  Inv'
<1> USE CountFacts, TickFacts, TodayFacts, BudgetFacts
<1>1. /\ UNCHANGED <<clock, file, marker, cap, copy, cli, exited, granted, cause>>
      /\ owed' = 0 /\ pc = "price" /\ pc' = "save"
  BY DEF Tick
<1>2. clock \in Nat /\ clock >= 1 /\ now \in Nat /\ Day(now) \in Nat /\ Day(clock) \in Nat
  BY PlaytimeAssumption, DayIsNat DEF TypeOK
<1>3. ResetIsCounted'
  BY <1>1 DEF Inv, ResetIsCounted
<1>4. MasksHaveARecord'
  <2> SUFFICES ASSUME Kept', file' = NoFile PROVE Masked' = {}
    BY DEF MasksHaveARecord
  <2>1. Masked = {} /\ file = NoFile
    BY <1>1 DEF Inv, MasksHaveARecord
  <2> QED
    BY <2>1, OnlyOff
<1>5. ShadowCoversEnforced'
  <2> SUFFICES ASSUME Kept' PROVE Covered(mem') /\ Covered(copy) /\ (file # NoFile => Covered(file))
    BY <1>1 DEF ShadowCoversEnforced, Kept, Covered
  <2> QED
    BY TodayCovered DEF Inv, ShadowCoversEnforced, Kept
<1>6. FileHolds'
  BY <1>1 DEF Inv, FileHolds
<1>7. MemKeepsTheDay'
  <2> SUFFICES ASSUME Apart' PROVE Pursues(mem)'
    BY DEF MemKeepsTheDay
  <2>1. Apart /\ (IF file = NoFile THEN granted.budget = 0
                  ELSE file.day = granted.day /\ file.high >= granted.budget)
    BY DEF Inv, FileHolds
  <2>2. /\ mem'.high \in Nat /\ mem'.seconds \in Nat /\ granted.budget \in Nat
        /\ file # NoFile => file.high \in Nat /\ file.seconds \in Nat
    BY DEF TypeOK, Record
  <2>3. granted.day = Day(now) => mem'.high >= granted.budget
    BY <2>1, <2>2
  <2>4. file # NoFile /\ file.day = Day(now) => mem'.seconds >= file.seconds
    OBVIOUS
  <2>5. mem'.high >= rule'
    OBVIOUS
  <2> QED
    BY <1>1, <2>3, <2>4, <2>5 DEF Pursues
<1>8. MemIsSpent'
  <2> SUFFICES ASSUME used'.reset = 0, mem'.blocked > 0, ~(mem'.seconds >= Budget)
               PROVE  cause # NoBlock /\ cause.day = mem'.day /\ mem'.seconds >= cause.budget
    BY <1>1 DEF MemIsSpent, BlockIsSpent
  <2>1. Today.blocked > 0 /\ Today.seconds \in Nat /\ mem'.seconds \in Nat /\ Budget \in Nat
    BY DEF Record
  <2>2. file # NoFile /\ file.day = Day(now) /\ Today.blocked = file.blocked
    BY <2>1
  <2>3. cause # NoBlock /\ file.day = cause.day /\ file.seconds >= cause.budget
    BY <2>1, <2>2 DEF Inv, FileIsSpent
  <2>4. file.seconds \in Nat /\ cause.budget \in Nat
    BY <2>2, <2>3 DEF TypeOK, Record
  <2> QED
    BY <2>1, <2>2, <2>3, <2>4
<1>9. FileIsSpent'
  BY <1>1 DEF Inv, FileIsSpent
<1>10. StampsAreBehind'
  BY <1>1, <1>2 DEF Inv, StampsAreBehind
<1>11. ExitIsMarked'
  BY <1>1 DEF Inv, ExitIsMarked
<1>12. OwedFits'
  BY <1>1 DEF OwedFits
<1>13. DaysGoOn'
  <2>1. Day(clock') = Day(clock) /\ mem'.day = Day(now)
    BY <1>1
  <2> QED
    BY <1>1, <2>1 DEF Inv, DaysGoOn
<1> QED
  BY <1>3, <1>4, <1>5, <1>6, <1>7, <1>8, <1>9, <1>10, <1>11, <1>12, <1>13 DEF Inv

\* A record is written: by the loop, or by the flush before a restart.
LEMMA InvSave ==
    ASSUME TypeOK, Inv, Save \/ Leave
    PROVE  Inv'
<1> USE CountFacts
<1>1. /\ UNCHANGED <<clock, mounts, copy, cli, owed>>
      /\ pc = "save" /\ pc' \in {"tick", "down"} /\ file' = mem /\ Grant /\ EndTick
  BY DEF Save, Leave
<1>2. mem \in Record /\ mem # NoFile /\ rule \in Nat /\ clock \in Nat
  BY PlaytimeAssumption DEF TypeOK, Record, NoFile
<1>3. /\ mem.day \in Nat /\ mem.seconds \in Nat /\ mem.high \in Nat /\ mem.last \in Nat
      /\ mem.blocked \in Nat /\ granted.budget \in Nat
      /\ cause # NoBlock => cause.budget \in Nat
  BY <1>2 DEF TypeOK, Record
<1>4. Grown
  BY SameGrown, FaultsFacts DEF Save, Leave, RecordExit, TypeOK
<1> USE <1>1, <1>2, <1>3, <1>4
<1>5. ResetIsCounted'
  BY DEF Inv, ResetIsCounted
<1>6. MasksHaveARecord'
  BY DEF MasksHaveARecord
<1>7. ShadowCoversEnforced'
  <2>1. Covered(mem')
    BY FreshIsRecord DEF EndTick, Covered
  <2>2. Kept' => Covered(mem) /\ Covered(copy)
    BY DEF Inv, ShadowCoversEnforced, Kept
  <2> QED
    BY <2>1, <2>2 DEF ShadowCoversEnforced, Kept, Covered
<1>8. MemKeepsTheDay' /\ MemIsSpent'
  BY DEF MemKeepsTheDay, MemIsSpent
<1>9. FileHolds'
  <2> SUFFICES ASSUME Apart' PROVE mem.day = granted'.day /\ mem.high >= granted'.budget
    BY DEF FileHolds
  <2>1. Apart /\ Pursues(mem)
    BY DEF Inv, MemKeepsTheDay
  <2> QED
    BY <2>1 DEF Grant, Pursues, Larger
<1>10. FileIsSpent'
  <2> SUFFICES ASSUME used'.reset = 0
               PROVE  IF cause' = NoBlock THEN mem.blocked = 0
                      ELSE mem.day = cause'.day /\ mem.seconds >= cause'.budget
    BY DEF FileIsSpent
  <2> DEFINE low == IF cause # NoBlock /\ cause.day = mem.day
                    THEN Smaller(cause.budget, rule) ELSE rule
  <2>1. BlockIsSpent(mem, rule)
    BY DEF Inv, MemIsSpent
  <2>2. CASE mem.blocked = 0
    BY <2>2 DEF Grant
  <2>3. CASE mem.blocked > 0
    <3>1. cause' = [day |-> mem.day, budget |-> low]
      BY <2>3 DEF Grant
    <3>2. mem.seconds >= low
      BY <2>1, <2>3 DEF BlockIsSpent, Smaller
    <3> HIDE DEF low
    <3>3. cause' # NoBlock /\ cause'.day = mem.day /\ cause'.budget = low
      BY <3>1 DEF NoBlock
    <3> QED
      BY <3>2, <3>3
  <2> QED
    BY <2>2, <2>3
<1>11. StampsAreBehind'
  BY DEF Inv, StampsAreBehind
<1>12. ExitIsMarked'
  <2>1. CASE Save
    BY <2>1 DEF Save, Inv, ExitIsMarked
  <2>2. CASE Leave
    <3>1. pc' = "down" /\ (exited' = 0 \/ (exited' = clock /\ marker' = clock))
      BY <2>2 DEF Leave, RecordExit
    <3>2. Steady' => mem.last <= clock
      BY DEF Inv, StampsAreBehind
    <3> QED
      BY <3>1, <3>2 DEF ExitIsMarked
  <2> QED
    BY <2>1, <2>2
<1>13. OwedFits'
  BY DEF Inv, OwedFits
<1>14. DaysGoOn'
  <2>1. Day(clock') = Day(clock)
    OBVIOUS
  <2> QED
    BY <2>1 DEF Inv, DaysGoOn
<1> QED
  BY <1>5, <1>6, <1>7, <1>8, <1>9, <1>10, <1>11, <1>12, <1>13, <1>14 DEF Inv

LEMMA InvStart ==
    ASSUME TypeOK, Inv, Start
    PROVE  Inv'
<1> USE CountFacts
<1>1. /\ UNCHANGED <<clock, mounts, file, mem, cap, rule, marker, copy, cli, exited, owed, granted, cause>>
      /\ pc = "down" /\ pc' = "settle"
  BY DEF Start, history
<1>2. Grown
  BY HappensFacts, SameGrown DEF Start, TypeOK, Kinds
<1> USE <1>1, <1>2
<1>3. ResetIsCounted' /\ MasksHaveARecord'
  BY DEF Inv, ResetIsCounted, MasksHaveARecord, Masked
<1>4. ShadowCoversEnforced'
  BY DEF Inv, ShadowCoversEnforced, Covered, Kept
<1>5. MemKeepsTheDay' /\ FileHolds'
  BY DEF Inv, MemKeepsTheDay, FileHolds
<1>6. MemIsSpent' /\ FileIsSpent'
  BY DEF Inv, MemIsSpent, FileIsSpent
<1>7. StampsAreBehind' /\ ExitIsMarked' /\ OwedFits'
  BY DEF Inv, StampsAreBehind, ExitIsMarked, OwedFits
<1>8. DaysGoOn'
  <2>1. Day(clock') = Day(clock)
    OBVIOUS
  <2> QED
    BY <2>1 DEF Inv, DaysGoOn
<1> QED
  BY <1>3, <1>4, <1>5, <1>6, <1>7, <1>8 DEF Inv

LEMMA InvSettle ==
    ASSUME TypeOK, Inv, Settle
    PROVE  Inv'
<1> USE CountFacts
<1> DEFINE gap == clock - marker
           bills == marker # 0 /\ 0 < gap /\ gap <= MaxGap
<1>1. /\ UNCHANGED <<clock, mounts, file, mem, rule, copy, cli, granted, cause>>
      /\ pc = "settle" /\ pc' = "tick" /\ exited' = 0
      /\ cap' = IF bills THEN Larger(Clamp, gap + GapSlack) ELSE Clamp
      /\ owed' = IF exited # 0 /\ clock - exited \in 1..MaxGap THEN clock - exited ELSE 0
  BY DEF Settle
<1>2. Grown
  BY DropFacts DEF Settle
<1> USE <1>2
<1>3. ResetIsCounted' /\ MasksHaveARecord'
  BY <1>1 DEF Inv, ResetIsCounted, MasksHaveARecord, Masked
<1>4. ShadowCoversEnforced'
  BY <1>1 DEF Inv, ShadowCoversEnforced, Covered, Kept
<1>5. MemKeepsTheDay' /\ FileHolds'
  BY <1>1 DEF Inv, MemKeepsTheDay, FileHolds
<1>6. MemIsSpent' /\ FileIsSpent'
  BY <1>1 DEF Inv, MemIsSpent, FileIsSpent
<1>7. StampsAreBehind' /\ ExitIsMarked'
  BY <1>1 DEF Inv, StampsAreBehind, ExitIsMarked
<1>8. OwedFits'
  <2> SUFFICES ASSUME Steady', owed' # 0
               PROVE  /\ pc' = "tick" /\ file' # NoFile
                      /\ file'.last + owed' <= clock' /\ owed' <= cap'
    BY DEF OwedFits
  <2>1. /\ marker = exited /\ file # NoFile /\ file.last <= exited
        /\ exited # 0 /\ owed' = clock - exited /\ clock - exited \in 1..MaxGap
    BY <1>1 DEF Inv, ExitIsMarked
  <2>2. /\ clock \in Nat /\ exited \in Nat /\ file.last \in Nat
        /\ MaxGap \in Nat /\ GapSlack \in Nat /\ Clamp \in Nat
    BY <2>1, PlaytimeAssumption DEF TypeOK, Record
  <2>3. bills /\ cap' = Larger(Clamp, gap + GapSlack) /\ gap = owed'
    BY <1>1, <2>1, <2>2
  <2>4. owed' <= cap'
    BY <2>1, <2>2, <2>3 DEF Larger
  <2> QED
    BY <1>1, <2>1, <2>2, <2>4
<1>9. DaysGoOn'
  <2>1. Day(clock') = Day(clock)
    BY <1>1
  <2> QED
    BY <1>1, <2>1 DEF Inv, DaysGoOn
<1> QED
  BY <1>3, <1>4, <1>5, <1>6, <1>7, <1>8, <1>9 DEF Inv

LEMMA InvCrash ==
    ASSUME TypeOK, Inv, Crash
    PROVE  Inv'
<1> USE CountFacts
<1>1. /\ UNCHANGED <<clock, file, copy, granted, cause>>
      /\ pc' = "down" /\ exited' = 0 /\ owed' = 0 /\ EndTick /\ Happens("crash")
      /\ cli' \in {cli, "off"} /\ \A t \in Target : mounts'[t] \in {mounts[t], "free"}
  BY DEF Crash
<1>2. Grown
  BY <1>1, HappensFacts DEF TypeOK, Kinds
<1> USE <1>1, <1>2
<1>3. ResetIsCounted' /\ MasksHaveARecord'
  BY OnlyOff DEF Inv, ResetIsCounted, MasksHaveARecord
<1>4. ShadowCoversEnforced'
  <2>1. Covered(mem')
    BY FreshIsRecord DEF EndTick, Covered
  <2> QED
    BY <2>1 DEF Inv, ShadowCoversEnforced, Covered, Kept
<1>5. MemKeepsTheDay' /\ FileHolds'
  BY DEF Inv, MemKeepsTheDay, FileHolds
<1>6. MemIsSpent' /\ FileIsSpent'
  BY DEF Inv, MemIsSpent, FileIsSpent
<1>7. StampsAreBehind' /\ ExitIsMarked' /\ OwedFits'
  BY DEF Inv, StampsAreBehind, ExitIsMarked, OwedFits
<1>8. DaysGoOn'
  <2>1. Day(clock') = Day(clock)
    OBVIOUS
  <2> QED
    BY <2>1 DEF Inv, DaysGoOn
<1> QED
  BY <1>3, <1>4, <1>5, <1>6, <1>7, <1>8 DEF Inv

\* The command line loads what it will save: a record that has spent nothing.
LEMMA InvResetLoad ==
    ASSUME TypeOK, Inv, ResetLoad, TypeOK'
    PROVE  Inv'
<1>1. /\ UNCHANGED <<clock, file, mem, granted, cause>> /\ Happens("reset")
      /\ copy'.seconds = 0 /\ \A t \in Target : mounts'[t] \in {mounts[t], "free"}
  <2> DEFINE before == IF file = NoFile THEN FreshDay(Day(clock), clock)
                       ELSE RollOver(file, Day(clock))
  <2>1. copy' = [before EXCEPT !.seconds = 0, !.blocked = 0, !.last = clock, !.warned = {}]
    BY DEF ResetLoad
  <2>2. before \in Record
    <3>1. file # NoFile => file \in Record /\ file.last \in Nat
      BY DEF TypeOK, Record
    <3>2. clock \in Nat
      BY PlaytimeAssumption DEF TypeOK
    <3> QED
      BY <3>1, <3>2, DayIsNat, FreshIsRecord DEF RollOver
  <2> HIDE DEF before
  <2>3. copy'.seconds = 0
    BY <2>1, <2>2 DEF Record
  <2> QED
    BY <2>3 DEF ResetLoad, daemon, history
<1>2. Grown /\ used'.reset > 0
  <2>1. Grown /\ used'["reset"] > used["reset"] /\ used["reset"] \in Nat
    BY <1>1, HappensFacts DEF TypeOK, Kinds
  <2> QED
    BY <2>1 DEF Grown, Kinds
<1>3. ~Apart' /\ ~Steady' /\ used'.reset # 0
  BY <1>2 DEF Apart, Steady
<1>4. ShadowCoversEnforced'
  <2>1. copy'.measured \in Nat
    BY DEF TypeOK, Record
  <2>2. Covered(copy')
    BY <1>1, <2>1 DEF Covered
  <2> QED
    BY <1>1, <1>2, <2>2, CountFacts DEF Inv, ShadowCoversEnforced, Covered, Kept
<1>5. MasksHaveARecord'
  BY <1>1, <1>2, CountFacts, OnlyOff DEF Inv, MasksHaveARecord
<1> QED
  BY <1>2, <1>3, <1>4, <1>5 DEF Inv, ResetIsCounted, MemKeepsTheDay, FileHolds, MemIsSpent,
     FileIsSpent, StampsAreBehind, DaysGoOn, ExitIsMarked, OwedFits

LEMMA InvResetSave ==
    ASSUME TypeOK, Inv, ResetSave
    PROVE  Inv'
<1>1. /\ UNCHANGED <<mem, used>> /\ used.reset > 0
      /\ file' = copy /\ cli' = "off" /\ copy' = FreshDay(0, 0)
  BY DEF ResetSave, daemon, Inv, ResetIsCounted
<1>2. copy # NoFile /\ Covered(copy')
  <2>1. copy \in Record
    BY DEF TypeOK
  <2>2. copy # NoFile
    BY <2>1 DEF Record, NoFile
  <2>3. Covered(copy')
    BY <1>1, FreshIsRecord DEF Covered
  <2> QED
    BY <2>2, <2>3
<1>3. ~Apart' /\ ~Steady' /\ used'.reset # 0
  BY <1>1 DEF Apart, Steady, TypeOK, Kinds
<1>4. ShadowCoversEnforced' /\ MasksHaveARecord'
  BY <1>1, <1>2 DEF Inv, ShadowCoversEnforced, MasksHaveARecord, Covered, Kept
<1> QED
  BY <1>1, <1>3, <1>4 DEF Inv, ResetIsCounted, MemKeepsTheDay, FileHolds, MemIsSpent,
     FileIsSpent, StampsAreBehind, DaysGoOn, ExitIsMarked, OwedFits

LEMMA InvLoseFile ==
    ASSUME TypeOK, Inv, LoseFile
    PROVE  Inv'
<1>1. /\ UNCHANGED <<clock, mounts, mem, pc, rule, cli, copy, granted, cause>>
      /\ file' = NoFile /\ Happens("delete")
  BY DEF LoseFile, Same, daemon, history
<1>2. Grown /\ used'["delete"] > used["delete"] /\ used["delete"] \in Nat
  BY <1>1, HappensFacts DEF TypeOK, Kinds
<1>3. used'["delete"] # 0
  BY <1>2 DEF Grown, Kinds
<1>4. ~Kept' /\ ~Apart' /\ ~Steady' /\ used'.delete # 0
  BY <1>3 DEF Kept, Apart, Steady
<1>5. ResetIsCounted' /\ MemIsSpent' /\ FileIsSpent'
  BY <1>1, <1>2, CountFacts DEF Inv, ResetIsCounted, MemIsSpent, BlockIsSpent, FileIsSpent
<1> QED
  BY <1>4, <1>5 DEF Inv, MasksHaveARecord, ShadowCoversEnforced, MemKeepsTheDay, FileHolds,
     StampsAreBehind, DaysGoOn, ExitIsMarked, OwedFits

LEMMA InvStepClock ==
    ASSUME TypeOK, Inv, StepClock
    PROVE  Inv'
<1>1. /\ UNCHANGED <<mounts, file, mem, pc, rule, cli, copy, granted, cause>>
      /\ Happens("step")
  BY DEF StepClock, daemon
<1>2. Grown /\ used'["step"] > used["step"] /\ used["step"] \in Nat
  BY <1>1, HappensFacts DEF TypeOK, Kinds
<1>3. used'["step"] # 0
  BY <1>2 DEF Grown, Kinds
<1>4. ~Steady'
  BY <1>3 DEF Steady
<1> USE <1>1, <1>2, CountFacts
<1>5. ResetIsCounted' /\ MasksHaveARecord'
  BY DEF Inv, ResetIsCounted, MasksHaveARecord, Masked
<1>6. ShadowCoversEnforced'
  BY DEF Inv, ShadowCoversEnforced, Covered, Kept
<1>7. MemKeepsTheDay' /\ FileHolds'
  BY DEF Inv, MemKeepsTheDay, FileHolds, Pursues
<1>8. MemIsSpent' /\ FileIsSpent'
  BY DEF Inv, MemIsSpent, FileIsSpent, BlockIsSpent
<1> QED
  BY <1>4, <1>5, <1>6, <1>7, <1>8 DEF Inv, StampsAreBehind, DaysGoOn, ExitIsMarked, OwedFits

\* Everything else touches no record.
LEMMA QuietSteps ==
    ASSUME TypeOK,
           \/ UNCHANGED vars \/ RequestRestart \/ Unblock \/ PassTime \/ Resolve
           \/ PlayOrStop \/ Watch \/ Pacman \/ TotalBlock
    PROVE  Quiet
<1>1. UNCHANGED <<file, now, mem, pc, cap, rule, marker, copy, cli, exited, owed, granted, cause>>
  BY DEF vars, RequestRestart, Unblock, PassTime, Resolve, PlayOrStop, Watch, Pacman, TotalBlock,
         Same, daemon, history
<1>2. clock \in Nat /\ clock' \in {clock, clock + 1}
  BY PlaytimeAssumption
  DEF TypeOK, vars, RequestRestart, Unblock, PassTime, Resolve, PlayOrStop, Watch, Pacman, TotalBlock
<1>3. \A t \in Target : mounts'[t] \in {mounts[t], "free"}
  <2>1. UNCHANGED mounts \/ mounts' = [t \in Target |-> "free"]
    BY DEF vars, RequestRestart, Unblock, PassTime, Resolve, PlayOrStop, Watch, Pacman, TotalBlock, Same
  <2> QED
    BY <2>1
<1>4. Grown
  <2>1. UNCHANGED used \/ \E k \in Kinds : Happens(k)
    BY DEF vars, RequestRestart, Unblock, PassTime, Resolve, PlayOrStop, Watch, Pacman, TotalBlock, Kinds
  <2> QED
    BY <2>1, SameGrown, HappensFacts DEF TypeOK
<1> QED
  BY <1>1, <1>2, <1>3, <1>4 DEF Quiet

LEMMA InvStep == TypeOK /\ Inv /\ [Next]_vars => Inv'
<1> SUFFICES ASSUME TypeOK, Inv, [Next]_vars PROVE Inv'
  OBVIOUS
<1>1. TypeOK'
  BY TypeStep
<1> QED
  BY <1>1, QuietSteps, InvQuiet, InvBegin, InvTick, InvSave, InvStart, InvSettle, InvCrash, InvResetLoad,
     InvResetSave, InvLoseFile, InvStepClock
  DEF Next, Daemon, Environment

LEMMA Invariance == Spec => [](TypeOK /\ Inv)
  BY TypeInit, TypeStep, InvInit, InvStep, PTL DEF Spec

-----------------------------------------------------------------------------
\* The properties.

LEMMA OnlyTickPrices ==
    ASSUME [Next]_vars, pc = "price", pc' = "save"
    PROVE  Tick
<1>1. CASE UNCHANGED pc
  BY <1>1
<1>2. CASE pc' = "down" \/ pc = "down" \/ pc = "settle" \/ pc = "tick" \/ pc = "save"
  BY <1>2
<1> QED
  BY <1>1, <1>2 DEF Next, vars, Daemon, Begin, Save, Leave, Start, Settle, RequestRestart, Crash, ResetLoad,
     ResetSave, Unblock, Environment, PassTime, StepClock, Resolve, PlayOrStop, Watch, Pacman,
     TotalBlock, LoseFile, Same, daemon

\* What is billed is measured: both counts take the same credit of the same tick
\* (shadow_accumulate, bill_tick), through rollovers, resets and crashes.
THEOREM BilledIsMeasured == Spec => []ShadowCoversEnforced
<1>1. TypeOK /\ Inv => ShadowCoversEnforced
  BY DEF Inv
<1> QED
  BY <1>1, Invariance, PTL

\* A day is never priced below what it granted: the file holds at least that, and
\* a tick takes the larger of the two (held_today), if the day is still the same
\* when the clock is read for it.
THEOREM GrantIsHeld == Spec => HeldThroughTheDay
<1>1. ASSUME TypeOK, Inv, [Next]_vars, pc = "price", pc' = "save", used.delete = 0, used.reset = 0,
             granted.day = Day(now), Day(clock) = Day(now)
      PROVE  rule' >= granted.budget
  <2>1. rule' = Budget
    BY <1>1, OnlyTickPrices, TickFacts
  <2>2. IF file = NoFile THEN granted.budget = 0
        ELSE file.day = granted.day /\ file.high >= granted.budget
    BY <1>1 DEF Inv, FileHolds, Apart, Kept
  <2>3. granted.budget \in Nat /\ (file # NoFile => file.high \in Nat)
    BY <1>1 DEF TypeOK, Record
  <2> QED
    BY <1>1, <2>1, <2>2, <2>3, BudgetFacts
<1>2. TypeOK /\ Inv /\ [Next]_vars =>
         [pc = "price" /\ pc' = "save" /\ used.delete = 0 /\ used.reset = 0
            /\ granted.day = Day(now) /\ Day(clock) = Day(now) => rule' >= granted.budget]_vars
  BY <1>1
<1> QED
  BY <1>2, Invariance, PTL DEF Spec, HeldThroughTheDay

\* Spent time is only ever written back larger, but for a reset or a lost file: a
\* tick starts from the count of the file, and bills a credit that is never
\* negative (bill); and while nobody sets the clock the days of the records only
\* go on (roll_over).
THEOREM SpentStays == Spec => SpentOnlyGrows
<1> DEFINE Stays == IF file'.day = file.day THEN file'.seconds >= file.seconds
                    ELSE used.step = 0 => file'.day > file.day
<1>1. ASSUME TypeOK, Inv, [Next]_vars, file # NoFile, file' # NoFile, used.reset = 0, used.delete = 0
      PROVE  Stays
  <2>1. CASE UNCHANGED file
    <3>1. file.seconds \in Nat
      BY <1>1 DEF TypeOK, Record
    <3> QED
      BY <1>1, <2>1, <3>1
  <2>2. CASE Save \/ Leave
    <3>1. file' = mem /\ pc = "save"
      BY <2>2 DEF Save, Leave
    <3>2. Apart
      BY <1>1 DEF Apart, Kept
    <3>3. /\ mem.seconds \in Nat /\ file.seconds \in Nat
          /\ mem.day \in Nat /\ file.day \in Nat
      BY <1>1 DEF TypeOK, Record
    <3>4. file.day = mem.day => mem.seconds >= file.seconds
      BY <1>1, <3>1, <3>2 DEF Inv, MemKeepsTheDay, Pursues
    <3>5. used.step = 0 => file.day <= mem.day
      BY <1>1, <3>1, <3>2 DEF Inv, DaysGoOn, Steady
    <3> QED
      BY <3>1, <3>3, <3>4, <3>5
  <2>3. CASE ResetSave
    <3>1. used["reset"] > 0
      BY <1>1, <2>3 DEF ResetSave, Inv, ResetIsCounted
    <3> QED
      BY <1>1, <3>1
  <2>4. CASE LoseFile
    BY <1>1, <2>4 DEF LoseFile
  <2> QED
    BY <1>1, <2>1, <2>2, <2>3, <2>4
    DEF Next, vars, Daemon, Begin, Tick, Start, Settle, RequestRestart, Crash, ResetLoad, Unblock,
        Environment, PassTime, StepClock, Resolve, PlayOrStop, Watch, Pacman, TotalBlock
<1>2. TypeOK /\ Inv /\ [Next]_vars =>
         [file # NoFile /\ file' # NoFile /\ used.reset = 0 /\ used.delete = 0 => Stays]_vars
  BY <1>1
<1> QED
  BY <1>2, Invariance, PTL DEF Spec, SpentOnlyGrows

\* A mask comes off in a tick only when something is left of a budget, and a
\* record that says blocked has spent the one it was blocked under.
THEOREM MaskHasCause == Spec => MaskComesOffForCause
<1> DEFINE Off == \E t \in Target : mounts[t] # "free" /\ mounts'[t] = "free"
           Causes == \/ total \/ ~enforcing \/ used'.reset > 0 \/ used'.crash > used.crash
                     \/ pc = "price" /\ Day(now) # cause.day
                     \/ rule' > cause.budget
<1>1. ASSUME TypeOK, Inv, [Next]_vars, cause # NoBlock, Off
      PROVE  Causes
  <2>1. CASE Tick
    <3> SUFFICES ASSUME ~total, enforcing, ~(used'.reset > 0), Day(now) = cause.day
                 PROVE  rule' > cause.budget
      BY <2>1 DEF Tick
    <3>1. mem'.seconds < Budget /\ rule' = Budget /\ mem'.seconds >= Today.seconds
      BY <1>1, <2>1, TickFacts
    <3>2. used.reset = 0
      <4>1. Grown
        BY <1>1, <2>1, TickFacts
      <4>2. used'["reset"] \in Nat
        BY <4>1 DEF Grown, Kinds
      <4> QED
        BY <1>1, <4>1, <4>2, CountFacts
    <3>3. Masked # {}
      BY <1>1 DEF Masked
    <3>4. /\ Budget \in Nat /\ Today.seconds \in Nat /\ mem'.seconds \in Nat
          /\ cause.budget \in Nat /\ (file # NoFile => file.seconds \in Nat)
      BY <1>1, <2>1, BudgetFacts, TodayFacts, TickFacts DEF TypeOK, Record
    <3>5. file # NoFile
      BY <1>1, <3>1, <3>3, <3>4, TodayFacts
    <3>6. file.day = cause.day /\ file.seconds >= cause.budget
      BY <1>1, <3>2, <3>5 DEF Inv, FileIsSpent
    <3>7. Today.seconds = file.seconds
      BY <1>1, <3>5, <3>6, TodayFacts
    <3> QED
      BY <3>1, <3>4, <3>5, <3>6, <3>7
  <2>2. CASE Crash
    <3>1. used'["crash"] > used["crash"]
      BY <1>1, <2>2, HappensFacts DEF Crash, TypeOK, Kinds
    <3> QED
      BY <3>1
  <2>3. CASE ResetLoad \/ Unblock
    <3>1. Grown /\ used'["reset"] > used["reset"] /\ used["reset"] \in Nat
      BY <1>1, <2>3, HappensFacts DEF ResetLoad, Unblock, TypeOK, Kinds
    <3>2. used'["reset"] \in Nat
      BY <3>1 DEF Grown, Kinds
    <3> QED
      BY <3>1, <3>2
  <2>4. CASE UNCHANGED mounts
    BY <1>1, <2>4
  <2> QED
    BY <1>1, <2>1, <2>2, <2>3, <2>4
    DEF Next, vars, Daemon, Begin, Save, Leave, Start, Settle, RequestRestart, ResetSave, Environment,
        PassTime, StepClock, Resolve, PlayOrStop, Watch, Pacman, TotalBlock, LoseFile, Same
<1>2. TypeOK /\ Inv /\ [Next]_vars => [cause # NoBlock /\ Off => Causes]_vars
  BY <1>1
<1> QED
  BY <1>2, Invariance, PTL DEF Spec, MaskComesOffForCause

\* The first tick after a requested restart bills its downtime: the exit that was
\* recorded is no earlier than the last tick, and the gap fits in the cap
\* (settle_restart_gap).
THEOREM RestartBillsItsGap == Spec => RestartIsNoFreePlay
<1>1. ASSUME TypeOK, Inv, [Next]_vars, pc = "price", owed # 0, owed' = 0, pc' = "save", ~total, gaming,
             screen # "paused", used.step = 0, used.reset = 0, used.delete = 0
      PROVE  mem'.seconds - Today.seconds >= owed
  <2>1. mem'.seconds = Today.seconds + Credit(Today)
    BY <1>1, OnlyTickPrices, TickFacts
  <2>2. file # NoFile /\ file.last + owed <= now /\ owed <= cap /\ file.last \in 1..clock
    BY <1>1 DEF Inv, OwedFits, StampsAreBehind, Steady, Apart, Kept
  <2>3. Today.last = file.last /\ Today.seconds \in Nat
    BY <1>1, <2>2, TodayFacts DEF Record
  <2>4. clock \in Nat /\ now \in Nat /\ cap \in Nat /\ owed \in Nat /\ file.last \in Nat
    BY <1>1, <2>2, PlaytimeAssumption DEF TypeOK, Record
  <2>5. Credit(Today) >= owed /\ Credit(Today) \in Nat
    BY <1>1, <2>2, <2>3, <2>4 DEF Credit, Smaller
  <2> QED
    BY <2>1, <2>3, <2>4, <2>5
<1>2. TypeOK /\ Inv /\ [Next]_vars =>
         [pc = "price" /\ owed # 0 /\ owed' = 0 /\ pc' = "save" /\ ~total /\ gaming
            /\ screen # "paused" /\ used.step = 0 /\ used.reset = 0 /\ used.delete = 0
            => mem'.seconds - Today.seconds >= owed]_vars
  BY <1>1
<1> QED
  BY <1>2, Invariance, PTL DEF Spec, RestartIsNoFreePlay
=============================================================================
