------------------------------ MODULE CtlProofs ------------------------------
(***************************************************************************)
(* Proofs about Ctl: for any number of connections, any countdown, lapse   *)
(* and interval, the two phases of a gaming reset cannot be skipped, a     *)
(* reset happens once, and restarts keep their distance.                   *)
(***************************************************************************)
EXTENDS Ctl, TLAPS

\* The ops that have the tick lock.
Locked == {"recheck", "zero", "record", "finish", "working"}

\* The ops that name a pending reset.
Committing == {"commit", "recheck", "zero", "record", "finish"}

\* Whoever is in a section that needs a lock has it.
LocksHeld ==
    /\ loop \in {"settle", "pass"} => tickLock = Enforcer
    /\ \A c \in Conn : /\ at[c] \in Locked => tickLock = c
                       /\ at[c] \in {"persist", "signal"} => restartLock = c

\* Ids are handed out in order.
IdsInOrder ==
    /\ pending # NoPending => pending.id \in 1..armings
    /\ \A c \in Conn : /\ for[c] <= armings
                       /\ at[c] \in Committing => for[c] \in Id
    /\ \A i \in Id : i > armings => zeroed[i] = 0

\* A reset that has happened is not armed any more unless its commit is about
\* to drop it; a commit that is about to reset is the first of its id.
SpentIsDropped ==
    /\ \A i \in Id : zeroed[i] > 0 /\ pending.id = i =>
           \E c \in Conn : at[c] \in {"record", "finish"} /\ for[c] = i
    /\ \A c \in Conn : at[c] = "zero" => zeroed[for[c]] = 0

\* Signs of life at the moments B, the first of them the arming, cover the
\* whole countdown, which is over at time now.
Watched(B, now) ==
    \E armed \in B :
        /\ armed + Countdown <= now
        /\ \A t \in armed..(armed + Countdown) :
               \E b \in B : b <= t /\ t <= b + Lapse

\* They cover the time from the arming to the last of them, in the armed reset p.
WatchedSoFar(B, p, now) ==
    \E armed \in B :
        /\ p.ready = armed + Countdown
        /\ armed <= p.beat /\ p.beat <= now
        /\ p.beat \in B
        /\ \A t \in armed..p.beat : \E b \in B : b <= t /\ t <= b + Lapse

BeatsKept ==
    /\ pending # NoPending => WatchedSoFar(beats[pending.id], pending, clock)
    /\ \A c \in Conn : at[c] = "zero" => Watched(beats[for[c]], clock)
    /\ \A i \in Id : zeroed[i] > 0 => Watched(beats[i], clock)

\* The restart on file is the last one; the wall clock was not behind then.
LimitRecorded ==
    /\ Wall >= 0
    /\ restarts # <<>> => /\ limit # NoTime
                          /\ limit >= restarts[Len(restarts)] + skew
    /\ \A c \in Conn : at[c] = "persist" /\ restarts # <<>> =>
           clock >= restarts[Len(restarts)] + Interval

\* What was cancelled is not armed any more.
CancelledGone ==
    \A i \in cancelled : i <= armings /\ pending.id # i

RestartInv == TypeOK /\ LocksHeld /\ LimitRecorded /\ RestartsSpaced

ResetInv == /\ TypeOK /\ LocksHeld /\ IdsInOrder /\ SpentIsDropped /\ BeatsKept
            /\ OneResetPerArming

-----------------------------------------------------------------------------
(* Type correctness *)

\* Counting one more keeps a count a natural number.
LEMMA OneMore ==
    ASSUME NEW S, NEW f \in [S -> Nat], NEW x
    PROVE  [f EXCEPT ![x] = @ + 1] \in [S -> Nat]
<1>1. CASE x \in S
  BY <1>1
<1>2. CASE x \notin S
  BY <1>2
<1> QED
  BY <1>1, <1>2

\* So does a heartbeat to the moments of an id.
LEMMA OneMoment ==
    ASSUME NEW S, NEW f \in [S -> SUBSET Nat], NEW x \in S, NEW m \in Nat
    PROVE  [f EXCEPT ![x] = @ \cup {m}] \in [S -> SUBSET Nat]
OBVIOUS

\* The daemon starts within the types.
LEMMA TypeInit == Init => TypeOK
<1> SUFFICES ASSUME Init PROVE TypeOK
  OBVIOUS
<1>1. NoPending \in PendingType
  BY DEF NoPending, PendingType
<1>2. at \in [Conn -> OpStage] /\ for \in [Conn -> Id \cup {NoId}]
  BY DEF Init, OpStage
<1>3. /\ beats \in [Id -> SUBSET Nat] /\ zeroed \in [Id -> Nat] /\ audited \in [Id -> Nat]
      /\ armings \in 0..MaxArms /\ cancelled \subseteq Id
  BY CtlAssumption DEF Init
<1>4. limit \in Int /\ restarts \in Seq(Nat) /\ clock \in Nat /\ skew \in Int
  BY DEF Init, NoTime
<1>5. loop \in LoopStage /\ tickLock = Free /\ restartLock = Free /\ pending = NoPending
      /\ event \in BOOLEAN /\ crashes \in Nat /\ stepped \in Nat
  BY DEF Init, LoopStage
<1> QED
  BY <1>1, <1>2, <1>3, <1>4, <1>5 DEF TypeOK

\* Every step stays within the types.
LEMMA TypeStep == TypeOK /\ [Next]_vars => TypeOK'
<1> SUFFICES ASSUME TypeOK, [Next]_vars PROVE TypeOK'
  OBVIOUS
<1> USE CtlAssumption DEF TypeOK, PendingType, NoPending, Id, NoId, NoTime,
                          Free, Enforcer, LoopStage, OpStage
<1>1. CASE Arm
  <2>1. armings + 1 \in Id /\ armings' \in 0..MaxArms
    BY <1>1 DEF Arm
  <2>2. pending' \in PendingType
    BY <1>1, <2>1 DEF Arm
  <2>3. beats' \in [Id -> SUBSET Nat]
    BY <1>1, <2>1 DEF Arm
  <2> QED
    BY <1>1, <2>1, <2>2, <2>3 DEF Arm, threads, bounds
<1>2. ASSUME NEW i \in Id, Heartbeat(i) PROVE TypeOK'
  <2>1. pending' \in PendingType
    <3> HIDE DEF NoPending
    <3>1. NoPending \in PendingType
      BY DEF NoPending
    <3>2. pending \in PendingType /\ clock \in Nat
      OBVIOUS
    <3>3. [pending EXCEPT !.beat = clock] \in PendingType
      BY <3>2
    <3> QED
      BY <1>2, <3>1, <3>2, <3>3 DEF Heartbeat, StillArmed
  <2>2. beats' \in [Id -> SUBSET Nat]
    <3> HIDE DEF Id
    <3>1. beats \in [Id -> SUBSET Nat] /\ clock \in Nat
      OBVIOUS
    <3>2. [beats EXCEPT ![i] = @ \cup {clock}] \in [Id -> SUBSET Nat]
      BY <3>1, OneMoment
    <3> QED
      BY <1>2, <3>1, <3>2 DEF Heartbeat
  <2> QED
    BY <1>2, <2>1, <2>2 DEF Heartbeat, threads, bounds
<1>3. ASSUME NEW i \in Id, Cancel(i) PROVE TypeOK'
  BY <1>3 DEF Cancel, vars, threads, history, resets, bounds
<1>4. ASSUME NEW c \in Conn, AskOther(c) PROVE TypeOK'
  BY <1>4 DEF AskOther, Proceed, vars, threads, history, resets, bounds
<1>5. ASSUME NEW c \in Conn, AskRestart(c) PROVE TypeOK'
  BY <1>5 DEF AskRestart, Proceed, vars, threads, history, resets, bounds
<1>6. ASSUME NEW c \in Conn, NEW i \in Id, AskCommit(c, i) PROVE TypeOK'
  BY <1>6 DEF AskCommit, vars, threads, history, resets, bounds
<1>7. ASSUME NEW c \in Conn, TakeTickLock(c) PROVE TypeOK'
  BY <1>7 DEF TakeTickLock, Proceed, Acquire, vars, threads, history, resets, bounds
<1>8. ASSUME NEW c \in Conn, GiveUp(c) PROVE TypeOK'
  BY <1>8 DEF GiveUp, Reply, vars, threads, history, resets, bounds
<1>9. ASSUME NEW c \in Conn, OtherDone(c) PROVE TypeOK'
  BY <1>9 DEF OtherDone, Reply, vars, threads, history, resets, bounds
<1>10. ASSUME NEW c \in Conn, Recheck(c) PROVE TypeOK'
  BY <1>10 DEF Recheck, Proceed, Reply, StillArmed, vars, threads, history, resets, bounds
<1>11. ASSUME NEW c \in Conn, Zero(c) PROVE TypeOK'
  <2>1. zeroed' \in [Id -> Nat]
    BY <1>11, OneMore DEF Zero
  <2>2. at' \in [Conn -> OpStage]
    BY <1>11 DEF Zero, Proceed
  <2> QED
    BY <1>11, <2>1, <2>2 DEF Zero, Proceed, bounds
<1>12. ASSUME NEW c \in Conn, CommitRefused(c) PROVE TypeOK'
  BY <1>12 DEF CommitRefused, Reply, vars, threads, history, resets, bounds
<1>13. ASSUME NEW c \in Conn, Audit(c) PROVE TypeOK'
  <2>1. audited' \in [Id -> Nat]
    BY <1>13, OneMore DEF Audit
  <2>2. at' \in [Conn -> OpStage]
    BY <1>13 DEF Audit, Proceed
  <2> QED
    BY <1>13, <2>1, <2>2 DEF Audit, Proceed, bounds
<1>14. ASSUME NEW c \in Conn, FinishCommit(c) PROVE TypeOK'
  BY <1>14 DEF FinishCommit, Reply, vars, threads, history, resets, bounds
<1>15. ASSUME NEW c \in Conn, Persist(c) PROVE TypeOK'
  BY <1>15 DEF Persist, Proceed, Wall, vars, threads, history, resets, bounds
<1>16. ASSUME NEW c \in Conn, PersistFails(c) PROVE TypeOK'
  BY <1>16 DEF PersistFails, Reply, vars, threads, history, resets, bounds
<1>17. ASSUME NEW c \in Conn, Signal(c) PROVE TypeOK'
  BY <1>17 DEF Signal, Reply, vars, threads, history, resets, bounds
<1>18. CASE BeginPass
  BY <1>18 DEF BeginPass, Acquire, vars, threads, history, resets, bounds
<1>19. CASE EndPass
  BY <1>19 DEF EndPass, vars, threads, history, resets, bounds
<1>20. CASE Exit
  BY <1>20 DEF Exit, Down, vars, threads, history, resets, bounds
<1>21. CASE Crash
  <2>1. pending' \in PendingType /\ at' \in [Conn -> OpStage]
    BY <1>21 DEF Crash, Down
  <2>2. for' \in [Conn -> Id \cup {NoId}] /\ crashes' \in Nat
    BY <1>21 DEF Crash, Down
  <2> QED
    BY <1>21, <2>1, <2>2 DEF Crash, Down, history, resets
<1>22. CASE Start
  BY <1>22 DEF Start, vars, threads, history, resets, bounds
<1>23. CASE Tick
  <2>1. clock' \in Nat
    BY <1>23 DEF Tick
  <2> QED
    BY <1>23, <2>1 DEF Tick, threads, history, resets, bounds
<1>24. CASE StepWallClock
  BY <1>24 DEF StepWallClock, vars, threads, history, resets, bounds
<1>25. CASE UNCHANGED vars
  BY <1>25 DEF vars, threads, history, resets, bounds
<1> QED
  BY <1>1, <1>2, <1>3, <1>4, <1>5, <1>6, <1>7, <1>8, <1>9, <1>10, <1>11, <1>12, <1>13, <1>14, <1>15, <1>16, <1>17, <1>18, <1>19, <1>20, <1>21, <1>22, <1>23, <1>24, <1>25
  DEF Next, Client, Ask, Work, Daemon

\* The state stays within its types, for every value of the constants.
THEOREM TypeCorrect == Spec => []TypeOK
<1> QED
  BY TypeInit, TypeStep, PTL DEF Spec

-----------------------------------------------------------------------------
(* Locks *)

\* Whoever is past taking a lock is its holder, in every step.
LEMMA LocksStep == TypeOK /\ LocksHeld /\ [Next]_vars => LocksHeld'
<1> SUFFICES ASSUME TypeOK, LocksHeld, [Next]_vars PROVE LocksHeld'
  OBVIOUS
<1>0. at \in [Conn -> OpStage] /\ "free" \notin Conn /\ "loop" \notin Conn
  BY CtlAssumption DEF TypeOK
<1> USE <1>0 DEF LocksHeld, Locked, Free, Enforcer
<1>1. CASE Arm
  BY <1>1 DEF Arm, threads
<1>2. ASSUME NEW i \in Id, Heartbeat(i) PROVE LocksHeld'
  BY <1>2 DEF Heartbeat, threads
<1>3. ASSUME NEW i \in Id, Cancel(i) PROVE LocksHeld'
  BY <1>3 DEF Cancel, threads
<1>4. ASSUME NEW c \in Conn, AskOther(c) PROVE LocksHeld'
  BY <1>4 DEF AskOther, Proceed
<1>5. ASSUME NEW c \in Conn, AskRestart(c) PROVE LocksHeld'
  BY <1>5 DEF AskRestart, Proceed
<1>6. ASSUME NEW c \in Conn, NEW i \in Id, AskCommit(c, i) PROVE LocksHeld'
  BY <1>6 DEF AskCommit
<1>7. ASSUME NEW c \in Conn, TakeTickLock(c) PROVE LocksHeld'
  BY <1>7 DEF TakeTickLock, Proceed, Acquire
<1>8. ASSUME NEW c \in Conn, GiveUp(c) PROVE LocksHeld'
  BY <1>8 DEF GiveUp, Reply
<1>9. ASSUME NEW c \in Conn, OtherDone(c) PROVE LocksHeld'
  BY <1>9 DEF OtherDone, Reply
<1>10. ASSUME NEW c \in Conn, Recheck(c) PROVE LocksHeld'
  BY <1>10 DEF Recheck, Proceed, Reply
<1>11. ASSUME NEW c \in Conn, Zero(c) PROVE LocksHeld'
  BY <1>11 DEF Zero, Proceed
<1>12. ASSUME NEW c \in Conn, CommitRefused(c) PROVE LocksHeld'
  BY <1>12 DEF CommitRefused, Reply
<1>13. ASSUME NEW c \in Conn, Audit(c) PROVE LocksHeld'
  BY <1>13 DEF Audit, Proceed
<1>14. ASSUME NEW c \in Conn, FinishCommit(c) PROVE LocksHeld'
  BY <1>14 DEF FinishCommit, Reply
<1>15. ASSUME NEW c \in Conn, Persist(c) PROVE LocksHeld'
  BY <1>15 DEF Persist, Proceed
<1>16. ASSUME NEW c \in Conn, PersistFails(c) PROVE LocksHeld'
  BY <1>16 DEF PersistFails, Reply
<1>17. ASSUME NEW c \in Conn, Signal(c) PROVE LocksHeld'
  BY <1>17 DEF Signal, Reply
<1>18. CASE BeginPass
  BY <1>18 DEF BeginPass, Acquire
<1>19. CASE EndPass
  BY <1>19 DEF EndPass
<1>20. CASE Exit
  BY <1>20 DEF Exit, Down
<1>21. CASE Crash
  BY <1>21 DEF Crash, Down
<1>22. CASE Start
  BY <1>22 DEF Start, threads
<1>23. CASE Tick
  BY <1>23 DEF Tick, threads
<1>24. CASE StepWallClock
  BY <1>24 DEF StepWallClock, threads
<1>25. CASE UNCHANGED vars
  BY <1>25 DEF vars, threads
<1> QED
  BY <1>1, <1>2, <1>3, <1>4, <1>5, <1>6, <1>7, <1>8, <1>9, <1>10, <1>11, <1>12, <1>13, <1>14, <1>15, <1>16, <1>17, <1>18, <1>19, <1>20, <1>21, <1>22, <1>23, <1>24, <1>25
  DEF Next, Client, Ask, Work, Daemon


-----------------------------------------------------------------------------
(* Restarts *)

\* The recorded limit is never earlier, in wall-clock time, than the last
\* accepted restart.
LEMMA LimitStep ==
    ASSUME \A d \in Steps : d <= 0,
           TypeOK, LocksHeld, LimitRecorded, [Next]_vars
    PROVE  LimitRecorded'
<1>0. /\ at \in [Conn -> OpStage] /\ clock \in Nat /\ skew \in Int /\ limit \in Int
      /\ restarts \in Seq(Nat) /\ Interval \in Nat \ {0} /\ Steps \subseteq Int
  BY CtlAssumption DEF TypeOK
<1> USE <1>0 DEF LimitRecorded, Wall, NoTime
<1>1. CASE Arm
  BY <1>1 DEF Arm, threads
<1>2. ASSUME NEW i \in Id, Heartbeat(i) PROVE LimitRecorded'
  BY <1>2 DEF Heartbeat, threads
<1>3. ASSUME NEW i \in Id, Cancel(i) PROVE LimitRecorded'
  BY <1>3 DEF Cancel, threads
<1>4. ASSUME NEW c \in Conn, AskOther(c) PROVE LimitRecorded'
  BY <1>4 DEF AskOther, Proceed, history
<1>5. ASSUME NEW c \in Conn, AskRestart(c) PROVE LimitRecorded'
  BY <1>5 DEF AskRestart, Available, Proceed, history
<1>6. ASSUME NEW c \in Conn, NEW i \in Id, AskCommit(c, i) PROVE LimitRecorded'
  BY <1>6 DEF AskCommit, history
<1>7. ASSUME NEW c \in Conn, TakeTickLock(c) PROVE LimitRecorded'
  BY <1>7 DEF TakeTickLock, Proceed, history
<1>8. ASSUME NEW c \in Conn, GiveUp(c) PROVE LimitRecorded'
  BY <1>8 DEF GiveUp, Reply, history
<1>9. ASSUME NEW c \in Conn, OtherDone(c) PROVE LimitRecorded'
  BY <1>9 DEF OtherDone, Reply, history
<1>10. ASSUME NEW c \in Conn, Recheck(c) PROVE LimitRecorded'
  BY <1>10 DEF Recheck, Proceed, Reply, history
<1>11. ASSUME NEW c \in Conn, Zero(c) PROVE LimitRecorded'
  BY <1>11 DEF Zero, Proceed
<1>12. ASSUME NEW c \in Conn, CommitRefused(c) PROVE LimitRecorded'
  BY <1>12 DEF CommitRefused, Reply, history
<1>13. ASSUME NEW c \in Conn, Audit(c) PROVE LimitRecorded'
  BY <1>13 DEF Audit, Proceed
<1>14. ASSUME NEW c \in Conn, FinishCommit(c) PROVE LimitRecorded'
  BY <1>14 DEF FinishCommit, Reply, history
<1>15. ASSUME NEW c \in Conn, Persist(c) PROVE LimitRecorded'
  <2>1. \A k \in Conn : at'[k] # "persist"
    BY <1>15 DEF Persist, Proceed, LocksHeld
  <2>2. /\ restarts' = Append(restarts, clock) /\ limit' = clock + skew
        /\ clock' = clock /\ skew' = skew
    BY <1>15 DEF Persist
  <2>3. restarts' # <<>> /\ restarts'[Len(restarts')] = clock
    BY <2>2
  <2> QED
    BY <2>1, <2>2, <2>3
<1>16. ASSUME NEW c \in Conn, PersistFails(c) PROVE LimitRecorded'
  BY <1>16 DEF PersistFails, Reply, history
<1>17. ASSUME NEW c \in Conn, Signal(c) PROVE LimitRecorded'
  BY <1>17 DEF Signal, Reply, history
<1>18. CASE BeginPass
  BY <1>18 DEF BeginPass, history
<1>19. CASE EndPass
  BY <1>19 DEF EndPass, history
<1>20. CASE Exit
  BY <1>20 DEF Exit, Down, history
<1>21. CASE Crash
  BY <1>21 DEF Crash, Down, history
<1>22. CASE Start
  BY <1>22 DEF Start, threads, history
<1>23. CASE Tick
  BY <1>23 DEF Tick, threads, history
<1>24. CASE StepWallClock
  BY <1>24 DEF StepWallClock, threads, history
<1>25. CASE UNCHANGED vars
  BY <1>25 DEF vars, threads, history
<1> QED
  BY <1>1, <1>2, <1>3, <1>4, <1>5, <1>6, <1>7, <1>8, <1>9, <1>10, <1>11, <1>12, <1>13, <1>14, <1>15, <1>16, <1>17, <1>18, <1>19, <1>20, <1>21, <1>22, <1>23, <1>24, <1>25
  DEF Next, Client, Ask, Work, Daemon

\* A restart is accepted only an interval after the last one.
LEMMA SpacedStep ==
    ASSUME TypeOK, LocksHeld, LimitRecorded, RestartsSpaced, [Next]_vars
    PROVE  RestartsSpaced'
<1>0. restarts \in Seq(Nat) /\ clock \in Nat /\ Interval \in Nat \ {0}
  BY CtlAssumption DEF TypeOK
<1>1. CASE restarts' = restarts
  BY <1>1 DEF RestartsSpaced
<1>2. ASSUME NEW c \in Conn, Persist(c) PROVE RestartsSpaced'
  <2>1. restarts' = Append(restarts, clock)
    BY <1>2 DEF Persist
  <2>2. restarts # <<>> => clock >= restarts[Len(restarts)] + Interval
    BY <1>2 DEF LimitRecorded, Persist
  <2>3. SUFFICES ASSUME NEW m \in DOMAIN restarts', NEW n \in DOMAIN restarts', m < n
                 PROVE  restarts'[n] - restarts'[m] >= Interval
    BY DEF RestartsSpaced
  <2>4. /\ m \in 1..Len(restarts) /\ n \in 1..(Len(restarts) + 1)
        /\ restarts'[m] = restarts[m] /\ restarts[m] \in Nat
    BY <1>0, <2>1, <2>3
  <2>5. CASE n <= Len(restarts)
    BY <1>0, <2>1, <2>3, <2>4, <2>5 DEF RestartsSpaced
  <2>6. CASE n = Len(restarts) + 1
    <3>1. restarts'[n] = clock /\ restarts # <<>>
      BY <1>0, <2>1, <2>4, <2>6
    <3>2. restarts[Len(restarts)] >= restarts[m] /\ restarts[Len(restarts)] \in Nat
      <4>1. Len(restarts) \in DOMAIN restarts /\ m \in DOMAIN restarts
        BY <1>0, <2>4
      <4>2. restarts[Len(restarts)] \in Nat
        BY <1>0, <4>1
      <4>3. m < Len(restarts) => restarts[Len(restarts)] - restarts[m] >= Interval
        BY <4>1 DEF RestartsSpaced
      <4> QED
        BY <1>0, <2>4, <4>2, <4>3
    <3> QED
      BY <1>0, <2>2, <2>4, <3>1, <3>2
  <2> QED
    BY <1>0, <2>4, <2>5, <2>6
<1>3. restarts' = restarts \/ \E c \in Conn : Persist(c)
  BY DEF Next, Client, Ask, Work, Daemon, vars, history, Arm, Heartbeat, Cancel,
         AskOther, AskRestart, AskCommit, TakeTickLock, GiveUp, OtherDone, Recheck,
         Zero, CommitRefused, Audit, FinishCommit, PersistFails, Signal, BeginPass,
         EndPass, Exit, Crash, Down, Start, Tick, StepWallClock
<1> QED
  BY <1>1, <1>2, <1>3

\* Accepted restarts keep their interval, for any number of connections and
\* crashes, as long as the wall clock is not stepped forward.
THEOREM RestartsKeepTheirDistance ==
    ASSUME \A d \in Steps : d <= 0
    PROVE  Spec => []RestartsSpaced
<1>1. Init => RestartInv
  <2>1. Init => LocksHeld /\ LimitRecorded /\ RestartsSpaced
    BY DEF Init, LocksHeld, Locked, LimitRecorded, RestartsSpaced, Wall
  <2> QED
    BY <2>1, TypeInit DEF RestartInv
<1>2. RestartInv /\ [Next]_vars => RestartInv'
  BY TypeStep, LocksStep, LimitStep, SpacedStep DEF RestartInv
<1>3. RestartInv => RestartsSpaced
  BY DEF RestartInv
<1> QED
  BY <1>1, <1>2, <1>3, PTL DEF Spec

-----------------------------------------------------------------------------
(* The gaming reset *)

\* What is pending and what commits name was armed before.
LEMMA IdsStep == TypeOK /\ IdsInOrder /\ [Next]_vars => IdsInOrder'
<1> SUFFICES ASSUME TypeOK, IdsInOrder, [Next]_vars PROVE IdsInOrder'
  OBVIOUS
<1>0. /\ at \in [Conn -> OpStage] /\ for \in [Conn -> Id \cup {NoId}]
      /\ zeroed \in [Id -> Nat] /\ armings \in 0..MaxArms /\ pending \in PendingType
      /\ MaxArms \in Nat
  BY CtlAssumption DEF TypeOK
<1> USE <1>0 DEF IdsInOrder, Committing, NoPending, PendingType, Id, NoId
<1>1. CASE Arm
  BY <1>1 DEF Arm, threads
<1>2. ASSUME NEW i \in Id, Heartbeat(i) PROVE IdsInOrder'
  BY <1>2 DEF Heartbeat, StillArmed, Live, threads
<1>3. ASSUME NEW i \in Id, Cancel(i) PROVE IdsInOrder'
  BY <1>3 DEF Cancel, threads
<1>4. ASSUME NEW c \in Conn, AskOther(c) PROVE IdsInOrder'
  BY <1>4 DEF AskOther, Proceed, history, resets
<1>5. ASSUME NEW c \in Conn, AskRestart(c) PROVE IdsInOrder'
  BY <1>5 DEF AskRestart, Proceed, history, resets
<1>6. ASSUME NEW c \in Conn, NEW i \in Id, AskCommit(c, i) PROVE IdsInOrder'
  BY <1>6 DEF AskCommit, Ready, Live, history, resets
<1>7. ASSUME NEW c \in Conn, TakeTickLock(c) PROVE IdsInOrder'
  BY <1>7 DEF TakeTickLock, Proceed, history, resets
<1>8. ASSUME NEW c \in Conn, GiveUp(c) PROVE IdsInOrder'
  BY <1>8 DEF GiveUp, Reply, history, resets
<1>9. ASSUME NEW c \in Conn, OtherDone(c) PROVE IdsInOrder'
  BY <1>9 DEF OtherDone, Reply, history, resets
<1>10. ASSUME NEW c \in Conn, Recheck(c) PROVE IdsInOrder'
  BY <1>10 DEF Recheck, Proceed, Reply, StillArmed, history, resets
<1>11. ASSUME NEW c \in Conn, Zero(c) PROVE IdsInOrder'
  BY <1>11 DEF Zero, Proceed
<1>12. ASSUME NEW c \in Conn, CommitRefused(c) PROVE IdsInOrder'
  BY <1>12 DEF CommitRefused, Reply, history, resets
<1>13. ASSUME NEW c \in Conn, Audit(c) PROVE IdsInOrder'
  BY <1>13 DEF Audit, Proceed
<1>14. ASSUME NEW c \in Conn, FinishCommit(c) PROVE IdsInOrder'
  BY <1>14 DEF FinishCommit, Reply, history, resets
<1>15. ASSUME NEW c \in Conn, Persist(c) PROVE IdsInOrder'
  BY <1>15 DEF Persist, Proceed, resets
<1>16. ASSUME NEW c \in Conn, PersistFails(c) PROVE IdsInOrder'
  BY <1>16 DEF PersistFails, Reply, history, resets
<1>17. ASSUME NEW c \in Conn, Signal(c) PROVE IdsInOrder'
  BY <1>17 DEF Signal, Reply, history, resets
<1>18. CASE BeginPass
  BY <1>18 DEF BeginPass, history, resets
<1>19. CASE EndPass
  BY <1>19 DEF EndPass, history, resets
<1>20. CASE Exit
  BY <1>20 DEF Exit, Down, history, resets
<1>21. CASE Crash
  BY <1>21 DEF Crash, Down, history, resets
<1>22. CASE Start
  BY <1>22 DEF Start, threads, history, resets
<1>23. CASE Tick
  BY <1>23 DEF Tick, threads, history, resets
<1>24. CASE StepWallClock
  BY <1>24 DEF StepWallClock, threads, history, resets
<1>25. CASE UNCHANGED vars
  BY <1>25 DEF vars, threads, history, resets
<1> QED
  BY <1>1, <1>2, <1>3, <1>4, <1>5, <1>6, <1>7, <1>8, <1>9, <1>10, <1>11, <1>12, <1>13, <1>14, <1>15, <1>16, <1>17, <1>18, <1>19, <1>20, <1>21, <1>22, <1>23, <1>24, <1>25
  DEF Next, Client, Ask, Work, Daemon

\* A reset that has zeroed the day is dropped before the lock comes free.
LEMMA SpentStep ==
    ASSUME TypeOK, LocksHeld, IdsInOrder, SpentIsDropped, [Next]_vars
    PROVE  SpentIsDropped'
<1>0. /\ at \in [Conn -> OpStage] /\ for \in [Conn -> Id \cup {NoId}]
      /\ zeroed \in [Id -> Nat] /\ armings \in 0..MaxArms /\ pending \in PendingType
      /\ MaxArms \in Nat
  BY CtlAssumption DEF TypeOK
<1> USE <1>0 DEF SpentIsDropped, NoPending, PendingType, Id, NoId
<1>1. CASE Arm
  <2>1. armings + 1 \in Id /\ zeroed[armings + 1] = 0
    BY <1>1 DEF Arm, IdsInOrder
  <2> QED
    BY <1>1, <2>1 DEF Arm, threads
<1>2. ASSUME NEW i \in Id, Heartbeat(i) PROVE SpentIsDropped'
  BY <1>2 DEF Heartbeat, StillArmed, Live, threads
<1>3. ASSUME NEW i \in Id, Cancel(i) PROVE SpentIsDropped'
  BY <1>3 DEF Cancel, threads
<1>4. ASSUME NEW c \in Conn, AskOther(c) PROVE SpentIsDropped'
  BY <1>4 DEF AskOther, Proceed, history, resets
<1>5. ASSUME NEW c \in Conn, AskRestart(c) PROVE SpentIsDropped'
  BY <1>5 DEF AskRestart, Proceed, history, resets
<1>6. ASSUME NEW c \in Conn, NEW i \in Id, AskCommit(c, i) PROVE SpentIsDropped'
  BY <1>6 DEF AskCommit, Ready, Live, history, resets
<1>7. ASSUME NEW c \in Conn, TakeTickLock(c) PROVE SpentIsDropped'
  BY <1>7 DEF TakeTickLock, Proceed, history, resets
<1>8. ASSUME NEW c \in Conn, GiveUp(c) PROVE SpentIsDropped'
  BY <1>8 DEF GiveUp, Reply, history, resets
<1>9. ASSUME NEW c \in Conn, OtherDone(c) PROVE SpentIsDropped'
  BY <1>9 DEF OtherDone, Reply, history, resets
<1>10. ASSUME NEW c \in Conn, Recheck(c) PROVE SpentIsDropped'
  <2>1. at[c] = "recheck" /\ \A k \in Conn \ {c} : at'[k] = at[k] /\ for'[k] = for[k]
    BY <1>10 DEF Recheck, Proceed, Reply
  <2>2. zeroed' = zeroed /\ \A i \in Id : pending'.id = i => pending.id = i
    BY <1>10 DEF Recheck, StillArmed, history, resets
  <2>3. ASSUME NEW i \in Id, zeroed[i] > 0, pending.id = i
        PROVE  \E k \in Conn \ {c} : at[k] \in {"record", "finish"} /\ for[k] = i
    BY <2>1, <2>3
  <2>4. ASSUME at'[c] = "zero"
        PROVE  zeroed[for'[c]] = 0
    <3>1. for'[c] = for[c] /\ pending.id = for[c] /\ pending # NoPending
      BY <1>10, <2>4 DEF Recheck, Proceed, Reply, Ready, Live
    <3>2. for[c] \in Id
      BY <2>1 DEF IdsInOrder, Committing
    <3>3. \A k \in Conn : at[k] \in {"record", "finish"} => k = c
      BY <2>1 DEF LocksHeld, Locked
    <3> QED
      BY <2>3, <3>1, <3>2, <3>3
  <2> QED
    BY <2>1, <2>2, <2>3, <2>4
<1>11. ASSUME NEW c \in Conn, Zero(c) PROVE SpentIsDropped'
  <2>1. /\ at[c] = "zero" /\ at'[c] = "record" /\ for' = for /\ pending' = pending
        /\ \A k \in Conn \ {c} : at'[k] = at[k]
    BY <1>11 DEF Zero, Proceed
  <2>2. \A i \in Id : i # for[c] => zeroed'[i] = zeroed[i]
    BY <1>11 DEF Zero
  <2>3. \A k \in Conn : at'[k] # "zero"
    BY <2>1 DEF LocksHeld, Locked
  <2> QED
    BY <2>1, <2>2, <2>3
<1>12. ASSUME NEW c \in Conn, CommitRefused(c) PROVE SpentIsDropped'
  BY <1>12 DEF CommitRefused, Reply, history, resets
<1>13. ASSUME NEW c \in Conn, Audit(c) PROVE SpentIsDropped'
  BY <1>13 DEF Audit, Proceed
<1>14. ASSUME NEW c \in Conn, FinishCommit(c) PROVE SpentIsDropped'
  BY <1>14 DEF FinishCommit, Reply, history, resets
<1>15. ASSUME NEW c \in Conn, Persist(c) PROVE SpentIsDropped'
  BY <1>15 DEF Persist, Proceed, resets
<1>16. ASSUME NEW c \in Conn, PersistFails(c) PROVE SpentIsDropped'
  BY <1>16 DEF PersistFails, Reply, history, resets
<1>17. ASSUME NEW c \in Conn, Signal(c) PROVE SpentIsDropped'
  BY <1>17 DEF Signal, Reply, history, resets
<1>18. CASE BeginPass
  BY <1>18 DEF BeginPass, history, resets
<1>19. CASE EndPass
  BY <1>19 DEF EndPass, history, resets
<1>20. CASE Exit
  BY <1>20 DEF Exit, Down, history, resets
<1>21. CASE Crash
  BY <1>21 DEF Crash, Down, history, resets
<1>22. CASE Start
  BY <1>22 DEF Start, threads, history, resets
<1>23. CASE Tick
  BY <1>23 DEF Tick, threads, history, resets
<1>24. CASE StepWallClock
  BY <1>24 DEF StepWallClock, threads, history, resets
<1>25. CASE UNCHANGED vars
  BY <1>25 DEF vars, threads, history, resets
<1> QED
  BY <1>1, <1>2, <1>3, <1>4, <1>5, <1>6, <1>7, <1>8, <1>9, <1>10, <1>11, <1>12, <1>13, <1>14, <1>15, <1>16, <1>17, <1>18, <1>19, <1>20, <1>21, <1>22, <1>23, <1>24, <1>25
  DEF Next, Client, Ask, Work, Daemon

\* The commit that zeroes the day finds it not zeroed by this reset.
LEMMA OnceStep ==
    ASSUME TypeOK, IdsInOrder, SpentIsDropped, OneResetPerArming, [Next]_vars
    PROVE  OneResetPerArming'
<1>0. zeroed \in [Id -> Nat]
  BY DEF TypeOK
<1>1. CASE zeroed' = zeroed
  BY <1>1 DEF OneResetPerArming
<1>2. ASSUME NEW c \in Conn, Zero(c) PROVE OneResetPerArming'
  <2>1. zeroed[for[c]] = 0 /\ zeroed' = [zeroed EXCEPT ![for[c]] = @ + 1]
    BY <1>2 DEF Zero, SpentIsDropped
  <2> QED
    BY <1>0, <2>1 DEF OneResetPerArming
<1>3. zeroed' = zeroed \/ \E c \in Conn : Zero(c)
  BY DEF Next, Client, Ask, Work, Daemon, vars, history, resets, Arm, Heartbeat, Cancel,
         AskOther, AskRestart, AskCommit, TakeTickLock, GiveUp, OtherDone, Recheck,
         CommitRefused, Audit, FinishCommit, Persist, PersistFails, Signal, BeginPass,
         EndPass, Exit, Crash, Down, Start, Tick, StepWallClock
<1> QED
  BY <1>1, <1>2, <1>3

\* What was watched stays watched as time and the heartbeats go on.
LEMMA WatchedGrows ==
    ASSUME NEW B \in SUBSET Nat, NEW C \in SUBSET Nat, B \subseteq C,
           NEW m \in Nat, NEW n \in Nat, m <= n
    PROVE  /\ Watched(B, m) => Watched(C, n)
           /\ \A p \in PendingType : WatchedSoFar(B, p, m) => WatchedSoFar(C, p, n)
<1> USE CtlAssumption DEF PendingType
<1>1. ASSUME Watched(B, m) PROVE Watched(C, n)
  <2>1. PICK armed \in B :
          /\ armed + Countdown <= m
          /\ \A t \in armed..(armed + Countdown) :
                 \E b \in B : b <= t /\ t <= b + Lapse
    BY <1>1 DEF Watched
  <2>2. armed \in C /\ armed + Countdown <= n
    BY <2>1
  <2>3. \A t \in armed..(armed + Countdown) : \E b \in C : b <= t /\ t <= b + Lapse
    BY <2>1
  <2> QED
    BY <2>2, <2>3 DEF Watched
<1>2. ASSUME NEW p \in PendingType, WatchedSoFar(B, p, m) PROVE WatchedSoFar(C, p, n)
  BY <1>2 DEF WatchedSoFar
<1> QED
  BY <1>1, <1>2

\* A live reset whose countdown is over was watched throughout.
LEMMA LiveIsWatched ==
    ASSUME NEW B \in SUBSET Nat, NEW p \in PendingType, NEW n \in Nat,
           WatchedSoFar(B, p, n), p.ready <= n, n - p.beat <= Lapse
    PROVE  Watched(B, n)
<1> USE CtlAssumption DEF PendingType
<1>1. PICK armed \in B :
        /\ p.ready = armed + Countdown
        /\ armed <= p.beat /\ p.beat <= n
        /\ p.beat \in B
        /\ \A t \in armed..p.beat : \E b \in B : b <= t /\ t <= b + Lapse
  BY DEF WatchedSoFar
<1>2. ASSUME NEW t \in armed..(armed + Countdown)
      PROVE  \E b \in B : b <= t /\ t <= b + Lapse
  <2>1. CASE t <= p.beat
    BY <1>1, <2>1
  <2>2. CASE t > p.beat
    BY <1>1, <2>2
  <2> QED
    BY <2>1, <2>2
<1> QED
  BY <1>1, <1>2 DEF Watched

\* A heartbeat of a live reset extends what was watched to now.
LEMMA HeartbeatExtends ==
    ASSUME NEW B \in SUBSET Nat, NEW p \in PendingType, NEW n \in Nat,
           WatchedSoFar(B, p, n), n - p.beat <= Lapse
    PROVE  WatchedSoFar(B \cup {n}, [p EXCEPT !.beat = n], n)
<1> USE CtlAssumption DEF PendingType
<1>1. PICK armed \in B :
        /\ p.ready = armed + Countdown
        /\ armed <= p.beat /\ p.beat <= n
        /\ p.beat \in B
        /\ \A t \in armed..p.beat : \E b \in B : b <= t /\ t <= b + Lapse
  BY DEF WatchedSoFar
<1>2. ASSUME NEW t \in armed..n
      PROVE  \E b \in B : b <= t /\ t <= b + Lapse
  <2>1. CASE t <= p.beat
    BY <1>1, <2>1
  <2>2. CASE t > p.beat
    BY <1>1, <2>2
  <2> QED
    BY <2>1, <2>2
<1>3. /\ [p EXCEPT !.beat = n].beat = n /\ [p EXCEPT !.beat = n].ready = p.ready
      /\ armed <= n
  BY <1>1
<1> QED
  BY <1>1, <1>2, <1>3 DEF WatchedSoFar

\* The armed reset was watched from its arming up to its last heartbeat, and
\* a reset that zeroed the day was watched for the whole countdown.
LEMMA BeatsStep ==
    ASSUME TypeOK, IdsInOrder, BeatsKept, [Next]_vars, TypeOK'
    PROVE  BeatsKept'
<1>0. /\ clock \in Nat /\ clock' \in Nat
      /\ beats \in [Id -> SUBSET Nat] /\ beats' \in [Id -> SUBSET Nat]
      /\ pending \in PendingType /\ pending' \in PendingType
      /\ zeroed \in [Id -> Nat] /\ armings \in Nat
      /\ at \in [Conn -> OpStage] /\ for \in [Conn -> Id \cup {NoId}]
  BY CtlAssumption DEF TypeOK
<1>1. clock <= clock'
  BY <1>0 DEF Next, Client, Ask, Work, Daemon, vars, threads, history, resets, Arm, Heartbeat,
         Cancel, AskOther, AskRestart, AskCommit, TakeTickLock, GiveUp, OtherDone, Recheck,
         Zero, CommitRefused, Audit, FinishCommit, Persist, PersistFails, Signal, BeginPass,
         EndPass, Exit, Crash, Down, Start, Tick, StepWallClock
<1>2. ASSUME NEW i \in Id, i <= armings
      PROVE  beats[i] \subseteq beats'[i]
  <2>1. CASE Arm
    BY <1>0, <1>2, <2>1 DEF Arm, Id
  <2>2. ASSUME NEW k \in Id, Heartbeat(k) PROVE beats[i] \subseteq beats'[i]
    BY <1>0, <2>2 DEF Heartbeat
  <2>3. Arm \/ (\E k \in Id : Heartbeat(k)) \/ beats' = beats
    BY DEF Next, Client, Ask, Work, Daemon, vars, threads, history, resets, 
         Cancel, AskOther, AskRestart, AskCommit, TakeTickLock, GiveUp, OtherDone, Recheck,
         Zero, CommitRefused, Audit, FinishCommit, Persist, PersistFails, Signal, BeginPass,
         EndPass, Exit, Crash, Down, Start, Tick, StepWallClock
  <2> QED
    BY <2>1, <2>2, <2>3
<1>3. \A i \in Id : i <= armings /\ Watched(beats[i], clock) => Watched(beats'[i], clock')
  BY <1>0, <1>1, <1>2, WatchedGrows
<1>4. ASSUME NEW i \in Id, zeroed'[i] > 0
      PROVE  Watched(beats'[i], clock')
  <2>1. CASE zeroed'[i] = zeroed[i]
    BY <1>0, <1>3, <1>4, <2>1 DEF IdsInOrder, BeatsKept, Id
  <2>2. ASSUME NEW c \in Conn, Zero(c), for[c] = i PROVE Watched(beats'[i], clock')
    BY <1>3, <2>2 DEF Zero, IdsInOrder, BeatsKept
  <2>3. zeroed'[i] = zeroed[i] \/ \E c \in Conn : Zero(c) /\ for[c] = i
    <3>1. zeroed' = zeroed \/ \E c \in Conn : Zero(c)
      BY DEF Next, Client, Ask, Work, Daemon, vars, threads, history, resets, Arm, Heartbeat,
         Cancel, AskOther, AskRestart, AskCommit, TakeTickLock, GiveUp, OtherDone, Recheck,
         CommitRefused, Audit, FinishCommit, Persist, PersistFails, Signal, BeginPass,
         EndPass, Exit, Crash, Down, Start, Tick, StepWallClock
    <3>2. ASSUME NEW c \in Conn, Zero(c), for[c] # i PROVE zeroed'[i] = zeroed[i]
      BY <1>0, <3>2 DEF Zero
    <3> QED
      BY <3>1, <3>2
  <2> QED
    BY <2>1, <2>2, <2>3
<1>5. ASSUME NEW c \in Conn, at'[c] = "zero"
      PROVE  Watched(beats'[for'[c]], clock')
  <2>1. CASE at[c] = "zero" /\ for'[c] = for[c]
    BY <1>3, <2>1 DEF IdsInOrder, Committing, BeatsKept
  <2>2. CASE Recheck(c)
    <3>1. for'[c] = for[c] /\ Ready(for[c]) /\ beats' = beats /\ clock' = clock
      BY <1>0, <1>5, <2>2 DEF Recheck, Proceed, Reply, history, resets
    <3>2. pending # NoPending /\ pending.id = for[c] /\ for[c] \in Id
      BY <2>2, <3>1 DEF Ready, Live, Recheck, IdsInOrder, Committing
    <3>3. WatchedSoFar(beats[for[c]], pending, clock)
      BY <3>2 DEF BeatsKept
    <3>4. pending.ready <= clock /\ clock - pending.beat <= Lapse
      BY <1>0, <3>1 DEF Ready, Live, PendingType
    <3>5. Watched(beats[for[c]], clock)
      BY <1>0, <3>2, <3>3, <3>4, LiveIsWatched
    <3> QED
      BY <3>1, <3>5
  <2>3. Recheck(c) \/ (at[c] = "zero" /\ for'[c] = for[c])
    <3>1. ASSUME NEW k \in Conn, Ask(k) \/ Work(k), k # c
          PROVE  at'[c] = at[c] /\ for'[c] = for[c]
      BY <1>0, <3>1 DEF Ask, Work, AskOther, AskRestart, AskCommit, TakeTickLock, GiveUp,
         OtherDone, Recheck, Zero, CommitRefused, Audit, FinishCommit, Persist,
         PersistFails, Signal, Proceed, Reply
    <3>2. ASSUME Ask(c) \/ Work(c)
          PROVE  Recheck(c) \/ (at'[c] = at[c] /\ for'[c] = for[c])
      BY <1>0, <1>5, <3>2 DEF Ask, Work, AskOther, AskRestart, AskCommit, TakeTickLock,
         GiveUp, OtherDone, Zero, CommitRefused, Audit, FinishCommit, Persist,
         PersistFails, Signal, Proceed, Reply
    <3>3. \/ \E k \in Conn : Ask(k) \/ Work(k)
          \/ at' = at /\ for' = for
      BY <1>5 DEF Next, Client, Daemon, vars, threads, Arm, Heartbeat, Cancel, BeginPass,
         EndPass, Exit, Crash, Down, Start, Tick, StepWallClock
    <3> QED
      BY <1>5, <3>1, <3>2, <3>3
  <2> QED
    BY <2>1, <2>2, <2>3
<1>6. ASSUME pending' # NoPending
      PROVE  WatchedSoFar(beats'[pending'.id], pending', clock')
  <2>1. CASE Arm
    <3>1. armings + 1 \in Id
      BY <1>0, <2>1, CtlAssumption DEF Arm, Id
    <3>2. /\ pending'.id = armings + 1 /\ pending'.ready = clock + Countdown
          /\ pending'.beat = clock /\ clock' = clock /\ beats'[armings + 1] = {clock}
      BY <1>0, <2>1, <3>1 DEF Arm
    <3> QED
      BY <1>0, <3>2, CtlAssumption DEF WatchedSoFar
  <2>2. CASE pending' = pending
    <3>1. WatchedSoFar(beats[pending.id], pending, clock) /\ pending.id \in 1..armings
      BY <1>6, <2>2 DEF BeatsKept, IdsInOrder
    <3>2. pending.id \in Id
      BY <1>0, <3>1 DEF PendingType, NoId
    <3>3. beats[pending.id] \subseteq beats'[pending.id]
      BY <1>0, <1>2, <3>1, <3>2
    <3> QED
      BY <1>0, <1>1, <2>2, <3>1, <3>2, <3>3, WatchedGrows
  <2>3. ASSUME NEW i \in Id, Live, pending.id = i, clock' = clock,
               pending' = [pending EXCEPT !.beat = clock],
               beats' = [beats EXCEPT ![i] = @ \cup {clock}]
        PROVE  WatchedSoFar(beats'[pending'.id], pending', clock')
    <3>1. beats'[i] = beats[i] \cup {clock} /\ pending'.id = i
      BY <1>0, <2>3 DEF PendingType
    <3>2. WatchedSoFar(beats[i], pending, clock) /\ clock - pending.beat <= Lapse
      BY <2>3 DEF Live, BeatsKept
    <3> QED
      BY <1>0, <2>3, <3>1, <3>2, HeartbeatExtends
  <2>4. \/ Arm
        \/ pending' = pending
        \/ \E i \in Id : /\ Live /\ pending.id = i /\ clock' = clock
                         /\ pending' = [pending EXCEPT !.beat = clock]
                         /\ beats' = [beats EXCEPT ![i] = @ \cup {clock}]
    BY <1>6 DEF Next, Client, Ask, Work, Daemon, vars, threads, history, resets, Heartbeat,
         Cancel, AskOther, AskRestart, AskCommit, TakeTickLock, GiveUp, OtherDone, Recheck,
         Zero, CommitRefused, Audit, FinishCommit, Persist, PersistFails, Signal, BeginPass,
         EndPass, Exit, Crash, Down, Start, Tick, StepWallClock,
         StillArmed
  <2> QED
    BY <2>1, <2>2, <2>3, <2>4
<1> QED
  BY <1>4, <1>5, <1>6 DEF BeatsKept

\* Ids are never armed again, so what a cancel dropped stays dropped.
LEMMA CancelStep ==
    TypeOK /\ IdsInOrder /\ CancelledGone /\ [Next]_vars => CancelledGone'
<1> SUFFICES ASSUME TypeOK, IdsInOrder, CancelledGone, [Next]_vars
             PROVE  CancelledGone'
  OBVIOUS
<1>0. /\ armings \in 0..MaxArms /\ pending \in PendingType /\ MaxArms \in Nat
      /\ cancelled \subseteq Id
  BY CtlAssumption DEF TypeOK
<1> USE <1>0 DEF CancelledGone, IdsInOrder, NoPending, PendingType, Id, NoId
<1>1. CASE Arm
  BY <1>1 DEF Arm, threads, history, resets
<1>2. ASSUME NEW i \in Id, Heartbeat(i) PROVE CancelledGone'
  BY <1>2 DEF Heartbeat, StillArmed, Live, threads, history, resets
<1>3. ASSUME NEW i \in Id, Cancel(i) PROVE CancelledGone'
  BY <1>3 DEF Cancel, threads, history, resets
<1>4. ASSUME NEW d \in Conn, AskOther(d) PROVE CancelledGone'
  BY <1>4 DEF AskOther, Proceed, threads, history, resets
<1>5. ASSUME NEW d \in Conn, AskRestart(d) PROVE CancelledGone'
  BY <1>5 DEF AskRestart, Proceed, threads, history, resets
<1>6. ASSUME NEW d \in Conn, NEW i \in Id, AskCommit(d, i) PROVE CancelledGone'
  BY <1>6 DEF AskCommit, Ready, threads, history, resets
<1>7. ASSUME NEW d \in Conn, TakeTickLock(d) PROVE CancelledGone'
  BY <1>7 DEF TakeTickLock, Proceed, threads, history, resets
<1>8. ASSUME NEW d \in Conn, GiveUp(d) PROVE CancelledGone'
  BY <1>8 DEF GiveUp, Reply, threads, history, resets
<1>9. ASSUME NEW d \in Conn, OtherDone(d) PROVE CancelledGone'
  BY <1>9 DEF OtherDone, Reply, threads, history, resets
<1>10. ASSUME NEW d \in Conn, Recheck(d) PROVE CancelledGone'
  BY <1>10 DEF Recheck, Proceed, Reply, StillArmed, threads, history, resets
<1>11. ASSUME NEW d \in Conn, Zero(d) PROVE CancelledGone'
  BY <1>11 DEF Zero, Proceed, threads, history, resets
<1>12. ASSUME NEW d \in Conn, CommitRefused(d) PROVE CancelledGone'
  BY <1>12 DEF CommitRefused, Reply, threads, history, resets
<1>13. ASSUME NEW d \in Conn, Audit(d) PROVE CancelledGone'
  BY <1>13 DEF Audit, Proceed, threads, history, resets
<1>14. ASSUME NEW d \in Conn, FinishCommit(d) PROVE CancelledGone'
  BY <1>14 DEF FinishCommit, Reply, threads, history, resets
<1>15. ASSUME NEW d \in Conn, Persist(d) PROVE CancelledGone'
  BY <1>15 DEF Persist, Proceed, threads, history, resets
<1>16. ASSUME NEW d \in Conn, PersistFails(d) PROVE CancelledGone'
  BY <1>16 DEF PersistFails, Reply, threads, history, resets
<1>17. ASSUME NEW d \in Conn, Signal(d) PROVE CancelledGone'
  BY <1>17 DEF Signal, Reply, threads, history, resets
<1>18. CASE BeginPass
  BY <1>18 DEF BeginPass, threads, history, resets
<1>19. CASE EndPass
  BY <1>19 DEF EndPass, threads, history, resets
<1>20. CASE Exit
  BY <1>20 DEF Exit, Down, threads, history, resets
<1>21. CASE Crash
  BY <1>21 DEF Crash, Down, threads, history, resets
<1>22. CASE Start
  BY <1>22 DEF Start, threads, history, resets
<1>23. CASE Tick
  BY <1>23 DEF Tick, threads, history, resets
<1>24. CASE StepWallClock
  BY <1>24 DEF StepWallClock, threads, history, resets
<1>25. CASE UNCHANGED vars
  BY <1>25 DEF vars, threads, history, resets
<1> QED
  BY <1>1, <1>2, <1>3, <1>4, <1>5, <1>6, <1>7, <1>8, <1>9, <1>10, <1>11, <1>12, <1>13, <1>14, <1>15, <1>16, <1>17, <1>18, <1>19, <1>20, <1>21, <1>22, <1>23, <1>24, <1>25
  DEF Next, Client, Ask, Work, Daemon

\* Only its re-check takes a commit to the reset.
LEMMA OnlyReady ==
    ASSUME TypeOK, CancelledGone, [Next]_vars, NEW c \in Conn,
           at[c] = "recheck", at'[c] = "zero"
    PROVE  for[c] \notin cancelled
<1>0. at \in [Conn -> OpStage] /\ for \in [Conn -> Id \cup {NoId}]
  BY DEF TypeOK
<1> USE <1>0
<1>1. CASE Arm
  BY <1>1 DEF Arm, threads, Ready, CancelledGone
<1>2. ASSUME NEW i \in Id, Heartbeat(i) PROVE for[c] \notin cancelled
  BY <1>2 DEF Heartbeat, StillArmed, Live, threads, Ready, CancelledGone
<1>3. ASSUME NEW i \in Id, Cancel(i) PROVE for[c] \notin cancelled
  BY <1>3 DEF Cancel, threads, Ready, CancelledGone
<1>4. ASSUME NEW d \in Conn, AskOther(d) PROVE for[c] \notin cancelled
  BY <1>4 DEF AskOther, Proceed, threads, Ready, CancelledGone
<1>5. ASSUME NEW d \in Conn, AskRestart(d) PROVE for[c] \notin cancelled
  BY <1>5 DEF AskRestart, Proceed, threads, Ready, CancelledGone
<1>6. ASSUME NEW d \in Conn, NEW i \in Id, AskCommit(d, i) PROVE for[c] \notin cancelled
  BY <1>6 DEF AskCommit, Ready, threads, Ready, CancelledGone
<1>7. ASSUME NEW d \in Conn, TakeTickLock(d) PROVE for[c] \notin cancelled
  BY <1>7 DEF TakeTickLock, Proceed, threads, Ready, CancelledGone
<1>8. ASSUME NEW d \in Conn, GiveUp(d) PROVE for[c] \notin cancelled
  BY <1>8 DEF GiveUp, Reply, threads, Ready, CancelledGone
<1>9. ASSUME NEW d \in Conn, OtherDone(d) PROVE for[c] \notin cancelled
  BY <1>9 DEF OtherDone, Reply, threads, Ready, CancelledGone
<1>10. ASSUME NEW d \in Conn, Recheck(d) PROVE for[c] \notin cancelled
  BY <1>10 DEF Recheck, Proceed, Reply, StillArmed, threads, Ready, CancelledGone
<1>11. ASSUME NEW d \in Conn, Zero(d) PROVE for[c] \notin cancelled
  BY <1>11 DEF Zero, Proceed, threads, Ready, CancelledGone
<1>12. ASSUME NEW d \in Conn, CommitRefused(d) PROVE for[c] \notin cancelled
  BY <1>12 DEF CommitRefused, Reply, threads, Ready, CancelledGone
<1>13. ASSUME NEW d \in Conn, Audit(d) PROVE for[c] \notin cancelled
  BY <1>13 DEF Audit, Proceed, threads, Ready, CancelledGone
<1>14. ASSUME NEW d \in Conn, FinishCommit(d) PROVE for[c] \notin cancelled
  BY <1>14 DEF FinishCommit, Reply, threads, Ready, CancelledGone
<1>15. ASSUME NEW d \in Conn, Persist(d) PROVE for[c] \notin cancelled
  BY <1>15 DEF Persist, Proceed, threads, Ready, CancelledGone
<1>16. ASSUME NEW d \in Conn, PersistFails(d) PROVE for[c] \notin cancelled
  BY <1>16 DEF PersistFails, Reply, threads, Ready, CancelledGone
<1>17. ASSUME NEW d \in Conn, Signal(d) PROVE for[c] \notin cancelled
  BY <1>17 DEF Signal, Reply, threads, Ready, CancelledGone
<1>18. CASE BeginPass
  BY <1>18 DEF BeginPass, threads, Ready, CancelledGone
<1>19. CASE EndPass
  BY <1>19 DEF EndPass, threads, Ready, CancelledGone
<1>20. CASE Exit
  BY <1>20 DEF Exit, Down, threads, Ready, CancelledGone
<1>21. CASE Crash
  BY <1>21 DEF Crash, Down, threads, Ready, CancelledGone
<1>22. CASE Start
  BY <1>22 DEF Start, threads, Ready, CancelledGone
<1>23. CASE Tick
  BY <1>23 DEF Tick, threads, Ready, CancelledGone
<1>24. CASE StepWallClock
  BY <1>24 DEF StepWallClock, threads, Ready, CancelledGone
<1>25. CASE UNCHANGED vars
  BY <1>25 DEF vars, threads, history, resets
<1> QED
  BY <1>1, <1>2, <1>3, <1>4, <1>5, <1>6, <1>7, <1>8, <1>9, <1>10, <1>11, <1>12, <1>13, <1>14, <1>15, <1>16, <1>17, <1>18, <1>19, <1>20, <1>21, <1>22, <1>23, <1>24, <1>25
  DEF Next, Client, Ask, Work, Daemon

\* The inductive invariant of the reset.
LEMMA ResetInvariant == Spec => []ResetInv
<1>1. Init => ResetInv
  <2>1. Init => /\ LocksHeld /\ IdsInOrder /\ SpentIsDropped /\ BeatsKept
                /\ OneResetPerArming
    BY CtlAssumption DEF Init, LocksHeld, Locked, IdsInOrder, Committing, SpentIsDropped,
           BeatsKept, OneResetPerArming, NoPending, NoId, Id
  <2> QED
    BY <2>1, TypeInit DEF ResetInv
<1>2. ResetInv /\ [Next]_vars => ResetInv'
  BY TypeStep, LocksStep, IdsStep, SpentStep, BeatsStep, OnceStep DEF ResetInv
<1> QED
  BY <1>1, <1>2, PTL DEF Spec

\* No race of commits, failure or restart makes an armed reset zero the day's
\* playtime twice.
THEOREM ResetOnce == Spec => []OneResetPerArming
<1>1. ResetInv => OneResetPerArming
  BY DEF ResetInv
<1> QED
  BY <1>1, ResetInvariant, PTL

\* The two phases cannot be skipped: whoever zeroes the day's playtime was
\* there during the whole countdown, whatever the wall clock did.
THEOREM CountdownWatched == Spec => []WatchedThroughout
<1>1. ResetInv => WatchedThroughout
  BY DEF ResetInv, BeatsKept, Watched, WatchedThroughout
<1> QED
  BY <1>1, ResetInvariant, PTL

\* No op changes anything while the loop is in a pass.
THEOREM OpsOutsidePasses == Spec => PassesUndisturbed
<1>1. ASSUME LocksHeld
      PROVE  \A c \in Conn : Zero(c) \/ OtherDone(c) \/ FinishCommit(c) =>
                 loop \notin {"settle", "pass"}
  BY <1>1, CtlAssumption
     DEF LocksHeld, Locked, Enforcer, Zero, OtherDone, FinishCommit
<1>2. ResetInv => LocksHeld
  BY DEF ResetInv
<1> QED
  BY <1>1, <1>2, ResetInvariant, PTL DEF PassesUndisturbed

\* A cancel and a commit that race for an armed reset are decided at the
\* re-check: none resets the day that passes it after the cancel.
THEOREM CancelsBind == Spec => CancelBinds
<1>1. Init => CancelledGone
  BY DEF Init, CancelledGone
<1>2. ResetInv /\ CancelledGone /\ [Next]_vars => CancelledGone'
  BY CancelStep DEF ResetInv
<1>3. ResetInv /\ CancelledGone /\ [Next]_vars =>
          \A c \in Conn : at[c] = "recheck" /\ at'[c] = "zero" =>
              for[c] \notin cancelled
  BY OnlyReady DEF ResetInv
<1> QED
  BY <1>1, <1>2, <1>3, ResetInvariant, PTL DEF Spec, CancelBinds
=============================================================================
