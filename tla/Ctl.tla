--------------------------------- MODULE Ctl ---------------------------------
(***************************************************************************)
(* The control socket of the enforce daemon.  Connection threads run the   *)
(* ops; the enforce loop runs its passes; a lock, the tick lock, keeps     *)
(* both apart.  A gaming reset takes two phases: it is armed, kept alive   *)
(* by heartbeats for a countdown, and committed.  A restart makes the loop *)
(* leave after its pass, at most once per interval; systemd brings the     *)
(* daemon back.  Whatever is in memory is gone then.                       *)
(*                                                                         *)
(* The daemon has two clocks: clock is time.monotonic(), and clock + skew  *)
(* is time.time(), which an administrator or NTP may step.                 *)
(***************************************************************************)
EXTENDS Integers, Sequences

CONSTANTS
    Conn,       \* connection threads (the daemon admits MAX_CONNECTIONS)
    Countdown,  \* GAMING_RESET_COUNTDOWN_SECONDS
    Lapse,      \* LAPSE_AFTER_SECONDS
    Interval,   \* RESTART_INTERVAL_SECONDS
    Steps,      \* the steps the wall clock may make
    MaxTime,    \* bound: the last moment
    MaxArms,    \* bound: resets armed
    MaxRestarts, \* bound: restarts asked for and recorded
    MaxCrashes, \* bound: deaths of the daemon
    MaxSteps    \* bound: steps of the wall clock

ASSUME CtlAssumption ==
    /\ "free" \notin Conn /\ "loop" \notin Conn
    /\ Countdown \in Nat /\ Lapse \in Nat /\ Interval \in Nat \ {0}
    /\ Steps \subseteq Int
    /\ MaxTime \in Nat /\ MaxArms \in Nat /\ MaxRestarts \in Nat
    /\ MaxCrashes \in Nat /\ MaxSteps \in Nat

VARIABLES
    clock,      \* time.monotonic()
    skew,       \* what time.time() is ahead of it
    loop,       \* where the enforce loop is
    at,         \* [Conn -> where the op of the connection is]
    for,        \* [Conn -> the pending_id its commit names, or NoId]
    tickLock,   \* who holds the tick lock
    restartLock, \* who holds _restart_lock
    pending,    \* the armed reset, or NoPending
    event,      \* restart_event
    limit,      \* time of the last restart in ctl_restart.json, or NoTime
    \* What happened, which no code reads:
    armings,    \* resets armed so far; the n-th has the id n
    beats,      \* [Id -> moments of its arming and its heartbeats]
    cancelled,  \* ids whose armed reset a cancel has dropped
    zeroed,     \* [Id -> how often it has zeroed the day's playtime]
    audited,    \* [Id -> how often the audit log says so]
    restarts,   \* the moments of the accepted restarts
    crashes, stepped

threads == <<at, for, tickLock, restartLock>>
resets == <<armings, beats, cancelled, zeroed, audited>>
history == <<resets, restarts>>
bounds == <<crashes, stepped>>
vars == <<clock, skew, loop, threads, pending, event, limit, history, bounds>>

Id == 1..MaxArms
NoId == 0
NoTime == -1
NoPending == [id |-> NoId, ready |-> 0, beat |-> 0]
Free == "free"
Enforcer == "loop"

\* boot: before the first pass.  settle: settle_restart_gap.  leaving: between
\* the return of do_enforce and the end of the process.
LoopStage == {"down", "boot", "settle", "idle", "pass", "leaving"}

\* commit and other wait for the tick lock.  recheck, zero, record and finish
\* are a commit that has it, working any other op that has it.  persist and
\* signal are a restart.
OpStage == {"none", "commit", "other", "recheck", "zero", "record", "finish",
            "working", "persist", "signal"}

Wall == clock + skew
Up == loop # "down"

Init ==
    /\ clock = 0 /\ skew = 0
    /\ loop = "boot"
    /\ at = [c \in Conn |-> "none"]
    /\ for = [c \in Conn |-> NoId]
    /\ tickLock = Free /\ restartLock = Free
    /\ pending = NoPending
    /\ event = FALSE
    /\ limit = NoTime
    /\ armings = 0
    /\ beats = [i \in Id |-> {}]
    /\ cancelled = {}
    /\ zeroed = [i \in Id |-> 0]
    /\ audited = [i \in Id |-> 0]
    /\ restarts = <<>>
    /\ crashes = 0 /\ stepped = 0

-----------------------------------------------------------------------------
(* The armed reset *)

\* Mutant of Live: the silence is measured with the wall clock.
LiveByWall == pending # NoPending /\ Wall - pending.beat <= Lapse

Live == pending # NoPending /\ clock - pending.beat <= Lapse

\* _live: what is still armed; a lapsed reset is dropped by whoever looks.
StillArmed == IF Live THEN pending ELSE NoPending

\* check_ready
Ready(i) == Live /\ pending.id = i /\ clock >= pending.ready

\* Arming while one is armed returns the armed one and changes nothing.
Arm ==
    /\ Up /\ ~Live /\ armings < MaxArms
    /\ armings' = armings + 1
    /\ pending' = [id |-> armings + 1, ready |-> clock + Countdown, beat |-> clock]
    /\ beats' = [beats EXCEPT ![armings + 1] = {clock}]
    /\ UNCHANGED <<clock, skew, loop, threads, event, limit, cancelled, zeroed,
                   audited, restarts, bounds>>

Heartbeat(i) ==
    /\ Up
    /\ \/ /\ Live /\ pending.id = i
          /\ pending' = [pending EXCEPT !.beat = clock]
          /\ beats' = [beats EXCEPT ![i] = @ \cup {clock}]
       \/ /\ ~(Live /\ pending.id = i)
          /\ pending' = StillArmed
          /\ UNCHANGED beats
    /\ UNCHANGED <<clock, skew, loop, threads, event, limit, armings, cancelled,
                   zeroed, audited, restarts, bounds>>

Cancel(i) ==
    /\ Up /\ pending.id = i
    /\ pending' = NoPending
    /\ cancelled' = cancelled \cup {i}
    /\ UNCHANGED <<clock, skew, loop, threads, event, limit, armings, beats,
                   zeroed, audited, restarts, bounds>>

-----------------------------------------------------------------------------
(* The tick lock *)

Acquire(who) == tickLock = Free /\ tickLock' = who
Reply(c) == at' = [at EXCEPT ![c] = "none"] /\ for' = [for EXCEPT ![c] = NoId]
Proceed(c, stage) == at' = [at EXCEPT ![c] = stage] /\ UNCHANGED for

\* store_unblock, block_gaming, gaming_unblock.
AskOther(c) ==
    /\ Up /\ at[c] = "none"
    /\ Proceed(c, "other")
    /\ UNCHANGED <<clock, skew, loop, tickLock, restartLock, pending, event, limit,
                   history, bounds>>

\* The first check of op_commit; a refusal is the reply.
AskCommit(c, i) ==
    /\ Up /\ at[c] = "none" /\ Ready(i)
    /\ at' = [at EXCEPT ![c] = "commit"]
    /\ for' = [for EXCEPT ![c] = i]
    /\ UNCHANGED <<clock, skew, loop, tickLock, restartLock, pending, event, limit,
                   history, bounds>>

TakeTickLock(c) ==
    /\ Acquire(c)
    /\ \/ at[c] = "commit" /\ Proceed(c, "recheck")
       \/ at[c] = "other" /\ Proceed(c, "working")
    /\ UNCHANGED <<clock, skew, loop, restartLock, pending, event, limit, history,
                   bounds>>

\* Mutants of GiveUp: the wait has no end, and the release is done although
\* nothing was acquired.
WaitOn(c) == FALSE /\ UNCHANGED vars
GiveUpReleasing(c) ==
    /\ at[c] \in {"commit", "other"} /\ tickLock # Free
    /\ Reply(c) /\ tickLock' = Free
    /\ UNCHANGED <<clock, skew, loop, restartLock, pending, event, limit, history,
                   bounds>>

\* LOCK_WAIT_SECONDS are over: busy.
GiveUp(c) ==
    /\ at[c] \in {"commit", "other"} /\ tickLock # Free
    /\ Reply(c)
    /\ UNCHANGED <<clock, skew, loop, tickLock, restartLock, pending, event, limit,
                   history, bounds>>

OtherDone(c) ==
    /\ at[c] = "working"
    /\ Reply(c) /\ tickLock' = Free
    /\ UNCHANGED <<clock, skew, loop, restartLock, pending, event, limit, history,
                   bounds>>

-----------------------------------------------------------------------------
(* The commit, with the tick lock *)

\* Mutant of Recheck: the first check is enough.
TrustFirstCheck(c) ==
    /\ at[c] = "recheck"
    /\ Proceed(c, "zero")
    /\ UNCHANGED <<clock, skew, loop, tickLock, restartLock, pending, event, limit,
                   history, bounds>>

\* The authoritative check.
Recheck(c) ==
    /\ at[c] = "recheck"
    /\ pending' = StillArmed
    /\ \/ Ready(for[c]) /\ Proceed(c, "zero") /\ UNCHANGED tickLock
       \/ ~Ready(for[c]) /\ Reply(c) /\ tickLock' = Free
    /\ UNCHANGED <<clock, skew, loop, restartLock, event, limit, history, bounds>>

\* reset_today up to the saved state.
Zero(c) ==
    /\ at[c] = "zero"
    /\ zeroed' = [zeroed EXCEPT ![for[c]] = @ + 1]
    /\ Proceed(c, "record")
    /\ UNCHANGED <<clock, skew, loop, tickLock, restartLock, pending, event, limit,
                   armings, beats, cancelled, audited, restarts, bounds>>

\* Mutant of CommitRefused: the error path keeps the lock.
RefuseKeepingLock(c) ==
    /\ at[c] = "zero"
    /\ Reply(c)
    /\ UNCHANGED <<clock, skew, loop, tickLock, restartLock, pending, event, limit,
                   history, bounds>>

\* A total block is on (check_locks), or the state cannot be written (OSError).
\* The reset stays armed.
CommitRefused(c) ==
    /\ at[c] = "zero"
    /\ Reply(c) /\ tickLock' = Free
    /\ UNCHANGED <<clock, skew, loop, restartLock, pending, event, limit, history,
                   bounds>>

Audit(c) ==
    /\ at[c] = "record"
    /\ audited' = [audited EXCEPT ![for[c]] = @ + 1]
    /\ Proceed(c, "finish")
    /\ UNCHANGED <<clock, skew, loop, tickLock, restartLock, pending, event, limit,
                   armings, beats, cancelled, zeroed, restarts, bounds>>

FinishCommit(c) ==
    /\ at[c] = "finish"
    /\ pending' = IF pending.id = for[c] THEN NoPending ELSE pending
    /\ Reply(c) /\ tickLock' = Free
    /\ UNCHANGED <<clock, skew, loop, restartLock, event, limit, history, bounds>>

-----------------------------------------------------------------------------
(* The restart *)

\* seconds_until_available is 0.
Available ==
    \/ limit = NoTime
    \/ Wall - limit >= Interval

\* Mutant of AskRestart: requests are not serialised.
AskRestartAnyway(c) ==
    /\ Up /\ at[c] = "none" /\ Available /\ Len(restarts) < MaxRestarts
    /\ Proceed(c, "persist")
    /\ restartLock' = c
    /\ UNCHANGED <<clock, skew, loop, tickLock, pending, event, limit, history, bounds>>

\* Past the check; one that is rate_limited changes nothing.
AskRestart(c) ==
    /\ Up /\ at[c] = "none" /\ restartLock = Free
    /\ Available /\ Len(restarts) < MaxRestarts
    /\ Proceed(c, "persist") /\ restartLock' = c
    /\ UNCHANGED <<clock, skew, loop, tickLock, pending, event, limit, history, bounds>>

Persist(c) ==
    /\ at[c] = "persist"
    /\ limit' = Wall
    /\ restarts' = Append(restarts, clock)
    /\ Proceed(c, "signal")
    /\ UNCHANGED <<clock, skew, loop, tickLock, restartLock, pending, event, resets,
                   bounds>>

PersistFails(c) ==
    /\ at[c] = "persist"
    /\ Reply(c) /\ restartLock' = Free
    /\ UNCHANGED <<clock, skew, loop, tickLock, pending, event, limit, history, bounds>>

Signal(c) ==
    /\ at[c] = "signal"
    /\ event' = TRUE
    /\ Reply(c) /\ restartLock' = Free
    /\ UNCHANGED <<clock, skew, loop, tickLock, pending, limit, history, bounds>>

-----------------------------------------------------------------------------
(* The enforce loop and the process *)

BeginPass ==
    /\ \/ loop = "boot" /\ loop' = "settle"
       \/ loop = "idle" /\ loop' = "pass"
    /\ Acquire(Enforcer)
    /\ UNCHANGED <<clock, skew, at, for, restartLock, pending, event, limit, history,
                   bounds>>

EndPass ==
    /\ \/ loop = "settle" /\ loop' = "idle"
       \/ loop = "pass" /\ loop' = IF event THEN "leaving" ELSE "idle"
    /\ tickLock' = Free
    /\ UNCHANGED <<clock, skew, at, for, restartLock, pending, event, limit, history,
                   bounds>>

\* Memory is gone, and every thread with it wherever it is.
Down ==
    /\ loop' = "down"
    /\ at' = [c \in Conn |-> "none"]
    /\ for' = [c \in Conn |-> NoId]
    /\ tickLock' = Free /\ restartLock' = Free
    /\ pending' = NoPending
    /\ event' = FALSE
    /\ UNCHANGED <<clock, skew, limit, history, stepped>>

Exit == loop = "leaving" /\ Down /\ UNCHANGED crashes

Crash == Up /\ crashes < MaxCrashes /\ crashes' = crashes + 1 /\ Down

\* Restart=always
Start ==
    /\ loop = "down" /\ loop' = "boot"
    /\ UNCHANGED <<clock, skew, threads, pending, event, limit, history, bounds>>

Tick ==
    /\ clock < MaxTime /\ clock' = clock + 1
    /\ UNCHANGED <<skew, loop, threads, pending, event, limit, history, bounds>>

StepWallClock ==
    /\ stepped < MaxSteps /\ stepped' = stepped + 1
    /\ \E d \in Steps : Wall + d >= 0 /\ skew' = skew + d
    /\ UNCHANGED <<clock, loop, threads, pending, event, limit, history, crashes>>

-----------------------------------------------------------------------------
Work(c) ==
    \/ TakeTickLock(c) \/ GiveUp(c) \/ OtherDone(c)
    \/ Recheck(c) \/ Zero(c) \/ CommitRefused(c) \/ Audit(c) \/ FinishCommit(c)
    \/ Persist(c) \/ PersistFails(c) \/ Signal(c)

Ask(c) == AskOther(c) \/ AskRestart(c) \/ \E i \in Id : AskCommit(c, i)

Client == Arm \/ \E i \in Id : Heartbeat(i) \/ Cancel(i)

Daemon == BeginPass \/ EndPass \/ Exit \/ Start

Next ==
    \/ Client
    \/ \E c \in Conn : Ask(c) \/ Work(c)
    \/ Daemon \/ Crash
    \/ Tick \/ StepWallClock

Spec == Init /\ [][Next]_vars

-----------------------------------------------------------------------------
(* Fairness, for the run about liveness.  Threads are scheduled; a pass, an *)
(* op and a write end; systemd starts what has exited.  The loop gets the   *)
(* lock although ops keep asking for it, because between two of them it is  *)
(* free for the round trip of a client: hence strong fairness.              *)
Fairness ==
    /\ \A c \in Conn : WF_vars(Work(c))
    /\ SF_vars(BeginPass)
    /\ WF_vars(EndPass) /\ WF_vars(Exit) /\ WF_vars(Start)

FairSpec == Spec /\ Fairness

-----------------------------------------------------------------------------
(* Properties *)

PendingType == [id : Id \cup {NoId}, ready : Nat, beat : Nat]

\* The types of the state.
TypeOK ==
    /\ clock \in Nat /\ skew \in Int
    /\ loop \in LoopStage
    /\ at \in [Conn -> OpStage]
    /\ for \in [Conn -> Id \cup {NoId}]
    /\ tickLock \in Conn \cup {Free, Enforcer}
    /\ restartLock \in Conn \cup {Free}
    /\ pending \in PendingType
    /\ event \in BOOLEAN
    /\ limit \in Int
    /\ armings \in 0..MaxArms
    /\ beats \in [Id -> SUBSET Nat]
    /\ cancelled \subseteq Id
    /\ zeroed \in [Id -> Nat]
    /\ audited \in [Id -> Nat]
    /\ restarts \in Seq(Nat)
    /\ crashes \in Nat /\ stepped \in Nat

\* The day's playtime is zeroed only by a reset that was armed a whole
\* countdown before and somebody was watching: at every moment of the countdown
\* the last sign of life was no older than the lapse.  No step of the wall
\* clock, no race of two clients and no retry of a commit that failed gets
\* around it (op_commit, PendingResets).
WatchedThroughout ==
    \A i \in Id : zeroed[i] > 0 =>
        \E armed \in beats[i] :
            /\ armed + Countdown <= clock
            /\ \A t \in armed..(armed + Countdown) :
                   \E b \in beats[i] : b <= t /\ t <= b + Lapse

\* Of two racing commits only the first resets (the authoritative re-check of
\* op_commit), and no reset survives the process that armed it.
OneResetPerArming == \A i \in Id : zeroed[i] <= 1

\* Restarts are accepted an interval apart, whatever crashes and races of two
\* requests there are, and also if the wall clock, in which the last one is
\* recorded, steps back (op_restart).  A step forward brings the next one nearer.
RestartsSpaced ==
    \A m, n \in DOMAIN restarts :
        m < n => restarts[n] - restarts[m] >= Interval

\* Every request is answered, or dies with the daemon (hold_tick, _handle).
RequestsEnd == \A c \in Conn : at[c] # "none" ~> at[c] = "none"

\* An accepted restart takes the daemon down and it comes back
\* (flush_for_restart, Restart=always).
RestartComesBack == event ~> loop = "boot"

\* A pass of the loop and the body of an op never overlap (tick_lock).
PassesUndisturbed ==
    [][\A c \in Conn : Zero(c) \/ OtherDone(c) \/ FinishCommit(c) =>
          loop \notin {"settle", "pass"}]_vars

\* A cancel binds every commit that has not passed its re-check yet: none of
\* them goes on to reset the day (finish, op_commit).
CancelBinds ==
    [][\A c \in Conn : at[c] = "recheck" /\ at'[c] = "zero" =>
          for[c] \notin cancelled]_vars
=============================================================================
