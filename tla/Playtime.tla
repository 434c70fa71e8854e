------------------------------- MODULE Playtime -------------------------------
(***************************************************************************)
(* The daily playtime budget: what a tick of the daemon bills, when the    *)
(* budget is spent, and how the launchers are masked and unmasked, while   *)
(* the day rolls over, the budget is raised, the wall clock steps, the     *)
(* daemon restarts or dies, the state file vanishes, mounts fail, pacman   *)
(* runs, and the command line resets the day beside the daemon.            *)
(*                                                                         *)
(* A unit of time is one interval of the enforce loop.  A tick is three    *)
(* steps: Begin reads the clock; Tick, when the earners have been asked    *)
(* over the network, reads it again for the budget that is held, loads the *)
(* record, bills, decides and acts; Save writes the record back.           *)
(***************************************************************************)
EXTENDS Integers, FiniteSets, FiniteSetsExt

CONSTANTS
    Target,         \* the launchers that are masked (BLOCK_TARGETS)
    Thresholds,     \* remaining time at which to warn
    Budgets,        \* what the earners may resolve to
    DayLength,      \* units in a gaming day
    Clamp,          \* _DELTA_CLAMP_FACTOR, in units
    GapSlack,       \* what settle_restart_gap adds to a gap
    MaxGap,         \* MAX_GAP_SECONDS
    Grace,          \* _SHUTDOWN_GRACE_SECONDS
    SigkillAfter,   \* _SIGKILL_AFTER_SECONDS
    LeisureFrom,    \* the first day billed as leisure
    Events,         \* the disturbances of an instance
    MaxEvents,      \* bound on their number
    MaxTime         \* bound on the clock

ASSUME PlaytimeAssumption ==
    /\ Thresholds \subseteq Nat /\ Budgets \subseteq Nat /\ Budgets # {}
    /\ DayLength \in Nat \ {0} /\ Clamp \in Nat \ {0} /\ GapSlack \in Nat
    /\ MaxGap \in Nat /\ Grace \in Nat /\ SigkillAfter \in Nat /\ LeisureFrom \in Nat
    /\ MaxTime \in Nat \ {0}

VARIABLES
    clock,      \* the wall clock
    live,       \* the budget the earners resolve to now
    gaming,     \* a qualifying game runs
    screen,     \* what the watcher says: "paused", "leisure" or "free"
    total,      \* a total block is active
    pacman,     \* pacman holds its lock
    mounts,     \* the state of each launcher: "free", "rw" or "ro"
    file,       \* playtime_state.json, or NoFile
    marker,     \* the exit time left for the next daemon, 0 if none
    pc,         \* "down", "settle", "tick", "price" or "save"
    mode,       \* why the daemon ticks: "gap", "loop" or "flush"
    cap,        \* what the clamp admits in this tick
    now,        \* the moment a tick is about, 0 outside one
    mem,        \* the record the tick will save
    rule,       \* the budget of this tick
    enforcing,  \* playtime_enforcement, read when the daemon starts
    restart,    \* a restart was requested
    cli,        \* "off" or "loaded": the command line resets the day
    copy,       \* the record it will save
    used,       \* how often each bounded event has happened
    exited,     \* history: the recorded exit of a requested restart, 0 if none
    owed,       \* history: its downtime when the daemon was back, 0 once billed
    granted,    \* history: the highest budget of a tick, and its day
    cause       \* history: the day of the block last recorded and the lowest
                \* budget it was recorded under, or NoBlock

world == <<gaming, screen, total, pacman>>
daemon == <<pc, mode, cap, now, mem, rule, enforcing, restart>>
history == <<exited, owed, granted, cause>>
vars == <<clock, live, world, mounts, file, marker, daemon, cli, copy, used, history>>

-----------------------------------------------------------------------------
NoFile == [none |-> TRUE]
NoBlock == [none |-> TRUE]

\* PlaytimeState: the measured time is shadow_seconds and shadow_paused_seconds.
Record == [day : Nat, seconds : Nat, last : Nat, blocked : Nat,
           warned : SUBSET Thresholds, high : Nat, measured : Nat]

\* The gaming day of a moment.
Day(t) == t \div DayLength

Larger(a, b) == IF a >= b THEN a ELSE b
Smaller(a, b) == IF a <= b THEN a ELSE b

FreshDay(d, t) == [day |-> d, seconds |-> 0, last |-> t, blocked |-> 0,
                   warned |-> {}, high |-> 0, measured |-> 0]

\* Mutant: every tick begins the day again.
RollOverAlways(s, d) == FreshDay(d, s.last)

RollOver(s, d) == IF s.day = d THEN s ELSE FreshDay(d, s.last)

\* Mutant: the day is priced anew every time.
HeldNever == 0

Masked == {t \in Target : mounts[t] # "free"}

\* What the day has granted already, as the state file tells: the day of a second
\* look at the clock, after the earners have answered.
Held == IF file # NoFile /\ file.day = Day(clock) THEN file.high ELSE 0
Budget == Larger(live, Held)

\* Mutant: a lost file is a fresh day.
StateOrFresh == IF file # NoFile THEN file ELSE FreshDay(Day(now), now)

\* The stored record, or one that keeps a block whose file is gone.
StateOrRecover ==
    IF file # NoFile THEN file
    ELSE IF Masked = {} THEN FreshDay(Day(now), now)
    ELSE [FreshDay(Day(now), now) EXCEPT !.seconds = Budget, !.blocked = now]

\* The record of the tick's day, with the high-water mark of its budget.
Today == LET s == RollOver(StateOrRecover, Day(now))
         IN  [s EXCEPT !.high = Larger(s.high, Budget)]

\* What a delta counts for: nothing the first time or when the clock went back.
Credit(s) == IF s.last = 0 \/ now <= s.last THEN 0 ELSE Smaller(now - s.last, cap)

\* Mutant: shadow time only of leisure.
MeasuredLeisure(s) == IF screen = "leisure" THEN [s EXCEPT !.measured = @ + Credit(s)] ELSE s

\* Shadow time runs while paused, while a game runs and during leisure.
Measured(s) ==
    IF gaming \/ screen \in {"paused", "leisure"}
    THEN [s EXCEPT !.measured = @ + Credit(s)] ELSE s

\* Games are billed; from LeisureFrom on, so is all leisure, unless paused.
Billed(s) ==
    LET billed == IF s.day >= LeisureFrom
                  THEN screen # "paused" /\ (gaming \/ screen = "leisure")
                  ELSE gaming
    IN  [s EXCEPT !.last = now, !.seconds = IF billed THEN @ + Credit(s) ELSE @]

Accounted == Billed(Measured(Today))

\* pending_warning: the largest threshold reached and not yet announced, if any.
Pending(s, b) ==
    LET due == {t \in Thresholds : b - s.seconds <= t /\ t \notin s.warned}
    IN  {t \in due : \A u \in due : u <= t}
Warned(s, b) == [s EXCEPT !.warned = @ \cup Pending(s, b)]

\* Below the budget: drop the latch of a block and re-arm warnings.
UnderBudget(s, b) ==
    LET released == IF s.blocked > 0 THEN [s EXCEPT !.blocked = 0, !.warned = {}] ELSE s
        rearmed == [released EXCEPT !.warned = {t \in @ : t >= b - s.seconds}]
    IN  Warned(rearmed, b)

\* Mutant: launchers are masked as the block is recorded, and not again.
PolicyMasksOnce(s, b) ==
    IF ~enforcing THEN [state |-> s, mask |-> "release", kill |-> "none"]
    ELSE IF s.seconds < b
         THEN [state |-> UnderBudget(s, b), mask |-> "release", kill |-> "none"]
    ELSE IF s.blocked = 0
         THEN [state |-> [s EXCEPT !.blocked = now], mask |-> "mask", kill |-> "term"]
    ELSE [state |-> s, mask |-> "leave",
          kill |-> IF now - s.blocked >= SigkillAfter THEN "kill" ELSE "term"]

\* _policy, as the record it leaves, what it does to the mounts, and to games.
Policy(s, b) ==
    IF ~enforcing THEN [state |-> s, mask |-> "release", kill |-> "none"]
    ELSE IF s.seconds < b
         THEN [state |-> UnderBudget(s, b), mask |-> "release", kill |-> "none"]
    ELSE IF s.blocked = 0
         THEN [state |-> [s EXCEPT !.blocked = now], mask |-> "leave", kill |-> "term"]
    ELSE [state |-> s,
          mask |-> IF now - s.blocked >= Grace THEN "mask" ELSE "leave",
          kill |-> IF now - s.blocked >= SigkillAfter THEN "kill" ELSE "term"]

-----------------------------------------------------------------------------
Kinds == {"fault", "crash", "restart", "reset", "delete", "step", "price",
          "pacman", "block", "switch"}

Disturbances == MapThenSumSet(LAMBDA k : used[k], Kinds)

\* One more disturbance of a kind.
Happens(kind) ==
    /\ kind \in Events
    /\ Disturbances < MaxEvents
    /\ used' = [used EXCEPT ![kind] = @ + 1]

Faults(bad) == IF bad THEN Happens("fault") ELSE UNCHANGED used

\* release_block: a target that cannot be unmounted is left to the next tick.
ReleaseBlock ==
    \E stuck \in SUBSET Masked :
        /\ mounts' = [t \in Target |-> IF t \in stuck THEN mounts[t] ELSE "free"]
        /\ Faults(stuck # {})

\* apply_block: nothing while pacman runs; a mount may fail, and so may the
\* remount that makes it read-only, which is not tried again.
ApplyBlock ==
    IF pacman THEN UNCHANGED <<mounts, used>>
    ELSE \E m \in [Target -> {"free", "rw", "ro"}] :
            /\ \A t \in Masked : m[t] = mounts[t]
            /\ mounts' = m
            /\ Faults(\E t \in Target \ Masked : m[t] # "ro")

Reconcile(mask) ==
    CASE mask = "release" -> ReleaseBlock
      [] mask = "mask" -> ApplyBlock
      [] mask = "leave" -> UNCHANGED <<mounts, used>>

\* SIGTERM may be ignored, SIGKILL is not.
Killed(kill) ==
    CASE kill = "none" -> UNCHANGED gaming
      [] kill = "term" -> gaming' \in {gaming, FALSE}
      [] kill = "kill" -> gaming' = FALSE

\* What the record that is written grants for its day.
Grant ==
    /\ granted' = [day |-> mem.day,
                budget |-> IF granted.day = mem.day THEN Larger(granted.budget, rule) ELSE rule]
    /\ cause' = IF mem.blocked = 0 THEN NoBlock
                ELSE [day |-> mem.day,
                      budget |-> IF cause # NoBlock /\ cause.day = mem.day
                                 THEN Smaller(cause.budget, rule) ELSE rule]

\* A tick under a total block gets out of its way and bills nothing.
TickAside ==
    /\ total
    /\ mem' = Today
    /\ ReleaseBlock
    /\ UNCHANGED gaming

TickAccounts ==
    /\ ~total
    /\ LET p == Policy(Accounted, Budget)
       IN  /\ mem' = p.state
           /\ Reconcile(p.mask)
           /\ Killed(p.kill)

Begin ==
    /\ pc = "tick"
    /\ pc' = "price" /\ now' = clock
    /\ UNCHANGED <<clock, live, world, mounts, file, marker, mode, cap, mem, rule, enforcing,
                   restart, cli, copy, used, history>>

Tick ==
    /\ pc = "price"
    /\ TickAside \/ TickAccounts
    /\ pc' = "save" /\ rule' = Budget /\ now' = 0
    /\ owed' = 0 /\ UNCHANGED <<exited, granted, cause>>
    /\ UNCHANGED <<clock, live, screen, total, pacman, file, marker, mode, cap,
                   enforcing, restart, cli, copy>>

\* Nothing of a tick outlives it but what it wrote.
EndTick == mem' = FreshDay(0, 0) /\ rule' = 0 /\ now' = 0

\* The record is written; the loop goes on, or flushes once more and leaves.
Save ==
    /\ pc = "save" /\ mode # "flush"
    /\ file' = mem /\ pc' = "tick" /\ cap' = Clamp /\ Grant /\ EndTick
    /\ mode' = IF mode = "loop" /\ restart THEN "flush" ELSE "loop"
    /\ UNCHANGED <<clock, live, world, mounts, marker, enforcing, restart,
                   cli, copy, used, exited, owed>>

RecordExit ==
    \E written \in BOOLEAN :
        /\ marker' = IF written THEN clock ELSE marker
        /\ exited' = IF written THEN clock ELSE 0
        /\ Faults(~written)

\* flush_for_restart: the exit time is left for the next daemon, if it can be.
Leave ==
    /\ pc = "save" /\ mode = "flush"
    /\ file' = mem /\ pc' = "down" /\ restart' = FALSE /\ Grant /\ EndTick
    /\ mode' = "loop" /\ cap' = Clamp
    /\ RecordExit
    /\ UNCHANGED <<clock, live, world, mounts, enforcing, cli, copy, owed>>

\* systemd starts the daemon; the kill switch may have been turned.
Start ==
    /\ pc = "down"
    /\ pc' = "settle"
    /\ \/ UNCHANGED <<enforcing, used>>
       \/ Happens("switch") /\ enforcing' = ~enforcing
    /\ UNCHANGED <<clock, live, world, mounts, file, marker, mode, cap, now, mem, rule,
                   restart, cli, copy, history>>

\* The marker is deleted, if it can be.
DropMarker ==
    \E left \in {0, marker} : marker' = left /\ Faults(left # 0)

\* Mutant: the first tick after a restart is one like the others.
SettleForgives ==
    /\ pc = "settle"
    /\ mode' = "loop" /\ cap' = Clamp
    /\ DropMarker /\ pc' = "tick" /\ exited' = 0
    /\ owed' = IF exited # 0 /\ clock - exited \in 1..MaxGap THEN clock - exited ELSE 0
    /\ UNCHANGED <<clock, live, world, mounts, file, now, mem, rule, enforcing, restart,
                   cli, copy, granted, cause>>

\* settle_restart_gap: the marker is dropped, then its gap is billed by a tick.
Settle ==
    /\ pc = "settle"
    /\ LET gap == clock - marker
           bills == marker # 0 /\ 0 < gap /\ gap <= MaxGap
       IN  /\ mode' = IF bills THEN "gap" ELSE "loop"
           /\ cap' = IF bills THEN Larger(Clamp, gap + GapSlack) ELSE Clamp
    /\ DropMarker /\ pc' = "tick"
    /\ exited' = 0
    /\ owed' = IF exited # 0 /\ clock - exited \in 1..MaxGap THEN clock - exited ELSE 0
    /\ UNCHANGED <<clock, live, world, mounts, file, now, mem, rule, enforcing, restart,
                   cli, copy, granted, cause>>

RequestRestart ==
    /\ pc \in {"tick", "price", "save"} /\ ~restart
    /\ restart' = TRUE /\ Happens("restart")
    /\ UNCHANGED <<clock, live, world, mounts, file, marker, pc, mode, cap, now, mem,
                   rule, enforcing, cli, copy, history>>

\* The daemon dies; a reboot also ends the games, the mounts and the reset.
Crash ==
    /\ Happens("crash")
    /\ pc' = "down" /\ restart' = FALSE /\ exited' = 0 /\ owed' = 0 /\ EndTick
    /\ mode' = "loop" /\ cap' = Clamp
    /\ \/ pc # "down" /\ UNCHANGED <<mounts, gaming, pacman, cli>>
       \/ /\ mounts' = [t \in Target |-> "free"] /\ gaming' = FALSE
          /\ pacman' = FALSE /\ cli' = "off"
    /\ UNCHANGED <<clock, live, screen, total, file, marker, enforcing, copy, granted, cause>>

-----------------------------------------------------------------------------
\* reset_today from the command line, in a process of its own.
ResetLoad ==
    /\ cli = "off"
    /\ LET before == IF file = NoFile THEN FreshDay(Day(clock), clock)
                     ELSE RollOver(file, Day(clock))
       IN  copy' = [before EXCEPT !.seconds = 0, !.blocked = 0, !.last = clock, !.warned = {}]
    /\ cli' = "loaded"
    /\ \E stuck \in SUBSET Masked :
        mounts' = [t \in Target |-> IF t \in stuck THEN mounts[t] ELSE "free"]
    /\ Happens("reset")
    /\ UNCHANGED <<clock, live, world, file, marker, daemon, history>>

ResetSave ==
    /\ cli = "loaded"
    /\ file' = copy /\ cli' = "off" /\ copy' = FreshDay(0, 0)
    /\ UNCHANGED <<clock, live, world, mounts, marker, daemon, used, history>>

\* gaming-unblock takes the masks off and looks at nothing else.
Unblock ==
    /\ Masked # {}
    /\ mounts' = [t \in Target |-> "free"]
    /\ Happens("reset")
    /\ UNCHANGED <<clock, live, world, file, marker, daemon, cli, copy, history>>

-----------------------------------------------------------------------------
Same == UNCHANGED <<mounts, marker, daemon, cli, copy, history>>

PassTime ==
    /\ clock < MaxTime
    /\ clock' = clock + 1
    /\ UNCHANGED <<live, world, file, used>> /\ Same

\* The wall clock is set, forward or back.
StepClock ==
    /\ clock' \in (1..MaxTime) \ {clock}
    /\ Happens("step")
    /\ exited' = 0 /\ owed' = 0
    /\ UNCHANGED <<live, world, file, mounts, marker, daemon, cli, copy, granted, cause>>

\* A bonus is earned, or an earner resets or does not answer.
Resolve ==
    /\ live' \in Budgets \ {live}
    /\ Happens("price")
    /\ UNCHANGED <<clock, world, file>> /\ Same

\* A game may start whatever is masked: some are counted that need none of the
\* launchers, and not every launcher is a target.
PlayOrStop ==
    /\ gaming' = ~gaming
    /\ UNCHANGED <<clock, live, screen, total, pacman, file, used>> /\ Same

Watch ==
    /\ screen' \in {"paused", "leisure", "free"} \ {screen}
    /\ UNCHANGED <<clock, live, gaming, total, pacman, file, used>> /\ Same

Pacman ==
    /\ pacman' = ~pacman
    /\ IF pacman THEN UNCHANGED used ELSE Happens("pacman")
    /\ UNCHANGED <<clock, live, gaming, screen, total, file>> /\ Same

TotalBlock ==
    /\ total' = ~total
    /\ IF total THEN UNCHANGED used ELSE Happens("block")
    /\ UNCHANGED <<clock, live, gaming, screen, pacman, file>> /\ Same

\* The state file is deleted or becomes unreadable.
LoseFile ==
    /\ file # NoFile
    /\ file' = NoFile
    /\ Happens("delete")
    /\ UNCHANGED <<clock, live, world>> /\ Same

Environment ==
    \/ PassTime \/ StepClock \/ Resolve \/ PlayOrStop \/ Watch
    \/ Pacman \/ TotalBlock \/ LoseFile

Daemon == Begin \/ Tick \/ Save \/ Leave \/ Start \/ Settle

Init ==
    /\ clock = 1 /\ live \in Budgets
    /\ gaming = FALSE /\ screen = "free" /\ total = FALSE /\ pacman = FALSE
    /\ mounts = [t \in Target |-> "free"]
    /\ file = NoFile /\ marker = 0
    /\ pc = "down" /\ mode = "loop" /\ cap = Clamp
    /\ now = 0 /\ mem = FreshDay(0, 0) /\ rule = 0 /\ enforcing = TRUE /\ restart = FALSE
    /\ cli = "off" /\ copy = FreshDay(0, 0)
    /\ used = [k \in Kinds |-> 0]
    /\ exited = 0 /\ owed = 0 /\ granted = [day |-> 0, budget |-> 0] /\ cause = NoBlock

Next == Daemon \/ RequestRestart \/ Crash \/ ResetLoad \/ ResetSave \/ Unblock \/ Environment

Spec == Init /\ [][Next]_vars

FairSpec ==
    /\ Spec
    /\ WF_vars(Daemon) /\ WF_vars(ResetSave) /\ WF_vars(PassTime)
    /\ WF_vars(pacman /\ Pacman)
-----------------------------------------------------------------------------
TypeOK ==
    /\ clock \in 1..MaxTime /\ live \in Budgets
    /\ gaming \in BOOLEAN /\ screen \in {"paused", "leisure", "free"}
    /\ total \in BOOLEAN /\ pacman \in BOOLEAN
    /\ mounts \in [Target -> {"free", "rw", "ro"}]
    /\ file \in Record \cup {NoFile} /\ marker \in Nat
    /\ pc \in {"down", "settle", "tick", "price", "save"} /\ now \in 0..MaxTime
    /\ mode \in {"gap", "loop", "flush"}
    /\ cap \in Nat /\ mem \in Record /\ rule \in Nat
    /\ enforcing \in BOOLEAN /\ restart \in BOOLEAN
    /\ cli \in {"off", "loaded"} /\ copy \in Record
    /\ used \in [Kinds -> Nat]
    /\ exited \in Nat /\ owed \in Nat /\ granted \in [day : Nat, budget : Nat]
    /\ cause \in [day : Nat, budget : Nat] \cup {NoBlock}

\* The enforced count never runs ahead of the shadow count it shares its stamp
\* and clamp with (_shadow.py), whatever clocks, restarts and rollovers do;
\* only a record made up for a lost file is allowed to.
Covered(s) == s.seconds <= s.measured
ShadowCoversEnforced ==
    used.delete = 0 => Covered(mem) /\ Covered(copy) /\ (file # NoFile => Covered(file))

\* What a day has granted is held (held_today): no earner that resets, no restart
\* and no death of the daemon prices the same day lower again.  A lost file and a
\* reset that writes the record it read before are exceptions, and so is a tick at
\* whose second look at the clock the day has changed.
HeldThroughTheDay ==
    [][pc = "price" /\ pc' = "save" /\ used.delete = 0 /\ used.reset = 0
        /\ granted.day = Day(now) /\ Day(clock) = Day(now) => rule' >= granted.budget]_vars

\* While the record last written says blocked, a mask comes off for a cause: a
\* new day, a higher budget than the one that was spent, a reset, a total block,
\* the kill switch or a reboot; never for a restart, a lost state file or a clock
\* that goes back within the day.
MaskComesOffForCause ==
    [][cause # NoBlock /\ (\E t \in Target : mounts[t] # "free" /\ mounts'[t] = "free") =>
        \/ total \/ ~enforcing \/ used'.reset > 0 \/ used'.crash > used.crash
        \/ pc = "price" /\ Day(now) # cause.day
        \/ rule' > cause.budget]_vars

\* A requested restart is no free play: the first tick after it bills at least
\* its downtime if a game runs, wherever the day ends in between.
RestartIsNoFreePlay ==
    [][pc = "price" /\ owed # 0 /\ owed' = 0 /\ pc' = "save" /\ ~total /\ gaming
        /\ screen # "paused" /\ used.step = 0 /\ used.reset = 0 /\ used.delete = 0
        => mem'.seconds - Today.seconds >= owed]_vars

\* But for a reset or a lost file, spent time comes back with a later day only:
\* within a day the count never falls, even if the clock goes back (bill), and
\* while nobody sets the clock no record gives way to that of an earlier day.  A
\* step to another day and back does begin the day anew (roll_over).
SpentOnlyGrows ==
    [][file # NoFile /\ file' # NoFile /\ used.reset = 0 /\ used.delete = 0 =>
        IF file'.day = file.day THEN file'.seconds >= file.seconds
        ELSE used.step = 0 => file'.day > file.day]_vars

\* The last record is spent and blocked early enough for the kill to come, and
\* nothing the policy yields to stands in the way.
Spent ==
    /\ file # NoFile /\ file.day = Day(clock)
    /\ file.blocked > 0 /\ file.blocked + SigkillAfter <= MaxTime
    /\ Budget <= file.seconds
    /\ ~total /\ ~pacman /\ enforcing

\* A spent budget ends with every launcher masked, and with every game that is
\* started all the same killed again, through mounts that fail, a transaction of
\* pacman, a crash, and a reset whose record is overwritten.
SpentIsEnforced == <>[]Spent => <>[](Masked = Target) /\ []<>~gaming

\* With time left, every launcher is released and stays so: a mask that could not
\* be taken off, or that a tick put back on beside a reset, is not forgotten.
LeftIsReleased ==
    <>[](file # NoFile /\ file.day = Day(clock) /\ file.seconds < file.high) => <>[](Masked = {})

\* What is enforced in the end follows the budget, both ways.
BlockFollowsBudget == SpentIsEnforced /\ LeftIsReleased
=============================================================================
