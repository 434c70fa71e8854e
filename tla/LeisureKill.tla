------------------------------ MODULE LeisureKill ------------------------------
(***************************************************************************)
(* The leisure kill: once the budget is spent, every tick signals the      *)
(* processes the watcher names, SIGTERM first and SIGKILL from Patience    *)
(* after a process's own SIGTERM; a watcher that cannot be trusted for     *)
(* SweepAfter in a row lets it sweep browsers and players.                 *)
(*                                                                         *)
(* A process is its pid and start time.  Stamps appear as ages: how long   *)
(* ago, by the wall clock, a process was signalled or the watcher was lost.*)
(***************************************************************************)
EXTENDS Integers, Functions

CONSTANTS
    Pids,           \* process ids, which are reused
    MaxStart,       \* bound on the processes a pid may name one after the other
    Patience,       \* SIGKILL_AFTER_SECONDS
    SweepAfter,     \* UNTRUSTED_SWEEP_AFTER
    MaxTickGap,     \* _MAX_TICK_GAP
    Gaps,           \* time between two ticks
    Jumps,          \* jumps of the wall clock
    MaxJumps        \* bound on their number

ASSUME LeisureKillAssumption ==
    /\ MaxStart \in Nat /\ Patience \in Nat \ {0} /\ SweepAfter \in Nat \ {0}
    /\ MaxTickGap \in Nat /\ Gaps \subseteq Nat \ {0} /\ Jumps \subseteq Int /\ MaxJumps \in Nat
    /\ Pids \subseteq Nat \ {0}

VARIABLES
    procs,          \* the process of each pid: its start and kind, Dead if none
    starts,         \* how many processes a pid has named
    watch,          \* the watcher's verdict
    spent,          \* the budget is spent
    termed,         \* _termed: age of the SIGTERM of a process
    lost,           \* age of _untrusted_since, or Trusted
    warned,         \* history: time that really passed since a process's SIGTERM
    blind,          \* history: whether each tick of the last SweepAfter was blind
    sent,           \* history: the signals of the last tick
    jumps,          \* how many jumps of the wall clock are left
    jumped          \* history: the wall clock jumped forward

killVars == <<procs, starts, watch, spent, termed, lost, warned, blind, sent, jumps, jumped>>

ProcKinds == {"player", "browser", "spared"}
Dead == [start |-> 0, kind |-> "none"]
Trusted == -1 - SweepAfter
Process == [start: 1..MaxStart, kind: ProcKinds]
Reasons == [state: {"fact"}, pid: Pids, failclosed: BOOLEAN, start: 0..MaxStart]
Paused == [state |-> "paused", pid |-> 0, failclosed |-> FALSE, start |-> 0]
Untrusted == [Paused EXCEPT !.state = "untrusted"]
Reported == watch.state = "fact"
Ident == Pids \X (1..MaxStart)

LeisureKillTypeOK ==
    /\ procs \in [Pids -> Process \cup {Dead}] /\ starts \in [Pids -> 0..MaxStart]
    /\ watch \in Reasons \cup {Paused, Untrusted} /\ spent \in BOOLEAN
    /\ DOMAIN termed \subseteq Ident /\ Range(termed) \subseteq Int
    /\ lost \in {Trusted} \cup 0..SweepAfter /\ DOMAIN warned \subseteq Ident /\ Range(warned) \subseteq Nat
    /\ blind \in Nat /\ jumps \in 0..MaxJumps /\ jumped \in BOOLEAN

(***************************************************************************)
(* Targets.  A reason names a pid, and the start it saw if it knows one.   *)
(***************************************************************************)
FactTargets ==
    IF watch.failclosed \/ procs[watch.pid].kind # "browser" THEN {watch.pid} ELSE {}
SweepTargets == {p \in Pids : procs[p].kind \in {"player", "browser"}}

\* Mutant: a pid that is gone is not left out.
MayKillGone(p) == procs[p].kind # "spared"

\* Session programs, lockers, other users' processes and the daemon are spared.
MayKill(p) == procs[p] # Dead /\ procs[p].kind # "spared"

\* Mutant: the start a reason saw is not compared.
IdentifyAnyone(targets) == {<<p, procs[p].start>> : p \in {q \in targets : MayKill(q)}}

Identify(targets) ==
    {<<p, procs[p].start>> : p \in {q \in targets : MayKill(q)
        /\ (Reported /\ watch.start # 0 => watch.start = procs[q].start)}}

(***************************************************************************)
(* One tick.                                                               *)
(***************************************************************************)
Capped(n, cap) == IF n > cap THEN cap ELSE n
Aged(ages, d, cap) == [i \in DOMAIN ages |-> Capped(ages[i] + d, cap)]

UntrustedFor(gap) ==
    IF watch # Untrusted THEN Trusted
    ELSE IF lost = Trusted \/ gap < 0 \/ gap > MaxTickGap THEN 0
    ELSE Capped(lost + gap, SweepAfter)

Signals(live, ages, dt) ==
    {[id |-> i, kind |-> procs[i[1]].kind, start |-> procs[i[1]].start,
      sig |-> IF i \notin DOMAIN ages THEN "TERM" ELSE "KILL",
      since |-> IF i \in DOMAIN warned THEN Capped(warned[i] + dt, Patience) ELSE 0] :
        i \in {j \in live : j \notin DOMAIN ages \/ ages[j] >= Patience}}

\* A process that gets SIGKILL is gone; one that gets SIGTERM may go.
Struck(signals) ==
    [p \in Pids |-> IF \E s \in signals : s.id[1] = p /\ s.sig = "KILL"
                    THEN Dead ELSE procs[p]]

\* Mutant: every tick stamps the SIGTERM anew.
KeptFresh(ages, live) == [i \in DOMAIN ages \cap live |-> 0]

Kept(ages, live) == Restrict(ages, DOMAIN ages \cap live)

EnforceOn(targets, ages, dt) ==
    LET live == Identify(targets)
        kept == Kept(ages, live)
        struck  == Signals(live, kept, dt)
    IN  /\ termed' = [i \in live |-> IF i \in DOMAIN kept THEN kept[i] ELSE 0]
        /\ sent' = struck /\ procs' = Struck(struck)
        /\ warned' = [i \in DOMAIN warned \cup {<<s.id[1], s.start>> : s \in struck} |->
                        IF i \in DOMAIN warned THEN Capped(warned[i] + dt, Patience) ELSE 0]

\* Mutant: signals of an earlier spent budget are remembered.
RelaxRemembers(ages) == termed' = ages

Relax(ages) == termed' = <<>>

KillTick ==
    \E dt \in Gaps, step \in {0} \cup (IF jumps > 0 THEN Jumps ELSE {}) :
        LET gap == dt + step
            ages == Aged(termed, gap, Patience)
        IN  /\ lost' = UntrustedFor(gap)
            /\ blind' = IF watch = Untrusted
                        THEN (IF blind > 0 /\ gap \in 0..MaxTickGap THEN Capped(blind + gap, SweepAfter + 1)
                              ELSE 1)
                        ELSE 0
            /\ jumps' = IF step = 0 THEN jumps ELSE jumps - 1
            /\ jumped' = (jumped \/ step > 0)
            /\ IF ~spent
               THEN Relax(ages) /\ warned' = <<>> /\ sent' = {} /\ UNCHANGED procs
               ELSE IF Reported THEN EnforceOn(FactTargets, ages, dt)
               ELSE IF watch = Untrusted /\ UntrustedFor(gap) >= SweepAfter
               THEN EnforceOn(SweepTargets, ages, dt)
               ELSE /\ termed' = ages /\ warned' = Aged(warned, dt, Patience)
                    /\ sent' = {} /\ UNCHANGED procs
    /\ UNCHANGED <<starts, watch, spent>>

(***************************************************************************)
(* The processes, the watcher and the budget.                              *)
(***************************************************************************)
ProcessStarts(p) ==
    /\ procs[p] = Dead /\ starts[p] < MaxStart
    /\ starts' = [starts EXCEPT ![p] = @ + 1]
    /\ \E k \in ProcKinds : procs' = [procs EXCEPT ![p] = [start |-> starts[p] + 1, kind |-> k]]
    /\ UNCHANGED <<watch, spent, termed, lost, warned, blind, jumps, jumped>> /\ sent' = {}

ProcessExits(p) ==
    /\ procs[p] # Dead /\ procs' = [procs EXCEPT ![p] = Dead] /\ sent' = {}
    /\ UNCHANGED <<starts, watch, spent, termed, lost, warned, blind, jumps, jumped>>

\* The watcher reports a process it sees, which may be gone when a tick reads it.
WatcherReports ==
    /\ \/ watch' \in {Paused, Untrusted}
       \/ \E p \in Pids, f \in BOOLEAN :
             /\ procs[p] # Dead
             /\ \E s \in {0, procs[p].start} :
                   watch' = [state |-> "fact", pid |-> p, failclosed |-> f, start |-> s]
    /\ sent' = {}
    /\ UNCHANGED <<procs, starts, spent, termed, lost, warned, blind, jumps, jumped>>

BudgetMoves ==
    /\ spent' = ~spent /\ sent' = {}
    /\ UNCHANGED <<procs, starts, watch, termed, lost, warned, blind, jumps, jumped>>

KillInit ==
    /\ procs = [p \in Pids |-> Dead] /\ starts = [p \in Pids |-> 0]
    /\ watch = Untrusted /\ spent = FALSE /\ termed = <<>> /\ lost = Trusted
    /\ warned = <<>> /\ blind = 0 /\ sent = {} /\ jumps = MaxJumps /\ jumped = FALSE

KillNext ==
    \/ KillTick \/ WatcherReports \/ BudgetMoves
    \/ \E p \in Pids : ProcessStarts(p) \/ ProcessExits(p)

\* The enforce loop comes round.
KillFairness == WF_killVars(KillTick)
KillSpec == KillInit /\ [][KillNext]_killVars /\ KillFairness

(***************************************************************************)
(* Properties.                                                             *)
(***************************************************************************)
\* A process that gets SIGKILL got a SIGTERM itself, in this spell of a spent
\* budget and at least Patience earlier, however pids are reused, unless the
\* wall clock jumped forward (_leisure_kill.py:188).
FairWarning ==
    \A s \in sent : s.sig = "KILL" /\ ~jumped => s.since >= Patience

\* A browser nobody reported as silent is signalled only if every tick of the
\* last SweepAfter, none of them late, found the watcher untrusted
\* (_leisure_kill.py:193).
SweptOnlyWhenBlind ==
    \A s \in sent : s.kind = "browser" =>
        \/ Reported /\ watch.failclosed
        \/ blind > SweepAfter

\* A report that says which process it saw never strikes a later one of the
\* same pid (_leisure_kill.py:212).
ReportNamesOne ==
    \A s \in sent : (Reported /\ watch.start # 0) => s.start = watch.start

\* A signal is the right one for the right process.
SignalsAreDue == FairWarning /\ SweptOnlyWhenBlind /\ ReportNamesOne

\* A process that stays reported while the budget stays spent ends (_leisure_kill.py:188).
NamedEnds ==
    \A p \in Pids :
        []<>~(spent /\ Reported /\ <<p, procs[p].start>> \in Identify(FactTargets))
=============================================================================
