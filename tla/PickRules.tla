------------------------------ MODULE PickRules ------------------------------
(***************************************************************************)
(* The record state.json holds about the assigned game and the manual      *)
(* picks, and the functions of steam_backlog_enforcer that read and change *)
(* it: what is allowed, what is locked, what releases a game.  They are    *)
(* pure functions of that record, of the clock and of what Steam says      *)
(* about unlocks; Picks.tla runs them in the commands.                     *)
(***************************************************************************)
EXTENDS Integers, Sequences, FiniteSets

CONSTANTS
    App,          \* the games of the library
    NoApp,        \* current_app_id is None: not an element of App
    MaxPicks,     \* Config.max_manual_picks
    LockDays,     \* MANUAL_LOCK_DAYS, 14
    AbandonDays,  \* ABANDON_COOLDOWN_DAYS, 30
    ReleaseDays,  \* RELEASE_COOLDOWN_DAYS, 7
    SkipDays      \* the cooldown of a declined candidate, 7

ASSUME RulesAssumption ==
    /\ IsFiniteSet(App)
    /\ NoApp \notin App
    /\ MaxPicks \in Nat \ {0}
    /\ {LockDays, AbandonDays, ReleaseDays, SkipDays} \subseteq Nat \ {0}

\* Days since the beginning.  0 is "no timestamp"; the clock starts at 1.
Time == Nat
NoTime == 0

\* An entry of manual_picks; released stands for a non-empty released_at.
Pick == [app : App, started : Time, released : BOOLEAN]

\* State: current is current_app_id, assigned is current_assigned_at, skipped
\* maps a game to the end of its cooldown.
Record == [current : App \cup {NoApp}, assigned : Time, picks : Seq(Pick),
           finished : SUBSET App, skipped : [App -> Time]]

Fresh == [current |-> NoApp, assigned |-> NoTime, picks |-> <<>>,
          finished |-> {}, skipped |-> [a \in App |-> NoTime]]

-----------------------------------------------------------------------------
(* Lists. *)

Elements(l) == {l[i] : i \in DOMAIN l}

\* The index of a set I of indices that has k - 1 others before it.
Nth(I, k) == CHOOSE i \in I : Cardinality({j \in I : j <= i}) = k

\* The entries of list l that are in set K, in their order.
Only(l, K) ==
    LET I == {i \in DOMAIN l : l[i] \in K}
    IN  [k \in 1..Cardinality(I) |-> l[Nth(I, k)]]

-----------------------------------------------------------------------------
(* What the record says. *)

IsActive(s, e, now) ==
    /\ e.app \notin s.finished
    /\ ~e.released
    /\ now < e.started + LockDays

Active(s, now) == {e \in Elements(s.picks) : IsActive(s, e, now)}
ActiveApps(s, now) == {e.app : e \in Active(s, now)}
Locked(s, now) == Active(s, now) # {}

Stored(s) == {e.app : e \in Elements(s.picks)}
Allowed(s) == Stored(s) \cup ({s.current} \ {NoApp})

\* allowed_cap_refusal.
Fits(s, adding) == Cardinality(Allowed(s)) < MaxPicks + 1 \/ adding \in Allowed(s)

\* The games the next assignment may be chosen from.
Open(s, now) == {a \in App \ s.finished : s.skipped[a] <= now}

\* assignment_baseline: an active pick counts from its own start, the current
\* game from its assignment, any other game never.
Baseline(s, a, now) ==
    IF a \in ActiveApps(s, now) THEN (CHOOSE e \in Active(s, now) : e.app = a).started
    ELSE IF a = s.current THEN s.assigned ELSE NoTime

\* release_verdict; unlocked is the time of the newest unlock of each game and
\* complete the games at 100%.
Earned(s, a, now, unlocked, complete) ==
    \/ a \in complete
    \/ Baseline(s, a, now) # NoTime /\ unlocked[a] > Baseline(s, a, now)

-----------------------------------------------------------------------------
(* What changes it. *)

\* skip_for_days.
Skip(s, a, until) == [s EXCEPT !.skipped[a] = until]

\* record_assignment.
Assign(s, a, at) == [s EXCEPT !.current = a, !.assigned = at]

\* The entries of the games D are stamped, those games may not be chosen until then.
Stamped(l, D) == [i \in DOMAIN l |-> [l[i] EXCEPT !.released = @ \/ l[i].app \in D]]
Cooled(f, D, until) == [a \in App |-> IF a \in D THEN until ELSE f[a]]

\* release_game, for each game of the set D.
Release(s, D, now, complete) ==
    [s EXCEPT !.finished = @ \cup (D \cap complete),
              !.picks = Stamped(@, D),
              !.skipped = Cooled(@, D, now + ReleaseDays)]

\* keep_outgoing_assignment: the assigned game becomes a released pick, unless
\* it is a stored pick already.
Park(s, now) ==
    IF s.current = NoApp \/ s.current \in Stored(s) THEN s
    ELSE [s EXCEPT !.picks = Append(@, [app |-> s.current,
                                        started |-> IF s.assigned = NoTime THEN now ELSE s.assigned,
                                        released |-> TRUE])]

\* Mutant of DropInactive: every pick goes.
DropAll(s, now) == [s EXCEPT !.picks = <<>>]

\* drop_inactive_picks.
DropInactive(s, now) == [s EXCEPT !.picks = Only(@, Active(s, now))]

\* The picks without those of game a.
Without(s, a) == [s EXCEPT !.picks = Only(@, {e \in Elements(s.picks) : e.app # a})]

\* _assign_chosen_game, without and with keep.
Replace(s, a, now) == Assign(DropInactive(s, now), a, now)
Keep(s, a, now) == Assign(Park(s, now), a, now)

\* apply_manual_pick: its three refusals.
MayPick(s, a, now) ==
    /\ a \notin ActiveApps(s, now)
    /\ Cardinality(Active(s, now)) < MaxPicks
    /\ Fits(s, a)

\* Mutant of AddPick: a pick that is stored already is not taken out first.
AddPickAgain(s, a, now) ==
    LET kept == IF s.current = a THEN s ELSE Park(s, now)
        pick == [app |-> a, started |-> now, released |-> FALSE]
    IN  Assign([kept EXCEPT !.picks = Append(@, pick)], a, now)

\* apply_manual_pick: what it does.
AddPick(s, a, now) ==
    LET rest == Without(s, a)
        kept == IF s.current = a THEN rest ELSE Park(rest, now)
        pick == [app |-> a, started |-> now, released |-> FALSE]
    IN  Assign([kept EXCEPT !.picks = Append(@, pick)], a, now)

\* The last of the active picks, or of all of them if none is active.
Survivor(s, now) ==
    LET active == Only(s.picks, Active(s, now))
        heirs == IF active = <<>> THEN s.picks ELSE active
    IN  heirs[Len(heirs)]

\* abandon_manual_pick: the assignment goes to a survivor, with its old start.
Abandon(s, a, now) ==
    LET rest == Skip(Without(s, a), a, now + AbandonDays)
    IN  IF s.current # a THEN rest
        ELSE IF rest.picks = <<>> THEN Assign(rest, NoApp, NoTime)
        ELSE Assign(rest, Survivor(rest, now).app, Survivor(rest, now).started)

\* cmd_reset; the cooldowns are not reset.
Reset(s) == [Fresh EXCEPT !.skipped = s.skipped]

-----------------------------------------------------------------------------
(* What every record written by the rules has in common. *)

OneEntryPerGame(s) ==
    \A i, k \in DOMAIN s.picks : s.picks[i].app = s.picks[k].app => i = k

\* At most MaxPicks games are locked in.
LocksInCap(s, now) == Cardinality(ActiveApps(s, now)) <= MaxPicks

\* At most MaxPicks + 1 games are allowed.
GamesInCap(s) == Cardinality(Allowed(s)) <= MaxPicks + 1

\* No assignment is not a state picks can hide in.
NoneMeansNoPicks(s) == s.current = NoApp => Stored(s) = {}

WellFormed(s, now) ==
    OneEntryPerGame(s) /\ LocksInCap(s, now) /\ GamesInCap(s) /\ NoneMeansNoPicks(s)
=============================================================================
