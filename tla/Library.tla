-------------------------------- MODULE Library --------------------------------
(***************************************************************************)
(* The Steam library: which games are allowed, which are installed, whether *)
(* Steam is open, and the runs of the fast installer, as the daemon's pass, *)
(* an install or uninstall job, and the user change them.                  *)
(*                                                                         *)
(* Every process works on the copy of the state it loaded and knows only   *)
(* the installer runs it started itself; all of them see in /proc whether  *)
(* any runs.  The installer closes Steam, works, and opens it again.       *)
(***************************************************************************)
EXTENDS Integers

CONSTANTS
    Games,          \* Steam apps
    Adders,         \* callers of add-exception
    LibraryEvents   \* bound on what the user and the world do

ASSUME LibraryAssumption == LibraryEvents \in Nat /\ "nothing" \notin Games

VARIABLES
    allowed,        \* allowed_app_ids of the state file
    approved,       \* approved_exceptions.json
    zero,           \* zero_achievement_ids
    manifest,       \* the app manifest of each game
    playing,        \* the game that runs
    client,         \* Steam is "open" or "closed"
    actor,          \* the daemon and a job
    run,            \* the installer run each of them started last
    adder,          \* each caller of add-exception: the list it loaded
    stayed,         \* history: what was allowed, and what protected, ever since an
                    \* actor loaded and until it removed
    since,          \* history: an installer started since the actor looked
    left            \* how many events are left

libraryVars == <<allowed, approved, zero, manifest, playing, client, actor, run,
                 adder, stayed, since, left>>

Actors == {"daemon", "job"}
Away == [pc |-> "away", copy |-> {}, todo |-> {}, app |-> "nothing", failed |-> {}, ask |-> FALSE]
NoRun == [stage |-> "none", app |-> "nothing", owned |-> FALSE]
NotAdding == [pc |-> "off", copy |-> {}]
Stages == {"none", "starting", "loading", "stalled", "leaving", "ok", "bad"}

LibraryTypeOK ==
    /\ allowed \subseteq Games /\ approved \subseteq Games /\ zero \subseteq Games
    /\ manifest \in [Games -> {"none", "queued", "full"}]
    /\ playing \in Games \cup {"nothing"} /\ client \in {"open", "closed"}
    /\ actor \in [Actors ->
          [pc: {"away", "idle", "guard", "confirm", "poll", "next", "spawn", "wait", "hide", "launch"},
           copy: SUBSET Games, todo: SUBSET Games, app: Games \cup {"nothing"},
           failed: SUBSET Games, ask: BOOLEAN]]
    /\ run \in [Actors -> [stage: Stages, app: Games \cup {"nothing"}, owned: BOOLEAN]]
    /\ adder \in [Adders -> [pc: {"off", "loaded"}, copy: SUBSET Games]]
    /\ stayed \in [Actors -> [allowed: SUBSET Games, protected: SUBSET Games]] /\ since \in [Actors -> BOOLEAN]
    /\ left \in 0..LibraryEvents

(***************************************************************************)
(* What the processes look up.                                             *)
(***************************************************************************)
\* Runtimes and Proton versions, which are protected too, are not in Games.
Protected == approved \cup zero
MayStay == [allowed |-> allowed, protected |-> Protected]
Nothing == [allowed |-> {}, protected |-> {}]

\* Mutant: whether a game is protected is not asked.
RemovableUnlessAllowed(p) == {g \in Games : manifest[g] # "none" /\ g \notin actor[p].copy}

\* uninstall_game: without its manifest a game is gone, files or not.
Uninstalled(gone) == [g \in Games |-> IF g \in gone THEN "none" ELSE manifest[g]]

Removable(p) == {g \in Games : manifest[g] # "none" /\ g \notin actor[p].copy \cup Protected}

Live(p) == run[p].stage \in {"starting", "loading", "stalled", "leaving"}
FastInstallRunning == \E p \in Actors : Live(p)
IsFastInstalling(p, g) == Live(p) /\ run[p].owned /\ run[p].app = g

Goes(p, pc) == actor' = [actor EXCEPT ![p].pc = pc]
Event == left > 0 /\ left' = left - 1

(***************************************************************************)
(* The pass of the daemon, and the start, which asks Steam itself (ask).    *)
(***************************************************************************)
PassLoads(p) ==
    /\ actor[p].pc \in {"away", "idle"} /\ allowed # {}
    /\ actor' = [actor EXCEPT ![p] = [@ EXCEPT !.pc = "guard", !.ask = (actor[p].pc = "away"),
                                               !.copy = allowed]]
    /\ stayed' = [stayed EXCEPT ![p] = MayStay]
    /\ UNCHANGED <<allowed, approved, zero, manifest, playing, client, run, adder, since, left>>

\* A game that is not allowed is asked to end and uninstalled; either may fail.
PassGuards(p) ==
    /\ actor[p].pc = "guard" /\ Goes(p, "poll")
    /\ playing' \in IF playing \in actor[p].copy \cup Protected THEN {playing}
                    ELSE {playing, "nothing"}
    /\ \E gone \in SUBSET Removable(p) : manifest' = Uninstalled(gone)
    /\ stayed' = [stayed EXCEPT ![p] = Nothing]
    /\ UNCHANGED <<allowed, approved, zero, client, run, adder, since, left>>

(***************************************************************************)
(* Installing.                                                             *)
(***************************************************************************)
\* Mutant: a silent run is left alone.
InterruptedNever(r) == r

\* A stalled run is interrupted, which makes it open Steam again and end.
Interrupted(r) == IF r.stage = "stalled" THEN [r EXCEPT !.stage = "leaving"] ELSE r

\* poll_fast_installs: a run that ended is reaped, its failure remembered.
Reaped(r) == IF r.stage \in {"ok", "bad"} THEN NoRun ELSE Interrupted(r)
FailedBy(p) == actor[p].failed \cup (IF run[p].stage = "bad" THEN {run[p].app} ELSE {})
Polls(p) == run' = [run EXCEPT ![p] = IF @.owned THEN Reaped(@) ELSE @]

\* The start looks for games that are not complete, a pass for missing ones.
PassPolls(p) ==
    /\ actor[p].pc = "poll" /\ Polls(p)
    /\ LET missing == {g \in actor[p].copy :
                          manifest[g] = "none" \/ (actor[p].ask /\ manifest[g] # "full")}
       IN  actor' = [actor EXCEPT ![p] =
              [@ EXCEPT !.pc = "next", !.failed = FailedBy(p), !.todo = missing]]
    /\ UNCHANGED <<allowed, approved, zero, manifest, playing, client, adder, stayed, since, left>>

\* _install_precheck: a live installer, of whomever, defers every install.
InstallLooks(p) ==
    /\ actor[p].pc = "next"
    /\ \E g \in actor[p].todo :
          LET pc == IF manifest[g] = "full" \/ FastInstallRunning THEN "next" ELSE "spawn"
          IN  actor' = [actor EXCEPT ![p] =
                 [@ EXCEPT !.todo = actor[p].todo \ {g}, !.app = g, !.pc = pc]]
    /\ since' = [since EXCEPT ![p] = FALSE]
    /\ UNCHANGED <<allowed, approved, zero, manifest, playing, client, run, adder, stayed, left>>

InstallsDone(p) ==
    /\ actor[p].pc = "next" /\ actor[p].todo = {}
    /\ actor' = [actor EXCEPT ![p] =
           IF p = "job" THEN Away
           ELSE [Away EXCEPT !.pc = IF actor[p].ask THEN "hide" ELSE "idle", !.failed = actor[p].failed]]
    /\ UNCHANGED <<allowed, approved, zero, manifest, playing, client, run, adder, stayed, since, left>>

Queued(g) == [manifest EXCEPT ![g] = IF @ = "none" THEN "queued" ELSE @]

\* fast_install starts a run unless it failed before or a game runs.
FastInstall(p) ==
    LET g == actor[p].app
    IN  /\ actor[p].pc = "spawn" /\ g \notin actor[p].failed /\ playing = "nothing"
        /\ ~Live(p)
        /\ manifest' = Queued(g)
        /\ run' = [run EXCEPT ![p] = [stage |-> "starting", app |-> g, owned |-> TRUE]]
        /\ since' = [q \in Actors |-> since[q] \/ q # p]
        /\ Goes(p, IF p = "job" THEN "wait" ELSE "next")
        /\ UNCHANGED <<allowed, approved, zero, playing, client, adder, stayed, left>>

\* The fallback: Steam is asked to install it, or a manifest is left for it.
Fallback(p) ==
    LET g == actor[p].app
        opened == IF FastInstallRunning THEN client ELSE "open"
    IN  /\ actor[p].pc = "spawn" /\ (g \in actor[p].failed \/ playing # "nothing")
        /\ IF manifest[g] # "none" THEN UNCHANGED <<manifest, client>>
           ELSE IF actor[p].ask
           THEN manifest' \in {manifest, Queued(g)} /\ client' = "open"
           ELSE manifest' = Queued(g) /\ client' = opened
        /\ Goes(p, "next")
        /\ UNCHANGED <<allowed, approved, zero, playing, run, adder, stayed, since, left>>

\* A job waits for its run; if that failed the fallback is next.
JobWaits ==
    /\ actor["job"].pc = "wait" /\ Polls("job")
    /\ LET pc == CASE run["job"].stage = "ok"  -> "away"
                   [] run["job"].stage = "bad" -> "spawn"
                   [] OTHER                    -> "wait"
       IN  actor' = [actor EXCEPT !["job"] = [@ EXCEPT !.failed = FailedBy("job"), !.pc = pc]]
    /\ UNCHANGED <<allowed, approved, zero, manifest, playing, client, adder, stayed, since, left>>

\* Mutant: hiding launches Steam without a look for an installer.
HideLooksNot(p) == actor[p].pc = "hide" /\ Goes(p, "launch") /\ since' = [since EXCEPT ![p] = FALSE]
    /\ UNCHANGED <<allowed, approved, zero, manifest, playing, client, run, adder, stayed, left>>

\* steam_update_in_progress, of what is queued; assert_safe_to_restart.
MayUpdate == client = "open" /\ \E g \in Games : manifest[g] = "queued"
RestartSafe(updating) == playing = "nothing" /\ ~updating

\* ensure_steam_debug_port: not under an installer, and a client that runs is
\* not restarted over a game or an update.
HideLooks(p) ==
    /\ actor[p].pc = "hide"
    /\ \E updating \in {FALSE, MayUpdate} :
          Goes(p, IF FastInstallRunning \/ ~RestartSafe(updating) THEN "idle" ELSE "launch")
    /\ since' = [since EXCEPT ![p] = FALSE]
    /\ UNCHANGED <<allowed, approved, zero, manifest, playing, client, run, adder, stayed, left>>

HideLaunches(p) ==
    /\ actor[p].pc = "launch" /\ client' = "open" /\ Goes(p, "idle")
    /\ UNCHANGED <<allowed, approved, zero, manifest, playing, run, adder, stayed, since, left>>

(***************************************************************************)
(* The jobs.                                                               *)
(***************************************************************************)
JobStarts ==
    /\ actor["job"].pc = "away" /\ run["job"].stage = "none" /\ allowed # {} /\ Event
    /\ \/ \E g \in {h \in allowed : manifest[h] # "full"} :
             actor' = [actor EXCEPT !["job"] = [Away EXCEPT !.pc = "next", !.copy = allowed,
                                                            !.todo = {g}, !.ask = TRUE]]
       \/ actor' = [actor EXCEPT !["job"] = [Away EXCEPT !.pc = "confirm", !.copy = allowed]]
    /\ stayed' = [stayed EXCEPT !["job"] = MayStay]
    /\ UNCHANGED <<allowed, approved, zero, manifest, playing, client, run, adder, since>>

JobUninstalls ==
    /\ actor["job"].pc = "confirm" /\ actor' = [actor EXCEPT !["job"] = Away]
    /\ \E gone \in SUBSET Removable("job") : manifest' = Uninstalled(gone)
    /\ stayed' = [stayed EXCEPT !["job"] = Nothing]
    /\ UNCHANGED <<allowed, approved, zero, playing, client, run, adder, since, left>>

\* A process that dies leaves its run to itself: it is in a scope of its own.
Dies(p) ==
    /\ actor[p].pc # "away" /\ Event
    /\ actor' = [actor EXCEPT ![p] = Away] /\ stayed' = [stayed EXCEPT ![p] = Nothing]
    /\ run' = [run EXCEPT ![p] = IF Live(p) THEN [@ EXCEPT !.owned = FALSE] ELSE NoRun]
    /\ UNCHANGED <<allowed, approved, zero, manifest, playing, client, adder, since>>

(***************************************************************************)
(* The installer.                                                          *)
(***************************************************************************)
Ends(p, how) == run' = [run EXCEPT ![p] = IF run[p].owned THEN [@ EXCEPT !.stage = how] ELSE NoRun]

\* Steam is closed, and with it a game that was started since.
RunCloses(p) ==
    /\ run[p].stage = "starting" /\ run' = [run EXCEPT ![p].stage = "loading"]
    /\ client' = "closed" /\ playing' = "nothing"
    /\ UNCHANGED <<allowed, approved, zero, manifest, actor, adder, stayed, since, left>>

\* Only a manifest that is there is finished.
RunEnds(p) ==
    /\ run[p].stage \in {"loading", "leaving"} /\ client' = "open"
    /\ \/ Ends(p, "bad") /\ UNCHANGED manifest
       \/ /\ run[p].stage = "loading" /\ manifest[run[p].app] # "none" /\ Ends(p, "ok")
          /\ manifest' = [manifest EXCEPT ![run[p].app] = "full"]
    /\ UNCHANGED <<allowed, approved, zero, playing, actor, adder, stayed, since, left>>

RunStalls(p) ==
    /\ run[p].stage = "loading" /\ Event /\ run' = [run EXCEPT ![p].stage = "stalled"]
    /\ UNCHANGED <<allowed, approved, zero, manifest, playing, client, actor, adder, stayed, since>>

\* A run that is killed does not open Steam again.
RunKilled(p) ==
    /\ Live(p) /\ Event /\ Ends(p, "bad")
    /\ UNCHANGED <<allowed, approved, zero, manifest, playing, client, actor, adder, stayed, since>>

(***************************************************************************)
(* The user, Steam, and the commands that change what may stay.            *)
(***************************************************************************)
StillAllowed(kept) == stayed' = [p \in Actors |-> [stayed[p] EXCEPT !.allowed = @ \cap kept]]
StillProtected(kept) == stayed' = [p \in Actors |-> [stayed[p] EXCEPT !.protected = @ \cap kept]]

Assign ==
    /\ Event /\ allowed' \in SUBSET Games \ {allowed}
    /\ StillAllowed(allowed')
    /\ UNCHANGED <<approved, zero, manifest, playing, client, actor, run, adder, since>>

\* A scan confirms games without achievements, and takes back others.
RecordScan ==
    /\ Event /\ zero' \in SUBSET Games \ {zero}
    /\ StillProtected(approved \cup zero')
    /\ UNCHANGED <<allowed, approved, manifest, playing, client, actor, run, adder, since>>

\* add_pending_exception: the list is read, appended to and saved.
AddLoads(s) ==
    /\ adder[s].pc = "off" /\ approved # Games /\ Event
    /\ adder' = [adder EXCEPT ![s] = [pc |-> "loaded", copy |-> approved]]
    /\ UNCHANGED <<allowed, approved, zero, manifest, playing, client, actor, run, stayed, since>>

AddSaves(s) ==
    /\ adder[s].pc = "loaded"
    /\ \E g \in Games \ adder[s].copy : approved' = adder[s].copy \cup {g}
    /\ adder' = [adder EXCEPT ![s] = NotAdding]
    /\ StillProtected(approved' \cup zero)
    /\ UNCHANGED <<allowed, zero, manifest, playing, client, actor, run, since, left>>

SteamDownloads ==
    /\ client = "open"
    /\ \E g \in Games : manifest[g] = "queued" /\ manifest' = [manifest EXCEPT ![g] = "full"]
    /\ UNCHANGED <<allowed, approved, zero, playing, client, actor, run, adder, stayed, since, left>>

UserActs ==
    /\ Event
    /\ \/ \E g \in Games :
             /\ manifest' = [manifest EXCEPT ![g] = IF @ = "none" THEN "queued" ELSE "none"]
             /\ UNCHANGED <<playing, client>>
       \/ \E g \in Games : client = "open" /\ manifest[g] = "full" /\ playing' = g
             /\ UNCHANGED <<manifest, client>>
       \/ playing # "nothing" /\ playing' = "nothing" /\ UNCHANGED <<manifest, client>>
       \/ client' = (IF client = "open" THEN "closed" ELSE "open") /\ playing' = "nothing"
             /\ UNCHANGED manifest
    /\ UNCHANGED <<allowed, approved, zero, actor, run, adder, stayed, since>>

LibraryInit ==
    /\ allowed \in {{g} : g \in Games} /\ approved = {} /\ zero = {}
    /\ manifest \in [Games -> {"none", "full"}] /\ playing = "nothing"
    /\ client \in {"open", "closed"}
    /\ actor = [p \in Actors |-> Away] /\ run = [p \in Actors |-> NoRun]
    /\ adder = [s \in Adders |-> NotAdding]
    /\ stayed = [p \in Actors |-> Nothing] /\ since = [p \in Actors |-> FALSE]
    /\ left = LibraryEvents

Installing(p) == InstallLooks(p) \/ InstallsDone(p) \/ FastInstall(p) \/ Fallback(p)
Pass(p) == PassLoads(p) \/ PassGuards(p) \/ PassPolls(p) \/ Installing(p)
           \/ HideLooks(p) \/ HideLaunches(p)
LibraryNext ==
    \/ Pass("daemon") \/ Installing("job") \/ JobStarts \/ JobWaits \/ JobUninstalls
    \/ \E p \in Actors : Dies(p) \/ RunCloses(p) \/ RunEnds(p) \/ RunStalls(p) \/ RunKilled(p)
    \/ Assign \/ RecordScan \/ SteamDownloads \/ UserActs
    \/ \E s \in Adders : AddLoads(s) \/ AddSaves(s)

\* The loop comes round and systemd restarts the unit, a job that waits polls,
\* an installer that is not stuck comes to its end.
LibraryFairness ==
    /\ WF_libraryVars(Pass("daemon")) /\ WF_libraryVars(Installing("job") \/ JobWaits)
    /\ \A p \in Actors : WF_libraryVars(RunCloses(p) \/ RunEnds(p))
LibrarySpec == LibraryInit /\ [][LibraryNext]_libraryVars /\ LibraryFairness

(***************************************************************************)
(* Properties.                                                             *)
(***************************************************************************)
\* A game that was allowed, or that was excepted or without achievements, ever
\* since a process read the state is not uninstalled by it, however long its
\* pass or its prompt takes (_enforce_loop.py:80, game_uninstall.py:188).
KeptGamesStay ==
    [][\A p \in Actors : actor[p].pc \in {"guard", "confirm"} /\ actor'[p].pc # actor[p].pc
          => \A g \in stayed[p].allowed \cup stayed[p].protected :
                manifest[g] # "none" => manifest'[g] # "none"]_libraryVars

\* No process opens Steam under an installer, but for one that another process
\* started since it looked (_steam_restart_guard.py:97).
LaunchSparesInstaller ==
    [][\A p \in Actors : client = "closed" /\ client' = "open" /\ actor'[p] # actor[p]
                         /\ FastInstallRunning => since[p]]_libraryVars

\* A stalled run that nobody owns holds up every install (_fast_install.py:108).
StalledOrphan == \E p \in Actors : run[p].stage = "stalled" /\ ~run[p].owned

\* An allowed game that disappeared comes back (_enforce_steps.py:34).
AllowedComesBack ==
    \A g \in Games :
        (g \in allowed /\ manifest[g] = "none")
            ~> (manifest[g] # "none" \/ g \notin allowed \/ StalledOrphan)

\* What _fast_install.py:17 says of a run whose output stalled: it is interrupted.
StalledRunsEnd ==
    \A p \in Actors : run[p].stage = "stalled" ~> run[p].stage # "stalled"
=============================================================================
