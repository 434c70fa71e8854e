# TLA+ models of steam-backlog-enforcer

The program keeps its user on one game of the Steam backlog at a time.  A root
daemon (`enforce`) kills and uninstalls every game that is not allowed, blocks
the store, and limits the playtime of a day.  The same operations are reached
from a command line, from a web UI whose commands run as detached jobs, and
from an MCP server.  These modules model the parts where several of those act
on shared state, check them with TLC on small instances, and prove the main
invariants with TLAPS for every value of the constants.

Paths below are relative to `src/`; `sbe/` stands for
`steam_backlog_enforcer/`.

## The system

| part | state it keeps | operations | interacts with | hard behaviour | what makes it correct |
|---|---|---|---|---|---|
| Jobs (`sbe/jobs`, `sbe/_web_jobs.py`) | one directory per job: event log, pid file, answers, cancel marker; a `flock` on an inherited descriptor | create, read (and reconcile a dead job), answer, cancel, prune; the job process itself | web server threads, a detached process per job, `systemd-run` | threads and processes interleave; either side dies; the reader decides on state it read before | one mutating job at a time; a verdict only about the dead; an unsafe command is never stopped midway; every job ends |
| Event stream (`_web_sse`, `_events`), live job (`web/src/jobs`) | append-only file with sequence numbers; the browser's merge of the stream | append, tail, reconnect, merge | jobs, browser | torn lines, two writers, reconnects | no event lost, none taken twice, the end seen |
| Assignment and manual picks (`_actions`, `_pick_keep`, `_assignment_progress`, `_manual_pick_lifecycle`, `_pick_completion`, `_scanning_assign`, `scanning`, `_cmd_done*`, `main/picks`, `main/abandon`) | `state.json`: the assigned game, the picks, finished games, cooldowns | check, done, scan, pick, pick `--replace`, pick-manual, abandon-pick, reset, the release sweep | Steam (unlocks), the gate, all four front ends | load - network - prompt - save without a lock; locks that expire meanwhile | locks hold; caps hold; no move without progress; nothing hidden under "no game" |
| Enforce loop (`_enforce_loop`) | an in-memory copy of `state.json` | one tick every 3 s: playtime, total block, store window, pick sweep, kill, uninstall, reinstall | everything above and below | ticks against commands | a tick never undoes a command |
| Control socket (`_ctl_*`) | pending resets, the restart limit, the downtime marker | two-phase reset, restart, unblock, block and unblock of gaming | web server to daemon, the tick lock | countdown and heartbeat, retries, restarts | no reset without the countdown; a restart is not a way to lose recorded playtime |
| Playtime budget (`_playtime*`, `_leisure_mode`, `_shadow`) | the record of the day, the latch of the block, bind mounts over the launchers | accumulate, roll over, warn, block, release, reset | enforce loop, earners, watcher | clock jumps, restarts, a lost file, mounts that fail | spent time and granted time survive restarts; the masks follow the budget |
| Leisure kill (`_leisure_*`), cutoff (`_playtime_kill`) | which processes got a SIGTERM, and when | signal what the watcher names, sweep when it is blind, walk down from the launchers | `/proc`, the watcher | pids are reused between a look and a signal | no process is signalled for another; what is named ends |
| Earners (`_reading_bonus`, `_workout_budget`, `_leetcode_*`, `_ledger_earners`, `_status_api`, `_file_wake`) | remembered answers, an inotify watch | ask, remember, wake | gates that write their ledgers | a write during a read, outages | a credit is priced in time, and only while it lasts |
| Total block, store block, store window (`_total_block*`, `store_blocker`, `_store_*`) | deadlines in files, `/etc/hosts`, iptables chains, the Steam package | open, close, re-apply, purge, clean up | enforce loop, command line, socket | steps that fail, restarts, reboots, overlap | blocked until the deadline and not after it |
| Library: installation guard, fast install, Steam process control, exceptions | manifests, an installer run, `approved_exceptions.json` | install, uninstall, reinstall, launch Steam, add an exception | Steam, jobs, the loop | several callers, runs that stall or lose their owner | one installer, allowed games stay and come back |
| Scan (`_achievement_skip`, `_steam_api_client`, `scanning`) | the cache of games without achievements, the snapshot | scan, record, read both | Steam's API, enforcement | failed requests, overlapping scans, files read one after the other | a game is hidden only on Steam's word |
| HowLongToBeat (`hltb`, `_hltb_*`, `_scanning_confidence`) | `hltb_cache.json` | fetch, refetch detail, polls and confidence | network | misses, failures, deaths between saves | an estimate that was known stays; it is for the whole game |
| Serve (`_serve_*`, `_web_process`) | a port, the age of the code | launch, replace, retire | systemd, the user, edits of the source | launches that race for the port | current code comes to serve |
| Ranking, statistics, views, CLI entry, scripts | reports | render | - | - | - |

`PROJECT.json` lists all of them with their files, and the hazards at their
lines.

## The modules

| module | models | status |
|---|---|---|
| `Jobs` | `sbe/jobs`, `sbe/_web_jobs.py`: the request threads, the job process, their files and the lock | checked; proved in `JobsProofs` |
| `MutatingLock` | what the one-mutating-job lock promises | implemented by `Jobs` (checked and proved) |
| `PickRules` | the functions on `state.json`: what is locked, allowed, released, and what the operations do to the record | lemmas in `PicksProofs` |
| `Picks` | the commands that run those functions, in overlapping sessions | checked; proved in `PicksProofs`, two action properties for one session |
| `Ctl` | the control socket, the tick lock and the life of the daemon | checked; proved in `CtlProofs` |
| `Playtime` | the daily budget: billing, the latch, the masks, restarts, resets beside the daemon | checked; proved in `PlaytimeProofs` |
| `Library` | allowed and installed games, Steam, the installer, as the daemon, a job and the user change them | checked; proved in `LibraryProofs` |
| `Scan` | games without achievements: scans, their cache, the snapshot, the reader of both | checked; proved in `LibraryProofs` |
| `Blocks` | the total block, the store block and the store window | checked; proved in `PartsProofs` |
| `LeisureKill` | signals to what the watcher names, and the sweep when it is blind | checked; proved in `PartsProofs` |
| `KillTree` | which processes the cutoff of a spent budget signals | checked; proved in `PartsProofs` |
| `EventLog` | one job's log, its writers, the stream and the browser that follows it | checked; proved in `EventLogProofs` |
| `Serve` | the web server as a process: launch, replace, retire | checked; types proved in `PartsProofs` |
| `Earners` | a credit on its way from a gate's file to the budget | checked; proved in `PartsProofs` |
| `HltbPages` | what a search page and a detail page are worth | used by the next two; lemmas in `HltbProofs` |
| `HltbLookup` | one lookup: its queries and the page of the entry taken | checked; proved in `HltbProofs` |
| `HltbCache` | the cache of estimates and the commands that fill it | checked; proved in `HltbProofs` |
| `MCJobs`, `MCPicks`, `MCCtl`, `MCPlaytime`, `MCLibrary`, `MCHltb` | small instances for TLC | |
| `MCParts` | ten of the modules side by side; in a behaviour one of them moves | types of all proved in `PartsProofs` |

The modules meet where the code's components do.  The daemon's pass is one
process of `Playtime`, `Blocks`, `Library` and `Picks`, each of which takes the
steps of the pass that act on its state; `Ctl` has the lock that keeps passes
and ops apart; `EventLog` refines the log that `Jobs` reduces to its state
events; what `Earners` prices is `live` in `Playtime`; what `Scan` confirms is
`zero` in `Library`; a game `Picks` assigns is one `Library` allows.

### Jobs

`log` is `events.jsonl` reduced to its state, prompt and result events; the
other variables are the pid files, the directories, the answers, the cancel
markers and, for each process, the stage it has reached.  Nothing stores a
job's state: a reader folds the log (`FoldState`), as `_view._fold` does.  The
mutating lock is modelled as what it is, an open file description: `lockFds` is
the set of processes that have it open, and closing one of them frees nothing.

Request threads run one step per system call that matters: `CreateJob`,
`AcquireMutatingLock`, `WriteJob`, `SpawnJob`, `ConfirmStarted`, `WritePid`,
`CloseLock` are `create_job` and what it calls; `Fold`, `ProbePid`,
`GiveUpOnPid`, `Reconcile`, `ReadDone` are `read_job`; `WriteAnswer` and
`Cancel` are the handlers that act on the job they have read.  The process runs
`ExecJob` (launcher and interpreter start), `WriteOwnPid`, `BeginRun`,
`InstallHandler`, `Ask`, `TakeAnswer`, `StopWaiting`, `CommandReturns`,
`Finish`, `Exit`.  `Kill` may strike a process anywhere, `ServerCrash` the web
server; SIGTERM is on its way for a while before `TakeSigterm`.

### PickRules and Picks

A record is what `state.json` holds of the assignment; a day is the unit of
time, because every deadline is a number of days.  A pick that was released has
`released = TRUE`.  `IsActive`, `Allowed`, `Fits`, `Baseline`, `Earned`
read a record as `_pick_is_active`, `allowed_games`, `allowed_cap_refusal`,
`assignment_baseline`, `release_verdict` do; `Release`, `Park`,
`DropInactive`, `AddPick`, `Abandon`, `Replace`, `Keep`, `Reset` are the
functions that change it.  Which game a ranking would propose is left open: any
game that is not finished and not on cooldown.

A session is a terminal, a web job, an MCP call or the daemon's sweep.  It
passes the gate (`Gate`), loads (`Load`), and then holds its own copy across
network calls and prompts: `Sweep`, `Verdict`, `Decline`, until `Choose`,
`Confirm` or `NothingToOffer` writes the whole copy back.  `Abort` is a prompt
answered with no, an interruption, a network failure or the death of the
process.  `done` and `check` change only the copy when they release a game; the
file changes when the next one is chosen.  The file is replaced atomically
(`State.save`), so a save is one step.

### Ctl

The daemon has two clocks.  `clock` is `time.monotonic()`, by which the armed
reset is judged; `clock + skew` is `time.time()`, in which the last restart is
recorded, and `StepWallClock` steps it.  `pending` is
`PendingResets._current`; its operations run under a lock of their own and are
one step each (`Arm`, `Heartbeat`, `Cancel`, and `Ready` within a commit).  A
lapsed reset is dropped by whoever looks at it; a refused commit does the same
as a heartbeat of a lapsed reset and is not an action of its own.

A connection thread is at one stage of its op.  `AskCommit` is the first check
of `op_commit`; `TakeTickLock` or `GiveUp` are `hold_tick`; then `Recheck`,
`Zero` (`reset_today` up to the saved state), `Audit`, `FinishCommit`, or
`CommitRefused` when a total block is on or the state cannot be written.
`AskOther` and `OtherDone` are the other ops that take the lock.  A restart is
`AskRestart`, `Persist` (or `PersistFails`) and `Signal`, under
`_restart_lock`.  The loop's `BeginPass` and `EndPass` take and release the
tick lock around `settle_restart_gap` and around each iteration; `Exit` is the
return of `do_enforce` and of the process, which waits for no connection
thread, since they are daemon threads.  `Exit` and `Crash` lose everything but
the restart limit on disk; `Start` is systemd.  The model is of a daemon under
systemd (`supervised`); without it restarts are refused.

What happens between `Zero` and `Audit` shows in the model and is no property
of a run: a commit that gets the tick lock as the loop leaves for a restart may
die between the two, and the day is then zeroed without its audit record.

The variables after `limit` are history: the moments of arming and heartbeats,
what was cancelled, zeroed and audited, the moments of accepted and refused
restarts.  No action's guard reads them but the bounds.

### Playtime

The record is `playtime_state.json`; a unit of time is one interval of the
loop.  A tick is `Begin` (the clock is read, then the earners are asked over the
network), `Tick` (the clock is read again for the budget that is held; load, roll
over, bill, decide, act) and `Save`; between them the command line may load and
save the same file (`ResetLoad`, `ResetSave`), time may pass, and the daemon may
die.  `Today`, `Measured`, `Billed`, `Warned`, `UnderBudget` and `Policy` are the
functions of a tick in the order of `playtime_tick`; `ReleaseBlock` and
`ApplyBlock` leave masks half on or off when mounts fail or pacman holds its
lock.  `Leave`, `Start` and `Settle` are a requested restart with its downtime
marker, which may fail to be written (`RecordExit`) or deleted (`DropMarker`);
`Crash` leaves none.  A game may start whatever is masked (`PlayOrStop`): some are
counted that need none of the four targets (`counted_processes`, osu!lazer by
default), and there are launchers that are no targets.  Ten kinds of disturbance
are counted in `used`.

### Library

`allowed`, `approved` and `zero` are the three reasons for a game to stay;
`manifest` is what Steam knows of it; `run` is the installer run each process
started.  A pass is `PassLoads`, `PassGuards` (end and uninstall), `PassPolls`,
then `InstallLooks` with `FastInstall` or `Fallback` for each missing game; the
first pass of a daemon also hides games and so may launch Steam
(`HideLooks`, `HideLaunches`).  A job installs one game and waits, or uninstalls
after its prompt (`JobUninstalls`).  A process that dies leaves its run behind,
in a scope of its own.  A pass judges "allowed" by the copy it loaded and
"protected" by the files as they are: a game that becomes allowed during a pass
and loses its protection in the same pass is uninstalled by it.  `KeptGamesStay`
therefore speaks of each reason by itself.

### Scan

`Begin` asks every owned game that is not `Skippable`; requests are answered in
any order, or fail (`Fetch`); `Record` writes the cache of games without
achievements, `SaveSnapshot` the others.  `Look`, `ReadNone` and `ReadSnap` are
the reader that enforcement uses, with scans in between.  `record_scan` has no
lock: `Record` loads and changes the cache, `WriteNone` writes the copy over
whatever the file has by then, so of two scans that overlap there one loses what
it added, and writes back what the other removed; `missed` and `crossed` are the
history of that.  `FetchEmpty` is a reply of status 200 without `playerstats`,
which the code takes for the word that there are no achievements.

### Blocks

`net` is what blocks: the two groups of hosts entries, the two chains and the
addresses they were made of, and whether Steam is installed.  A pass is
`BlockPass`, or `CleanupEndsLock` and `CleanupRemoves` when a block is over, or
`WindowPass` when a store window is.  A block from the command line runs beside
the tick lock, in four steps (`CliLocks` to `CliHosts`) between which it may be
killed; one from the socket holds the lock (`SocketBlock`).  In each of them any
step may fail, in part too: names without an answer are passed over, the chain may
not be flushed, some rules may not be added, and the hosts entries are written all
the same (`TotalTick`, `Extent`).  `known` are the addresses that are saved before
the rules are made of them.

### LeisureKill and KillTree

A process is its pid and start time, and pids are reused.  `KillTick` judges the
verdict it reads, ages its memory of SIGTERMs by the wall clock, and signals;
between ticks processes exit and start and the watcher reports.  In `KillTree`
the cutoff reads the chain above the daemon, the table of parents and the chain
again, while processes exit and start, and `Signal` strikes what hangs under the
launchers.  A launcher that exits and whose pid is taken between the search and
the signal costs the newcomer its life; the code accepts that.

### EventLog

`log` has every line with its number, the last one perhaps partial.  A writer
trusts its counter only while the file has the size it left (`NextSeq`).
`PumpReads` and `PumpJudges` are the stream, which may close between the job's
last events and its own look at them; `HubOpens`, `HubIngests` and
`HubReconnects` are `hub.ts`; `StreamBreaks` loses what is on its way.

### Serve

Time is counted in edits of the source.  A launch imports, stamps, asks for the
port (`EnsurePort`), replaces an outdated owner (`Terminate`, `Kill`), binds;
a server answers, notices that its source is newer (`Refuse`), and leaves
(`ShutDown`).

### Earners

`Write` is a gate; `PassBegins` to `Store` is a tick's question to one earner:
stamp of the file, remembered answer, gate, read, remember.  Sources go and come
back, the watch breaks, the daemon restarts.

### HltbPages, HltbLookup, HltbCache

`BestEntry` is `_pick_best_hltb_entry`, `Leisure` and `Detail` the times of a
page; `Query` and `Visit` are one lookup.  `HltbCache` runs the four commands
that fill the cache (`StartTimes`, `StartDetail`, `StartPolls`,
`StartRefresh`): searches and pages in any order with a save every
`SaveInterval` answers, `Finish`, `Restore`, and death at any step.  `Saved`
is `save_hltb_cache` with its rule that an empty map is taken from the file.

### Where the code does not keep its word

What the modules show of this code beside the expected violations.  Each is left
out of a property, where the property says so:

- A total block that starts without DNS writes its hosts entries all the same
  (`_total_block_iptables.py:127`, `_total_block.py:196`): from then on the names
  are hidden and the addresses cannot be learned, though the module says it
  resolves them before they are hidden.  And as long as the rules for the names that
  did answer stand, those that did not are not asked again.
- `_steam_api_client.py:181-183` keeps failures apart from answers, but a reply of
  status 200 without `playerstats` counts as one (`:129`): a game with achievements
  is allowed, and skipped by scans, until the recheck.
- Of two scans that overlap, the later to write puts back a game the other has just
  found with achievements, as of its own start.  It is found again after the
  recheck time.  The comment says that losing the cache "only costs the next scan
  its shortcut"; the file also is the list of games that are always allowed.
- `held_today` promises that no earner that resets can "cut a session off unwarned".
  The clock is read a second time for it (`_playtime_state.py:123`), after the
  earners were asked: if it is 06:00 in between, the day that ends is priced without
  what it was granted, and games may get a SIGTERM in its last tick.
- A step of the clock back refunds nothing within a day; one over 06:00, or to
  another day and back, begins a spent day anew (`roll_over`), with nothing spent
  and nothing granted.
- A spent budget masks launchers; it cannot keep every counted game from being
  started again, and kills it at each tick instead.
- A job that reports and exits between a reader's look at its log and at its pid
  gets a second result, "failed" (`_view.py:58-72`).
- `cmd_serve` ends if the frontend does not build (`main/misc.py:136`), before it
  asks for the port; `Serve` launches with one that builds.
- `refetch_poll_counts` saves without counts (`_hltb_confidence.py:54`, `:61`),
  so that every `count_comp` of the cache becomes 0.
- A death during a refetch loses the hours it took out, although `hltb.py:8`
  promises "incremental disk-cache saves so crashes don't lose work";
  `CrashLosesLittle` speaks of answers only.
- A request that times out is stored as a miss (-1), and
  `fetch_hltb_times_cached` does not ask for that game again.
- For `leisure_100h` the override of a DLC subtracts the hours the page lists
  for it from a figure they were never added to (`_hltb_detail.py:114`).

## What the runs check

| run | instance | shows |
|---|---|---|
| `jobs_mutex` | two mutating jobs, two threads, one crash of the server, kills anywhere | the lock excludes and implements `MutatingLock`; nothing that is over comes back |
| `jobs_client` | a cancellable job and one that must not be stopped, side by side, room for one directory, one client that reads, answers and cancels, one prompt each | a process that lives to its end leaves its own and only report; prune spares what still runs; no cancel stops the second job anywhere but at a prompt |
| `jobs_live` | two jobs that queue for the lock, one prompt, one crash, one client that keeps reading | every job is eventually seen over, the lock comes free again and again |
| `picks_one` | one session, every command, three games, two pick slots, three days | a locked pick survives whatever is done with the others until it expires, earns its release or is given up; nobody moves on unearned; the record stays well-formed |
| `picks_lost_update` | expected violation: the daemon's sweep and a user | a pick made while the sweep asks Steam is overwritten by it |
| `ctl_ops` | two connections, two armings, two restarts, a countdown longer than the lapse, one crash, a wall clock that steps back once | the day is zeroed only after a whole countdown somebody watched, once per arming, never during a pass and by no commit that re-checks after a cancel; accepted restarts are an interval apart |
| `ctl_live` | two connections, one arming, two restarts, one crash | every request is answered; an accepted restart brings the daemon back |
| `playtime_day` | a gaming day and the next, one launcher, any two of ten kinds of disturbance | the enforced count never runs ahead of the measured one; a granted budget is held through the day; a mask comes off only for a cause; a requested restart bills its downtime; but for a reset or a lost file, spent time comes back only with a later day, or another one once the clock was set |
| `playtime_live` | two launchers, any one disturbance, fair scheduling | a spent budget ends in a complete block with every game killed again, time left ends in a complete release |
| `parts` | the ten modules of `MCParts`, one moving in each behaviour | see below |
| `library_stalled` | expected violation: the library, two events | a run that stalls after its daemon restarted is interrupted by nobody, although `_fast_install.py:17` says a stalled run is |
| `hltb_ids` | expected violation: the cache, two commands | a fetch that finds one id writes 0 over those of other games, which a comment of `save_hltb_cache` rules out |

The properties of `parts`, by module:

- `Blocks`: an address once learned stays known until a clean-up, and those of the
  game sites are known while a block hides their names, unless the chain could not
  be flushed, a name had no answer or older entries were left
  (`RealAddressesKept`); a block that is over is lifted, a window that is over is
  closed (`BlocksEnd`).
- `LeisureKill`: SIGKILL comes only to a process that had a SIGTERM itself,
  `Patience` before, in this spell; a sweep only after the watcher was blind long
  enough; a report never strikes a later process of the same pid
  (`SignalsAreDue`).  What stays named ends (`NamedEnds`).
- `KillTree`: the daemon's own chain is spared, and what hung under a launcher
  all along is signalled (`KillsTheTree`).
- `EventLog`: numbers increase and the browser has a prefix of the log
  (`BrowserSeesPrefix`); an end is seen (`BrowserSeesEnd`).
- `Serve`: current code comes to hold the port (`CurrentCodeServes`), unless an
  edit came between a server's import and its stamp: such a server believes
  itself current for as long as nothing else is edited.
- `Library`: games that may stay stay (`KeptGamesStay`), Steam is not opened
  under an installer that could be seen (`LaunchSparesInstaller`), allowed games
  come back unless a stalled run without an owner holds every install up
  (`AllowedComesBack`).
- `HltbCache`: estimates survive misses and cost a crash little
  (`EstimatesKept`), and no save touches those of other games
  (`OthersKeepTimes`).  `HltbLookup`: an estimate is for the whole game
  (`EstimateIsWhole`).
- `Earners`: a credit is priced in time, and only while it lasts
  (`AnswersFollowLedger`).
- `Scan`: a game is skipped, and allowed for good, only on a reply or because a scan
  that overlapped wrote it back, never on a failed request; one that gains
  achievements is found (`HiddenOnlyOnAnswer`).

**Bounds.**  Two request threads are enough for every race of two creates, or of
a create and a read: a reader with a stale view needs one other actor, which is
the process or the second thread.  Two jobs are enough for the lock and for
pruning with room for one.  One client is enough in `jobs_client`, since its
reads race the processes, not each other; two readers race in `jobs_mutex`.
Three games make the caps binding and leave a candidate to choose: with two
slots a pick can be made beside another.  The days
keep the order of the program's deadlines (a release cooldown is shorter than a
lock, a lock shorter than an abandon cooldown), shortened so that each ends
within the run.

`MaxPlayed` (2) bounds the games that see an unlock, and in `picks_one` the
specification is `OneSpec`: while three games take part only one of them is
played, and two are played while only two take part (`FewGames` in `MCPicks`).
One played game among three is what the caps and the locks need.  Two are what
`MovesOnWhenEarned` needs: the property was first stated as "whoever moves on
earns it at that moment", which is false as soon as two games are played, since
a session decides by one achievement and chooses the next game at a prompt after
which the first may be over.  It is stated now over the assigned game of the
file that is replaced.

In `ctl_ops` the countdown (2) is longer than the lapse (1), as in the program
(300 s and 15 s), so a reset needs a heartbeat in between, and the three
moments leave room for a second arming after a cancel; two connections race for
one commit, and for a restart.  The interval (2) lets a second restart happen,
also after a step back.  A step *forward* of the wall clock brings the next
restart nearer, which the code's wall-clock record cannot prevent; the runs
therefore only step back, and the theorem says so in its assumption.  The
theorems about the reset hold for steps both ways.

In `playtime_day` a day is three intervals and the clock reaches the end of the
next, so that the rollover, a held budget and leisure billing (from the second
day on) all happen; the clamp (2) is shorter than the longest gap billed (3).
Two disturbances are enough for every pair the code handles: a reset and a
crash, a lost file and a mask that stays, a step of the clock and a restart; for
more of them its properties are proved (`PlaytimeProofs`).
`playtime_live` has two launchers, for a block that is half on, and no warnings,
which what is enforced does not depend on (`playtime_day` has them).

In `parts` the bounds leave room for what each property needs: two block days
and a horizon of five with two disturbances (a block started, cut off and
repaired after a reboot); a pid that names two processes; two broken
connections, four edits and two servers started by hand; two games, an actor of
each kind and two events, where one is enough for a death or a stall and two
for one of them beside a change of what is allowed; two HowLongToBeat commands
over two games, so that one has what the other looks up; a credit over two days
with two writes and one outage or restart; two scans that overlap, one game
that changes, over one recheck time; three processes, of which two turn over.
Only one part moves in a behaviour, so the state space is the sum of the parts
and not their product.  In the part that does not move, what it starts from is
fixed.  The properties also hold of larger instances of one part each, which
take longer than a run should: three events in `Library` and `Blocks`, two pids
in `LeisureKill`, seven edits in `Serve`, four processes in `KillTree`.

The actors that only act once (the crash, the creation of a job) are bounded by
a count, named in each module.

**Fairness** (`jobs_live`).  Threads and processes are scheduled (weak fairness
of their steps); a command returns; a prompt is waited for at most
`PROMPT_TIMEOUT_SECONDS` and then aborts.  The UI polls every job it shows, so
reads of each job recur (strong fairness of starting one, since threads may be
busy when it is due), and one of them comes after the 30 s a job without a pid
file is given.  Neither crashes, kills, cancels nor answers are assumed to
happen.

**Fairness** (`ctl_live`).  Connection threads, passes, the exit and systemd are
weakly fair: a pass and an op end, and a thread that waits for the lock either
gets it or gives up after `LOCK_WAIT_SECONDS`.  The loop gets the lock (strong
fairness of `BeginPass`): it blocks on it without a timeout, and between two ops
the lock is free for a client's round trip.  No client is assumed to do
anything.

**Fairness** (`playtime_live`).  The daemon's steps and time go on, systemd
starts the unit again, a reset that has loaded saves, and a transaction of
pacman ends.  Nothing else is assumed to happen: not that a mount succeeds,
only that failures are bounded by the disturbances.

**Fairness** (`parts`).  The enforce loop comes round in `Blocks`, `Library` and
`LeisureKill`, since it runs every interval for ever and systemd restarts it;
time passes in `Blocks`.  A job's process goes on or dies, the stream's thread
and the browser run (`EventSource` and the hub reconnect by themselves).  systemd
launches the unit of the web server, and requests keep coming to a server: the
browser polls.  A job that waits polls, and an installer that is not stuck comes
to its end; one that stalls may do so for ever.  Each condition counts while its
part is the one that moves.

`Picks`, `HltbCache`, `HltbLookup`, `Earners`, `Scan` and `KillTree` claim no
liveness: a prompt or a request may stay open for ever.

**Deadlock** is not checked in `Picks` where time ends at `MaxTime`, nor in
`parts` and the two single-part runs, whose events, commands and horizons run
out: there the parts stop, as a command that is over does.

## What is proved

TLAPS proves these for every library, every number of jobs, threads and
sessions, and every bound, from the named assumptions of the modules: that
bounds are natural numbers and periods positive, that what is enumerated as an
input has its shape (the pages and caches of `HltbPages`, `HltbLookup` and
`HltbCache`, the events a job writes in `EventLog`), that a pid is a positive
number (`KillTree`, `LeisureKill`), that a library is finite (`PickRules`), and
that the names used for "nobody" are not names of somebody.  No theorem assumes
an order of the deadlines.  TLC evaluates every assumption in a run.

- `JobsProofs!TypeCorrect`: the type invariant of `Jobs`.  It is inductive only
  with the fact that a process that reports has decided how it ended.
- `JobsProofs!MutualExclusion`: two mutating jobs never run at once.  The
  inductive invariant says who has the description open: the thread that took
  the lock between taking it and closing it, and every living mutating process;
  and that all of them belong to `lockFor`.  The property alone is not
  inductive: it does not say why a second create cannot take the lock while a
  child runs whose server has died.
- `JobsProofs!ReportIsOwn`, `OverIsOver`, `PruneIsSafe`, `UnsafeIsSafe`: the
  properties about what is said of a job and done to it.  One invariant
  (`LifeInv`): a job has one creator (`CreatorsApart`); whoever is about to speak
  for a job found it dead, and a dead job does not come back to life
  (`JudgedDead`); what the log of a living process says, that process has said
  (`LogIsOwn`); only what may be stopped is signalled (`SignalsAllowed`).  The
  hard step is a reader that gives up waiting for a pid file: that the job is
  dead by then hangs on the order in which its creator, its files and its process
  appear (`InOrder`).
- `JobsProofs!ImplementsMutatingLock`: under the mapping "the holder is the job
  whose description somebody has open, and nobody if none is open", every step
  is a step of `MutatingLock` or a stutter.
- `PicksProofs!RecordsTyped`, `RecordsStayWellFormed`, `CapsHold`: the record on
  disk and every copy have one entry per game, at most `MaxPicks` locked games,
  at most `MaxPicks + 1` allowed ones, and no picks under "no game assigned".
  The argument goes over the copies: since any of them may be written last, the
  invariant must hold of each; that a day passes only unlocks (`TickFacts`);
  that every function of `PickRules` maps a well-formed record to a well-formed
  one; and, for `pick`, that its session asked the cap when it loaded (`InStep`).  Replacing keeps the cap because what is left is locked
  (`ReplaceFacts`), keeping and picking because one more fits (`OneMore`).
- `PicksProofs!LockedPicksHold`, `NobodyMovesOnUnearned`: `PicksHold` and
  `MovesOnWhenEarned` of every step of a single session, for any number of games,
  slots and days.  The hypothesis that sessions do not overlap is no convenience:
  `picks_lost_update` shows that the first is false of two.  The invariant
  (`SoloInv`) follows the copy from `Load` to the save: while it is asked whether
  anything earned its release the copy is the file (`CopiesFresh`); from then on
  it carries every pick of the file that is still locked and did not earn its
  release (`CopiesCarry`); and `done` and `check` come to offer a next game only
  if the assigned one was finished or played on (`OffersPlayed`).  No unlock lies
  ahead of the clock (`NoUnlockAhead`), so that what was earned stays earned while
  days pass (`EarnedStays`, `CarriesStays`).  TLC found the invariant true on the
  instance of `picks_one` first.
- `CtlProofs!CountdownWatched`, `ResetOnce`: the two promises of the two-phase
  reset.  The invariant carries, for the armed reset, that it was watched from
  its arming to its last heartbeat (`WatchedSoFar`), which a heartbeat extends
  because it is accepted only of a live reset (`HeartbeatExtends`), and which a
  commit closes because it re-checks the reset (`LiveIsWatched`).  That a reset
  counts once needs the tick lock: between `Zero` and `FinishCommit` its holder
  keeps every other commit before its re-check (`LocksHeld`, `SpentIsDropped`).
  `WatchedThroughout` alone is not inductive: it says nothing of a reset that
  has not committed yet.
- `CtlProofs!RestartsKeepTheirDistance`: if no step of the wall clock goes
  forward, accepted restarts are an interval apart.  The invariant says that the
  recorded limit is, in wall-clock time, no earlier than the last restart
  (`LimitRecorded`), and that only one request is past the check.
- `CtlProofs!CancelsBind`: no commit passes its re-check after a cancel of its
  reset, because ids are handed out in order and never armed again
  (`CancelledGone`).
- `CtlProofs!TypeCorrect`, `OpsOutsidePasses`: types, and that an op under the
  tick lock never overlaps a pass.

- `PlaytimeProofs`: the five safety properties of `Playtime`, each on a part of
  one invariant (`Inv`), which TLC found true on `playtime_day` first.
  `BilledIsMeasured` needs that nothing is masked before the first record is
  written (`MasksHaveARecord`), or a tick would make up a spent record.
  `GrantIsHeld` and `SpentStays` need what a tick is about to write as well as
  what the file has (`FileHolds`, `MemKeepsTheDay`), as the daemon may die in
  between; the latter also that days go on from the file to the tick to the clock
  while nobody sets it (`DaysGoOn`).  `MaskHasCause` needs that a record that says blocked has spent the
  budget it was blocked under (`FileIsSpent`, `MemIsSpent`), also after a tick
  that a total block or the kill switch kept from judging it.
  `RestartBillsItsGap` goes from the stamps of a clock nobody sets
  (`StampsAreBehind`) to the marked exit (`ExitIsMarked`) to the gap that fits
  between two ticks and in the cap of the second (`OwedFits`).  The functions of
  a tick are in lemmas of their own (`TodayFacts`, `AccountedFacts`,
  `PolicyFacts`), joined in `TickFacts`.

- `LibraryProofs!LibraryInvariant`: types, and two strengthenings.  While an
  actor may still remove games, what stayed allowed since it loaded is in its
  copy, and what stayed protected is protected now (`StayedHeld`): the first
  because nobody else changes the copy, the second because every step that takes
  a protection away takes it off the history too.  Whoever looked for an
  installer and may open Steam has no run of its own, and any other started since
  (`Looked`): runs start in one action only, which marks all others.  Both hang
  on `OneMoves`, that a step moves one actor at most.
- `LibraryProofs!GamesThatMayStayDo`, `InstallersSpared`: `KeptGamesStay` and
  `LaunchSparesInstaller` of every step.  Neither is inductive: they speak of a
  step and of what was read before it.
- `LibraryProofs!ScanInvariant`, `HiddenOnAnswer`: the cache, and the copy of it a
  scan is about to write, hold games whose last recorded answer was that they have
  none, or that were written back by a scan that overlapped; the memo follows the
  cache while no stamp changes (`ReadingFollows`), a game that has achievements
  got them no earlier than the answer that says otherwise (`GainsAfterAnswer`),
  so that one which has had them for the recheck time is asked
  (`OldGainsAsked`).
- `PartsProofs!AddressesStayKnown`: `RealAddressesKept`.  The property speaks of
  one moment; what is inductive follows the addresses through the command line,
  which reads them in one step and uses them in the next, and what the excuses leave
  of the property while a start is under way (`LearnedIsKnown`, `GamesAreKnown`).
  The lemmas say what the functions of a pass do to them (`TotalTickIs`,
  `StoreKeepsGames`, `RemovedIs`).
- `PartsProofs!KillIsDue`: `SignalsAreDue`.  The stamp that the daemon keeps of a
  SIGTERM is no older than the SIGTERM, unless the clock jumped (`StampsFollow`);
  the watcher counts as lost only after it was blind for longer (`LostIsBlind`).
- `PartsProofs!TreeIsKilled`: `KillsTheTree`.  A process whose parent is a
  process has one that is there (`Rooted`); the daemon's own chain is among what
  was read to be spared; the table agrees with the tree on what has not turned
  over (`TreeInv`).  Both walks, up from the daemon and down from the launchers,
  are recursive functions, and the lemmas say what they reach in n steps
  (`LevelIs`, `LevelShifts`, `FindsBelow`), that an exit only shortens the
  daemon's chain (`ExitShortens`) and that a fork leaves it alone (`ForkAdds`).
- `PartsProofs!EarnersFollow`: `AnswersFollowLedger`.  The remembered answer is
  right for its stamp (`MemoInv`), an answer on its way into the memory is right
  or a write came in between (`PollInv`), and the answer in use lags behind by no
  more than the memory's age and the sleep so far (`AnswerInv`).
- `EventLogProofs!BrowserFollows`: `BrowserSeesPrefix`.  A writer that trusts its
  counter has the last number (`Numbered`); what the browser has and what is on
  its way are, together, the first events of the log, and the next request
  resumes after them (`Followed`).  The lemmas are about reading the events after
  a number (`ReadEventsIs` and what follows it).
- `HltbProofs!WholeGame`: `EstimateIsWhole`, from what `_pick_best_hltb_entry`
  returns of any page (`BestEntryIs`).
- `HltbProofs!NoEstimateLost`, `OthersUntouched`: `EstimatesKept` and
  `OthersKeepTimes`.  The dicts of a running command say of the games it does not
  look up what the file says (`MemAgrees`), what was known of them still is
  (`BeforeKept`), what was taken out waits to be put back (`PriorsKept`), and
  less than `SaveInterval` answers are in memory only (`SearchSaved`).
- `PartsProofs!PartsTyped`: the type invariant of `parts`, of all ten modules at
  once.  A step of `MCParts` is, to each component, one of its own or none
  (`PartsStepIs`), and each has the inductive invariant above (`Serve`'s types
  are inductive by themselves).

Three habits of these proofs.  A fact about all n that a recursion needs is
proved by a least counterexample (`SetInduction`, from the well-foundedness of
the numbers), as the library's induction takes a predicate the provers cannot be
given.  A recursive definition is a function, related to its values by a lemma
(`ClimbExists`, `ClimbUnique`, `FallIs`).  And the events of a log are read by a
recursive function where `SelectSeq` would say the same, since its definition
cannot be expanded.

Only model-checked: liveness (`JobsEnd`, `LockComesFree`, `RequestsEnd`,
`RestartComesBack`, `BlockFollowsBudget`, `BlocksEnd`, `NamedEnds`,
`BrowserSeesEnd`, `CurrentCodeServes`, `AllowedComesBack`), which is out of the
prover's reach; for `Serve` that leaves its types.  Overlapping sessions of
`Picks` have the proved caps and the refuted `PicksHold`.

## Not modelled

Formatting, logging, HTTP, the ranking of candidates and the network are left
out or are nondeterministic inputs.

- Job catalogue, command line entry: static tables, parsing and dispatch.  Their
  flags (mutating, cancellable) are the constants of `Jobs`.
- In `Jobs`, log and progress lines carry no state and have no limits.
- In `Ctl`, status, the journal tail, parsing, peer credentials and the limit of
  connections.  A commit that gets the tick lock as the loop leaves for a restart
  may die between the saved reset and its audit record; nothing decides on that
  record.
- In `Picks`, `last_assigned_at` and `released_at` feed the ranking and a report
  only; the migration of the old single-pick fields runs once.
- In `Playtime`, notifications and the log, session records, the migration of
  the old state.  What counts as a qualifying game is the input `gaming`.
- In `Library`, hiding games through Steam's debug protocol, the files inside a
  game directory, the login of the installer.
- `AddLoads` and `AddSaves` have the race of two callers of add-exception, which
  loses one exception; no property speaks of it, since its caller sees it missing
  and adds it again.
- The views of the web UI, statistics, history and the MCP server's loop only
  read or call the operations above.
