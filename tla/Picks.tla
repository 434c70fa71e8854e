-------------------------------- MODULE Picks --------------------------------
(***************************************************************************)
(* The commands that change the assigned game and the manual picks.  Each  *)
(* one runs in a session: a terminal, a web job, a tool call of the MCP    *)
(* server, or the enforce daemon's sweep.  A session loads state.json,     *)
(* works on its copy across network calls and prompts, and writes the      *)
(* whole copy back; nothing stops another session from doing the same in   *)
(* between.                                                                *)
(***************************************************************************)
EXTENDS PickRules

CONSTANTS
    Session,   \* who runs commands
    Commands,  \* [Session -> SUBSET Command]: what each of them may run
    MaxTime,   \* bound: the last day
    MaxPlayed  \* bound: games the player unlocks achievements of

ASSUME SessionAssumption == MaxTime \in Nat /\ MaxPlayed \in Nat

VARIABLES
    disk,      \* state.json
    mem,       \* [Session -> the session's copy of it]
    cmd,       \* [Session -> the command it runs]
    pc,        \* [Session -> where the command is]
    target,    \* [Session -> the game named on the command line, or NoApp]
    now,       \* the day
    unlocked,  \* [App -> day of the newest achievement unlocked, or NoTime]
    complete   \* the games with all achievements unlocked

sessions == <<mem, cmd, pc, target>>
steam == <<unlocked, complete>>
vars == <<disk, sessions, now, steam>>

\* "sweep" is what status and the enforce loop do: release the picks that
\* earned it.  "replace" is pick --replace.
Command == {"check", "done", "scan", "pick", "replace", "pick-manual",
            "abandon-pick", "sweep", "reset", "none"}

\* load: past the gate.  sweep: report_completion.  verdict: the release rule
\* on the assigned game.  offer: choosing the next game.  confirm: the typed
\* confirmation.
Stage == {"idle", "load", "sweep", "verdict", "offer", "confirm"}

\* _MANUAL_LOCK_EXEMPT_COMMANDS.
Exempt == {"check", "done", "pick-manual", "abandon-pick", "sweep"}

-----------------------------------------------------------------------------
Init ==
    /\ disk = Fresh
    /\ mem = [p \in Session |-> Fresh]
    /\ cmd = [p \in Session |-> "none"]
    /\ pc = [p \in Session |-> "idle"]
    /\ target = [p \in Session |-> NoApp]
    /\ now = 1
    /\ unlocked = [a \in App |-> NoTime]
    /\ complete = {}

\* The session's copy becomes s, which is also written to state.json.
Save(p, s) == disk' = s /\ mem' = [mem EXCEPT ![p] = Fresh]

GoTo(p, stage) == pc' = [pc EXCEPT ![p] = stage]

\* The command is over.
End(p) ==
    /\ GoTo(p, "idle")
    /\ cmd' = [cmd EXCEPT ![p] = "none"]
    /\ target' = [target EXCEPT ![p] = NoApp]

\* It ends and what it had changed in its copy is not written.
EndUnsaved(p) == End(p) /\ mem' = [mem EXCEPT ![p] = Fresh] /\ UNCHANGED disk

Earns(s, a) == Earned(s, a, now, unlocked, complete)

\* enforce_gate: no command but the exempt ones while a pick is locked.
Gate(p, c, a) ==
    /\ pc[p] = "idle"
    /\ c \in Commands[p] \ {"none"}
    /\ (a # NoApp) = (c \in {"pick-manual", "abandon-pick"})
    /\ ~Locked(disk, now) \/ c \in Exempt
    /\ cmd' = [cmd EXCEPT ![p] = c]
    /\ target' = [target EXCEPT ![p] = a]
    /\ GoTo(p, "load")
    /\ UNCHANGED <<disk, mem, now, steam>>

\* Where a command starts with the record it loaded; "idle" is a refusal.
FirstStage(c, a, s) ==
    CASE c \in {"check", "sweep", "pick-manual"} -> "sweep"
      [] c = "done" -> IF s.current = NoApp THEN "idle" ELSE "verdict"
      [] c = "scan" -> IF s.current = NoApp THEN "offer" ELSE "idle"
      [] c = "pick" -> IF Fits(s, NoApp) THEN "offer" ELSE "idle"
      [] c = "replace" -> "offer"
      [] c = "abandon-pick" -> IF a \in Stored(s) THEN "confirm" ELSE "idle"
      [] OTHER -> "confirm"

\* State.load: a terminal does it in the gate, a web job once more after it.
Load(p) ==
    LET first == FirstStage(cmd[p], target[p], disk) IN
    /\ pc[p] = "load"
    /\ IF first = "idle" THEN EndUnsaved(p)
       ELSE /\ mem' = [mem EXCEPT ![p] = disk]
            /\ GoTo(p, first)
            /\ UNCHANGED <<disk, cmd, target>>
    /\ UNCHANGED <<now, steam>>

AfterSweep(c, s) ==
    CASE c = "check" -> IF s.current = NoApp THEN "idle" ELSE "verdict"
      [] c = "pick-manual" -> "confirm"
      [] OTHER -> "idle"

\* retire_completed_manual_picks: release the active picks that earned it, of
\* those Steam could be asked about, and save if there was one.
Sweep(p) ==
    /\ pc[p] = "sweep"
    /\ \E D \in SUBSET {a \in ActiveApps(mem[p], now) : Earns(mem[p], a)} :
          LET s == Release(mem[p], D, now, complete)
              next == AfterSweep(cmd[p], s) IN
          /\ disk' = IF D = {} THEN disk ELSE s
          /\ IF next = "idle" THEN End(p) /\ mem' = [mem EXCEPT ![p] = Fresh]
             ELSE GoTo(p, next) /\ mem' = [mem EXCEPT ![p] = s] /\ UNCHANGED <<cmd, target>>
    /\ UNCHANGED <<now, steam>>

\* Mutant of Verdict: done and check move on in any case.
VerdictAnyway(p) ==
    /\ pc[p] = "verdict"
    /\ GoTo(p, "offer")
    /\ mem' = [mem EXCEPT ![p] = Release(@, {@.current}, now, complete)]
    /\ UNCHANGED <<disk, cmd, target, now, steam>>

\* done and check: the assigned game is released, in the copy only, or it has
\* to be played on.
Verdict(p) ==
    LET s == mem[p] IN
    /\ pc[p] = "verdict"
    /\ IF Earns(s, s.current)
       THEN /\ mem' = [mem EXCEPT ![p] = Release(s, {s.current}, now, complete)]
            /\ GoTo(p, "offer")
            /\ UNCHANGED <<disk, cmd, target>>
       ELSE EndUnsaved(p)
    /\ UNCHANGED <<now, steam>>

\* No snapshot, or no candidate that is playable: the copy is written as it is.
NothingToOffer(p) ==
    /\ pc[p] = "offer"
    /\ Save(p, mem[p])
    /\ End(p)
    /\ UNCHANGED <<now, steam>>

\* The user chose game a: one of the list, or their own.
Choose(p, a) ==
    LET s == mem[p] IN
    /\ pc[p] = "offer"
    /\ a \in Open(s, now)
    /\ IF cmd[p] = "pick"
       THEN a \notin Allowed(s) /\ Save(p, Keep(s, a, now))
       ELSE Save(p, Replace(s, a, now))
    /\ End(p)
    /\ UNCHANGED <<now, steam>>

\* done asks about one candidate at a time: a is declined for a week.
Decline(p, a) ==
    LET s == Skip(mem[p], a, now + SkipDays) IN
    /\ pc[p] = "offer" /\ cmd[p] = "done"
    /\ a \in Open(mem[p], now)
    /\ disk' = s
    /\ mem' = [mem EXCEPT ![p] = s]
    /\ UNCHANGED <<cmd, pc, target, now, steam>>

\* The user confirmed pick-manual, abandon-pick or reset.
Confirm(p) ==
    LET s == mem[p] a == target[p] IN
    /\ pc[p] = "confirm"
    /\ CASE cmd[p] = "pick-manual" ->
              IF MayPick(s, a, now) THEN Save(p, AddPick(s, a, now)) /\ End(p)
              ELSE EndUnsaved(p)
         [] cmd[p] = "abandon-pick" -> Save(p, Abandon(s, a, now)) /\ End(p)
         [] cmd[p] = "reset" -> Save(p, Reset(s)) /\ End(p)
    /\ UNCHANGED <<now, steam>>

\* The user declined or interrupted, Steam could not be read, or the process died.
Abort(p) ==
    /\ pc[p] # "idle"
    /\ EndUnsaved(p)
    /\ UNCHANGED <<now, steam>>

\* A day passes.
Tick ==
    /\ now < MaxTime
    /\ now' = now + 1
    /\ UNCHANGED <<disk, sessions, steam>>

\* The player unlocks an achievement of game a, perhaps its last one.
Unlock(a) ==
    /\ Cardinality({b \in App : unlocked[b] # NoTime} \cup {a}) <= MaxPlayed
    /\ unlocked' = [unlocked EXCEPT ![a] = now]
    /\ \/ UNCHANGED complete
       \/ complete' = complete \cup {a}
    /\ UNCHANGED <<disk, sessions, now>>

SessionStep(p) ==
    \/ \E c \in Command, a \in App \cup {NoApp} : Gate(p, c, a)
    \/ Load(p) \/ Sweep(p) \/ Verdict(p) \/ NothingToOffer(p)
    \/ \E a \in App : Choose(p, a) \/ Decline(p, a)
    \/ Confirm(p) \/ Abort(p)

Next ==
    \/ \E p \in Session : SessionStep(p)
    \/ Tick
    \/ \E a \in App : Unlock(a)

Spec == Init /\ [][Next]_vars

-----------------------------------------------------------------------------
(* Properties. *)

\* Type invariant: the file and every copy are records of state.json.
TypeOK ==
    /\ disk \in Record
    /\ mem \in [Session -> Record]
    /\ cmd \in [Session -> Command]
    /\ pc \in [Session -> Stage]
    /\ target \in [Session -> App \cup {NoApp}]
    /\ now \in Nat \ {0}
    /\ unlocked \in [App -> Time]
    /\ complete \subseteq App

\* At most max_manual_picks games are locked in, whatever sessions overlap.
LocksCapped == LocksInCap(disk, now)

\* At most max_manual_picks + 1 games are allowed (allowed_cap_refusal), also
\* after done, check and scan, which do not ask that function.
GamesCapped == GamesInCap(disk)

\* The file and every session's copy satisfy all of these: however sessions
\* overlap, and whoever writes last, the record read next is well-formed.
RecordsWellFormed == WellFormed(disk, now) /\ \A p \in Session : WellFormed(mem[p], now)

\* Step of a session that runs one of the commands C.
StepOf(C) == \E p \in Session : cmd[p] \in C /\ pc'[p] # pc[p]

\* A pick stays locked until its deadline, until it earned its release, or
\* until it is abandoned or reset: no other command loses it.
PicksHold ==
    [][\A e \in Active(disk, now) :
          \/ e \in Elements(disk'.picks) /\ e.app \notin disk'.finished
          \/ Earns(disk, e.app)
          \/ StepOf({"abandon-pick", "reset"})]_vars

\* The days record s counts game a from: its assignment and the starts of its
\* picks, locked or not.
Starts(s, a) ==
    {e.started : e \in {d \in Elements(s.picks) : d.app = a}}
        \cup (IF a = s.current THEN {s.assigned} ELSE {})

\* done and check give out another game only after the assigned one was finished,
\* or played on since a day it counts from: the lock it earned that under may
\* have ended, or its release been saved, before the next game is chosen.
MovesOnWhenEarned ==
    [][disk'.current # disk.current /\ StepOf({"done", "check"})
       => \/ disk.current \in complete
          \/ \E t \in Starts(disk, disk.current) \ {NoTime} : unlocked[disk.current] > t]_vars
=============================================================================
