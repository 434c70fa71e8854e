----------------------------- MODULE LibraryProofs -----------------------------
(***************************************************************************)
(* Proofs about Library: for any set of games and any number of commands    *)
(* that add exceptions, no game that may stay is uninstalled, and Steam is  *)
(* opened under no installer that was there to be seen.  Then about Scan:   *)
(* for any number of scanners and any recheck time, a game is left out of   *)
(* scans, and allowed for good, only on Steam's word.                       *)
(***************************************************************************)
EXTENDS Library, Scan, TLAPS

Pcs == {"away", "idle", "guard", "confirm", "poll", "next", "spawn", "wait", "hide", "launch"}
ActorRecord == [pc: Pcs, copy: SUBSET Games, todo: SUBSET Games, app: Games \cup {"nothing"},
                failed: SUBSET Games, ask: BOOLEAN]
RunRecord == [stage: Stages, app: Games \cup {"nothing"}, owned: BOOLEAN]
StayedRecord == [allowed: SUBSET Games, protected: SUBSET Games]
Manifests == [Games -> {"none", "queued", "full"}]

\* While an actor may still remove games: what was allowed since it loaded is
\* in its copy, and what was protected since then is protected now.
Removing == {"guard", "confirm"}
StayedHeld ==
    \A p \in Actors : actor[p].pc \in Removing =>
        /\ stayed[p].allowed \subseteq actor[p].copy
        /\ stayed[p].protected \subseteq Protected

\* Whoever looked for an installer and may open Steam has none of its own, and
\* those of others started since.
Looked ==
    \A p \in Actors :
        /\ actor[p].pc \in {"spawn", "wait", "launch"} =>
               \A q \in Actors \ {p} : Live(q) => since[p]
        /\ actor[p].pc \in {"spawn", "launch"} => ~Live(p)

\* A run is of a game, and so is what an actor is about to install.
AppsKnown ==
    \A p \in Actors :
        /\ actor[p].pc \in {"spawn", "wait"} => actor[p].app \in Games
        /\ run[p].stage # "none" => run[p].app \in Games

LibraryInv == LibraryTypeOK /\ AppsKnown /\ StayedHeld /\ Looked

-----------------------------------------------------------------------------
LEMMA ActorsTyped ==
    ASSUME LibraryTypeOK
    PROVE  /\ actor \in [Actors -> ActorRecord] /\ run \in [Actors -> RunRecord]
           /\ stayed \in [Actors -> StayedRecord] /\ manifest \in Manifests
  BY DEF LibraryTypeOK, ActorRecord, Pcs, RunRecord, StayedRecord, Manifests

\* Going on to the next step changes nothing else.
LEMMA GoesFacts ==
    ASSUME actor \in [Actors -> ActorRecord], NEW p \in Actors, NEW pc \in Pcs, Goes(p, pc)
    PROVE  /\ actor' \in [Actors -> ActorRecord]
           /\ \A q \in Actors : actor'[q].copy = actor[q].copy
           /\ actor'[p].pc = pc /\ \A q \in Actors \ {p} : actor'[q] = actor[q]
  BY DEF Goes, ActorRecord

LEMMA GoesAlone ==
    ASSUME actor \in [Actors -> ActorRecord], NEW p \in Actors, NEW pc, Goes(p, pc)
    PROVE  actor'[p].pc = pc /\ \A q \in Actors \ {p} : actor'[q] = actor[q]
  BY DEF Goes, ActorRecord

\* Whoever loads has what is allowed, and what it does first is not an install.
LEMMA LoadsFacts ==
    ASSUME actor \in [Actors -> ActorRecord], NEW p \in Actors, PassLoads(p)
    PROVE  /\ actor'[p].pc = "guard" /\ actor'[p].copy = allowed
           /\ \A q \in Actors \ {p} : actor'[q] = actor[q]
<1> DEFINE r == [actor[p] EXCEPT !.pc = "guard", !.ask = (actor[p].pc = "away"),
                                 !.copy = allowed]
<1>1. r.pc = "guard" /\ r.copy = allowed
  BY DEF ActorRecord
<1>2. actor' = [actor EXCEPT ![p] = r]
  BY Zenon DEF PassLoads
<1> HIDE DEF r
<1> QED
  BY <1>1, <1>2

LEMMA JobStartsFacts ==
    ASSUME actor \in [Actors -> ActorRecord], JobStarts
    PROVE  /\ "job" \in Actors /\ actor'["job"].pc \in {"next", "confirm"}
           /\ actor'["job"].copy = allowed
           /\ \A q \in Actors \ {"job"} : actor'[q] = actor[q]
<1> DEFINE r(g) == [Away EXCEPT !.pc = "next", !.copy = allowed, !.todo = {g}, !.ask = TRUE]
           s == [Away EXCEPT !.pc = "confirm", !.copy = allowed]
<1>1. s.pc = "confirm" /\ s.copy = allowed /\ \A g : r(g).pc = "next" /\ r(g).copy = allowed
  BY DEF Away
<1>2. (\E g : actor' = [actor EXCEPT !["job"] = r(g)]) \/ actor' = [actor EXCEPT !["job"] = s]
  BY Zenon DEF JobStarts
<1>3. "job" \in Actors
  BY DEF Actors
<1> HIDE DEF r, s
<1> QED
  BY <1>1, <1>2, <1>3

\* What a run that failed adds to the memory of its actor.
LEMMA FailedTyped ==
    ASSUME LibraryTypeOK, AppsKnown, NEW p \in Actors
    PROVE  FailedBy(p) \subseteq Games
<1>1. run[p].stage = "bad" => run[p].app \in Games
  BY DEF AppsKnown
<1>2. actor[p].failed \subseteq Games
  BY ActorsTyped DEF ActorRecord
<1> QED
  BY <1>1, <1>2 DEF FailedBy

\* The actors keep their type, and who is about to install knows what.
LEMMA ActorStep ==
    ASSUME LibraryTypeOK, AppsKnown, [LibraryNext]_libraryVars
    PROVE  /\ actor' \in [Actors -> ActorRecord]
           /\ \A p \in Actors : actor'[p].pc \in {"spawn", "wait"} => actor'[p].app \in Games
<1> DEFINE Good == /\ actor' \in [Actors -> ActorRecord]
                   /\ \A p \in Actors : actor'[p].pc \in {"spawn", "wait"} => actor'[p].app \in Games
<1> USE ActorsTyped
<1>0. ASSUME NEW p \in Actors, NEW r \in ActorRecord, actor' = [actor EXCEPT ![p] = r],
             r.pc \in {"spawn", "wait"} => r.app \in Games
      PROVE  Good
  BY <1>0 DEF AppsKnown
<1>1. CASE UNCHANGED actor
  BY <1>1 DEF AppsKnown
<1>2. ASSUME NEW p \in Actors, PassLoads(p) PROVE Good
  <2> DEFINE r == [actor[p] EXCEPT !.pc = "guard", !.ask = (actor[p].pc = "away"),
                                   !.copy = allowed]
  <2>1. r \in ActorRecord /\ r.pc = "guard"
    <3>1. allowed \subseteq Games
      BY DEF LibraryTypeOK
    <3> QED
      BY <3>1 DEF ActorRecord, Pcs
  <2>2. actor' = [actor EXCEPT ![p] = r]
    BY <1>2, Zenon DEF PassLoads
  <2> HIDE DEF r
  <2> QED
    BY <1>0, <2>1, <2>2
<1>3. ASSUME NEW p \in Actors,
             PassGuards(p) \/ FastInstall(p) \/ Fallback(p) \/ HideLooks(p) \/ HideLaunches(p)
      PROVE  Good
  <2>1. PICK pc \in Pcs : Goes(p, pc) /\ (pc = "wait" => actor[p].pc = "spawn") /\ pc # "spawn"
    BY <1>3 DEF PassGuards, FastInstall, Fallback, HideLooks, HideLaunches, Pcs
  <2>2. actor'[p].app = actor[p].app
    BY <2>1 DEF Goes, ActorRecord
  <2> QED
    BY <2>1, <2>2, GoesFacts DEF AppsKnown
<1>4. ASSUME NEW p \in Actors, PassPolls(p) PROVE Good
  <2>1. PICK missing \in SUBSET actor[p].copy :
            actor' = [actor EXCEPT ![p] =
                         [actor[p] EXCEPT !.pc = "next", !.failed = FailedBy(p), !.todo = missing]]
    BY <1>4 DEF PassPolls
  <2> DEFINE r == [actor[p] EXCEPT !.pc = "next", !.failed = FailedBy(p), !.todo = missing]
  <2>2. r \in ActorRecord /\ r.pc = "next"
    BY FailedTyped DEF ActorRecord, Pcs
  <2> HIDE DEF r
  <2> QED
    BY <1>0, <2>1, <2>2 DEF r
<1>5. ASSUME NEW p \in Actors, InstallLooks(p) PROVE Good
  <2> DEFINE next(g) == IF manifest[g] = "full" \/ FastInstallRunning THEN "next" ELSE "spawn"
  <2>1. PICK g \in actor[p].todo :
            actor' = [actor EXCEPT ![p] =
                         [actor[p] EXCEPT !.todo = actor[p].todo \ {g}, !.app = g, !.pc = next(g)]]
    BY <1>5, Zenon DEF InstallLooks
  <2> DEFINE pc == next(g)
             r == [actor[p] EXCEPT !.todo = actor[p].todo \ {g}, !.app = g, !.pc = pc]
  <2>2. r \in ActorRecord /\ r.app \in Games
    BY DEF ActorRecord, Pcs
  <2>3. actor' = [actor EXCEPT ![p] = r]
    BY <2>1
  <2> HIDE DEF r
  <2> QED
    BY <1>0, <2>2, <2>3
<1>6. ASSUME NEW p \in Actors, InstallsDone(p) PROVE Good
  <2> DEFINE r == [Away EXCEPT !.pc = IF actor[p].ask THEN "hide" ELSE "idle",
                               !.failed = actor[p].failed]
  <2>1. r \in ActorRecord /\ r.pc \in {"hide", "idle"}
    BY DEF ActorRecord, Pcs, Away
  <2>2. Away \in ActorRecord /\ Away.pc = "away"
    BY DEF ActorRecord, Pcs, Away
  <2>3. actor' = [actor EXCEPT ![p] = IF p = "job" THEN Away ELSE r]
    BY <1>6, Zenon DEF InstallsDone
  <2> HIDE DEF r
  <2> QED
    BY <1>0, <2>1, <2>2, <2>3
<1>7. CASE JobWaits
  <2>1. PICK pc \in {"away", "spawn", "wait"} :
            actor' = [actor EXCEPT !["job"] = [actor["job"] EXCEPT !.failed = FailedBy("job"), !.pc = pc]]
    BY <1>7 DEF JobWaits
  <2> DEFINE r == [actor["job"] EXCEPT !.failed = FailedBy("job"), !.pc = pc]
  <2>2. "job" \in Actors /\ actor["job"].app \in Games
    BY <1>7 DEF JobWaits, AppsKnown, Actors
  <2>3. r \in ActorRecord /\ r.app \in Games
    BY <2>2, FailedTyped DEF ActorRecord, Pcs
  <2>4. actor' = [actor EXCEPT !["job"] = r]
    BY <2>1
  <2> HIDE DEF r
  <2> QED
    BY <1>0, <2>2, <2>3, <2>4
<1>8. CASE JobStarts
  <2>1. PICK g \in allowed : \/ actor' = [actor EXCEPT !["job"] =
                                   [Away EXCEPT !.pc = "next", !.copy = allowed, !.todo = {g},
                                                !.ask = TRUE]]
                             \/ actor' = [actor EXCEPT !["job"] =
                                   [Away EXCEPT !.pc = "confirm", !.copy = allowed]]
    BY <1>8, Zenon DEF JobStarts
  <2>2. /\ [Away EXCEPT !.pc = "next", !.copy = allowed, !.todo = {g}, !.ask = TRUE] \in ActorRecord
        /\ [Away EXCEPT !.pc = "confirm", !.copy = allowed] \in ActorRecord
        /\ [Away EXCEPT !.pc = "next", !.copy = allowed, !.todo = {g}, !.ask = TRUE].pc = "next"
        /\ [Away EXCEPT !.pc = "confirm", !.copy = allowed].pc = "confirm"
    BY DEF ActorRecord, Pcs, Away, LibraryTypeOK
  <2> QED
    BY <1>0, <2>1, <2>2 DEF Actors
<1>9. CASE JobUninstalls \/ \E p \in Actors : Dies(p)
  <2>1. PICK p \in Actors : actor' = [actor EXCEPT ![p] = Away]
    BY <1>9 DEF JobUninstalls, Dies, Actors
  <2>2. Away \in ActorRecord /\ Away.pc = "away"
    BY DEF ActorRecord, Pcs, Away
  <2> QED
    BY <1>0, <2>1, <2>2
<1> QED
  BY <1>1, <1>2, <1>3, <1>4, <1>5, <1>6, <1>7, <1>8, <1>9
     DEF LibraryNext, libraryVars, Pass, Installing, Actors, RunCloses, RunEnds, RunStalls,
         RunKilled, Assign, RecordScan, SteamDownloads, UserActs, AddLoads, AddSaves

\* The runs keep their type, and are of games.
LEMMA RunStep ==
    ASSUME LibraryTypeOK, AppsKnown, [LibraryNext]_libraryVars
    PROVE  /\ run' \in [Actors -> RunRecord]
           /\ \A p \in Actors : run'[p].stage # "none" => run'[p].app \in Games
<1> DEFINE Good == /\ run' \in [Actors -> RunRecord]
                   /\ \A p \in Actors : run'[p].stage # "none" => run'[p].app \in Games
<1> USE ActorsTyped
<1>0. ASSUME NEW p \in Actors, NEW r \in RunRecord, run' = [run EXCEPT ![p] = r],
             r.stage # "none" => r.app \in Games
      PROVE  Good
  BY <1>0 DEF AppsKnown
<1>1. CASE UNCHANGED run
  BY <1>1 DEF AppsKnown
<1>2. NoRun \in RunRecord /\ NoRun.stage = "none"
  BY DEF NoRun, RunRecord, Stages
<1>3. ASSUME NEW p \in Actors, Polls(p) PROVE Good
  <2> DEFINE r == IF run[p].owned THEN Reaped(run[p]) ELSE run[p]
  <2>1. r \in RunRecord /\ (r.stage # "none" => r.app \in Games)
    BY <1>2 DEF Reaped, Interrupted, AppsKnown, RunRecord, Stages
  <2>2. run' = [run EXCEPT ![p] = r]
    BY <1>3, Zenon DEF Polls
  <2> HIDE DEF r
  <2> QED
    BY <1>0, <2>1, <2>2
<1>4. ASSUME NEW p \in Actors, FastInstall(p) PROVE Good
  <2> DEFINE r == [stage |-> "starting", app |-> actor[p].app, owned |-> TRUE]
  <2>1. r \in RunRecord /\ r.app \in Games
    BY <1>4 DEF FastInstall, AppsKnown, RunRecord, Stages
  <2>2. run' = [run EXCEPT ![p] = r]
    BY <1>4, Zenon DEF FastInstall
  <2> HIDE DEF r
  <2> QED
    BY <1>0, <2>1, <2>2
<1>5. ASSUME NEW p \in Actors, Dies(p) PROVE Good
  <2> DEFINE r == IF Live(p) THEN [run[p] EXCEPT !.owned = FALSE] ELSE NoRun
  <2>1. r \in RunRecord /\ (r.stage # "none" => r.app \in Games)
    BY <1>2 DEF AppsKnown, RunRecord
  <2>2. run' = [run EXCEPT ![p] = r]
    BY <1>5, Zenon DEF Dies
  <2> HIDE DEF r
  <2> QED
    BY <1>0, <2>1, <2>2
<1>6. ASSUME NEW p \in Actors, NEW how \in {"ok", "bad"}, Ends(p, how), run[p].stage # "none"
      PROVE  Good
  <2> DEFINE r == IF run[p].owned THEN [run[p] EXCEPT !.stage = how] ELSE NoRun
  <2>1. r \in RunRecord /\ (r.stage # "none" => r.app \in Games)
    BY <1>2, <1>6 DEF AppsKnown, RunRecord, Stages
  <2>2. run' = [run EXCEPT ![p] = r]
    BY <1>6, Zenon DEF Ends
  <2> HIDE DEF r
  <2> QED
    BY <1>0, <2>1, <2>2
<1>7. ASSUME NEW p \in Actors, RunCloses(p) \/ RunStalls(p) PROVE Good
  <2>1. PICK stage \in {"loading", "stalled"} :
            run' = [run EXCEPT ![p].stage = stage] /\ run[p].stage # "none"
    BY <1>7 DEF RunCloses, RunStalls
  <2> QED
    BY <2>1 DEF AppsKnown, RunRecord, Stages
<1>8. ASSUME NEW p \in Actors, RunEnds(p) \/ RunKilled(p) PROVE Good
  BY <1>6, <1>8 DEF RunEnds, RunKilled, Live
<1> QED
  BY <1>1, <1>3, <1>4, <1>5, <1>7, <1>8
     DEF LibraryNext, libraryVars, Pass, Installing, Actors, PassLoads, PassGuards, PassPolls,
         InstallLooks, InstallsDone, Fallback, HideLooks, HideLaunches, JobStarts, JobWaits,
         JobUninstalls, Assign, RecordScan, SteamDownloads, UserActs, AddLoads, AddSaves

-----------------------------------------------------------------------------
\* A step moves one actor at most, and brings it to a removal only by loading.
LEMMA OneMoves ==
    ASSUME LibraryTypeOK, AppsKnown, [LibraryNext]_libraryVars
    PROVE  \/ UNCHANGED actor
           \/ \E p \in Actors :
                 /\ \A q \in Actors \ {p} : actor'[q] = actor[q]
                 /\ actor'[p].pc \in Removing => PassLoads(p) \/ (p = "job" /\ JobStarts)
<1> DEFINE Good == \E p \in Actors :
                 /\ \A q \in Actors \ {p} : actor'[q] = actor[q]
                 /\ actor'[p].pc \in Removing => PassLoads(p) \/ (p = "job" /\ JobStarts)
<1> USE ActorsTyped
<1>1. ASSUME NEW p \in Actors,
             PassGuards(p) \/ FastInstall(p) \/ Fallback(p) \/ HideLooks(p) \/ HideLaunches(p)
      PROVE  Good
  <2>1. PICK pc \in Pcs \ Removing : Goes(p, pc)
    BY <1>1 DEF PassGuards, FastInstall, Fallback, HideLooks, HideLaunches, Pcs, Removing
  <2> QED
    BY <2>1, GoesFacts DEF Removing
<1>2. ASSUME NEW p \in Actors, PassLoads(p) PROVE Good
  BY <1>2 DEF PassLoads
<1>3. ASSUME NEW p \in Actors, PassPolls(p) PROVE Good
  BY <1>3 DEF PassPolls, ActorRecord, Removing
<1>4. ASSUME NEW p \in Actors, InstallLooks(p) PROVE Good
  BY <1>4 DEF InstallLooks, ActorRecord, Removing
<1>5. ASSUME NEW p \in Actors, InstallsDone(p) \/ Dies(p) PROVE Good
  <2> DEFINE r == [Away EXCEPT !.pc = IF actor[p].ask THEN "hide" ELSE "idle",
                               !.failed = actor[p].failed]
  <2>1. r.pc \in {"hide", "idle"} /\ Away.pc = "away"
    BY DEF Away
  <2>2. \/ actor' = [actor EXCEPT ![p] = IF p = "job" THEN Away ELSE r]
        \/ actor' = [actor EXCEPT ![p] = Away]
    BY <1>5, Zenon DEF InstallsDone, Dies
  <2> HIDE DEF r
  <2> QED
    BY <2>1, <2>2 DEF Removing
<1>6. CASE JobStarts
  BY <1>6 DEF JobStarts, Actors
<1>7. CASE JobWaits
  <2>1. PICK pc \in {"away", "spawn", "wait"} :
            actor' = [actor EXCEPT !["job"] = [actor["job"] EXCEPT !.failed = FailedBy("job"), !.pc = pc]]
    BY <1>7 DEF JobWaits
  <2>2. [actor["job"] EXCEPT !.failed = FailedBy("job"), !.pc = pc].pc = pc
    BY DEF ActorRecord, Actors
  <2> QED
    BY <2>1, <2>2 DEF Removing, Actors
<1>8. CASE JobUninstalls
  BY <1>8 DEF JobUninstalls, Away, Removing, Actors
<1> QED
  BY <1>1, <1>2, <1>3, <1>4, <1>5, <1>6, <1>7, <1>8
     DEF LibraryNext, libraryVars, Pass, Installing, Actors, RunCloses, RunEnds, RunStalls,
         RunKilled, Assign, RecordScan, SteamDownloads, UserActs, AddLoads, AddSaves

\* Everything but the actors and the runs.
RestTyped ==
    /\ allowed \subseteq Games /\ approved \subseteq Games /\ zero \subseteq Games
    /\ manifest \in Manifests /\ playing \in Games \cup {"nothing"}
    /\ client \in {"open", "closed"}
    /\ adder \in [Adders -> [pc: {"off", "loaded"}, copy: SUBSET Games]]
    /\ stayed \in [Actors -> StayedRecord] /\ since \in [Actors -> BOOLEAN]
    /\ left \in 0..LibraryEvents

\* The library, the client, what may stay and the histories keep their types.
LEMMA RestStep ==
    ASSUME LibraryTypeOK, AppsKnown, [LibraryNext]_libraryVars
    PROVE  RestTyped'
<1>1. RestTyped
  BY ActorsTyped DEF LibraryTypeOK, RestTyped
<1>2. Event => left' \in 0..LibraryEvents
  BY <1>1, LibraryAssumption DEF Event, RestTyped
<1>3. \A gone : Uninstalled(gone) \in Manifests
  BY <1>1 DEF Uninstalled, Manifests, RestTyped
<1>4. \A g \in Games : Queued(g) \in Manifests
  BY <1>1 DEF Queued, Manifests, RestTyped
<1>5. Nothing \in StayedRecord /\ MayStay \in StayedRecord
  BY <1>1 DEF Nothing, MayStay, StayedRecord, Protected, RestTyped
<1>6. \A kept : /\ StillAllowed(kept) => stayed' \in [Actors -> StayedRecord]
                /\ StillProtected(kept) => stayed' \in [Actors -> StayedRecord]
  BY <1>1 DEF StillAllowed, StillProtected, StayedRecord, RestTyped
<1>7. \A g \in Games : \A state \in {"none", "queued", "full"} :
          [manifest EXCEPT ![g] = state] \in Manifests
  BY <1>1 DEF RestTyped, Manifests
<1>8. CASE UNCHANGED libraryVars
  BY <1>1, <1>8 DEF libraryVars, RestTyped
<1>9. ASSUME NEW p \in Actors, PassLoads(p) \/ PassGuards(p) \/ PassPolls(p) PROVE RestTyped'
  BY <1>1, <1>3, <1>5, <1>9 DEF PassLoads, PassGuards, PassPolls, RestTyped
<1>10. ASSUME NEW p \in Actors, InstallLooks(p) \/ InstallsDone(p) PROVE RestTyped'
  BY <1>1, <1>10 DEF InstallLooks, InstallsDone, RestTyped
<1>11. ASSUME NEW p \in Actors, FastInstall(p) \/ Fallback(p) PROVE RestTyped'
  <2>1. actor[p].app \in Games
    BY <1>11 DEF FastInstall, Fallback, AppsKnown
  <2>2. manifest' \in Manifests /\ client' \in {"open", "closed"}
    BY <1>1, <1>4, <1>11, <2>1 DEF FastInstall, Fallback, RestTyped
  <2>3. since' \in [Actors -> BOOLEAN]
    BY <1>1, <1>11 DEF FastInstall, Fallback, RestTyped
  <2> QED
    BY <1>1, <1>11, <2>2, <2>3 DEF FastInstall, Fallback, RestTyped
<1>12. ASSUME NEW p \in Actors, HideLooks(p) \/ HideLaunches(p) \/ Dies(p) PROVE RestTyped'
  BY <1>1, <1>2, <1>5, <1>12 DEF HideLooks, HideLaunches, Dies, RestTyped
<1>13. CASE JobStarts \/ JobWaits \/ JobUninstalls
  <2>1. CASE JobStarts
    <3>1. stayed' = [stayed EXCEPT !["job"] = MayStay] /\ Event
          /\ UNCHANGED <<allowed, approved, zero, manifest, playing, client, adder, since>>
      BY <2>1, Zenon DEF JobStarts
    <3> QED
      BY <1>1, <1>2, <1>5, <3>1 DEF RestTyped
  <2>2. CASE JobWaits
    <3>1. UNCHANGED <<allowed, approved, zero, manifest, playing, client, adder, stayed, since, left>>
      BY <2>2, Zenon DEF JobWaits
    <3> QED
      BY <1>1, <3>1 DEF RestTyped
  <2>3. CASE JobUninstalls
    BY <1>1, <1>3, <1>5, <2>3 DEF JobUninstalls, RestTyped
  <2> QED
    BY <1>13, <2>1, <2>2, <2>3
<1>14. ASSUME NEW p \in Actors, RunCloses(p) \/ RunStalls(p) \/ RunKilled(p) PROVE RestTyped'
  BY <1>1, <1>2, <1>14 DEF RunCloses, RunStalls, RunKilled, RestTyped
<1>15. ASSUME NEW p \in Actors, RunEnds(p) PROVE RestTyped'
  BY <1>1, <1>7, <1>15 DEF RunEnds, AppsKnown, RestTyped
<1>16. CASE Assign \/ RecordScan \/ SteamDownloads
  BY <1>1, <1>2, <1>6, <1>7, <1>16 DEF Assign, RecordScan, SteamDownloads, RestTyped
<1>17. CASE UserActs
  BY <1>1, <1>2, <1>7, <1>17 DEF UserActs, RestTyped
<1>18. ASSUME NEW s \in Adders, AddLoads(s) \/ AddSaves(s) PROVE RestTyped'
  <2>1. adder' \in [Adders -> [pc: {"off", "loaded"}, copy: SUBSET Games]] /\ approved' \subseteq Games
    BY <1>1, <1>18 DEF AddLoads, AddSaves, NotAdding, RestTyped
  <2> QED
    BY <1>1, <1>2, <1>6, <1>18, <2>1 DEF AddLoads, AddSaves, RestTyped
<1> QED
  BY <1>8, <1>9, <1>10, <1>11, <1>12, <1>13, <1>14, <1>15, <1>16, <1>17, <1>18
     DEF LibraryNext, Pass, Installing, Actors

LEMMA TypeStep ==
    LibraryTypeOK /\ AppsKnown /\ [LibraryNext]_libraryVars => LibraryTypeOK' /\ AppsKnown'
<1> SUFFICES ASSUME LibraryTypeOK, AppsKnown, [LibraryNext]_libraryVars
             PROVE  LibraryTypeOK' /\ AppsKnown'
  OBVIOUS
<1>1. actor' \in [Actors -> ActorRecord] /\ run' \in [Actors -> RunRecord] /\ RestTyped'
  BY ActorStep, RunStep, RestStep
<1>2. LibraryTypeOK'
  BY <1>1 DEF LibraryTypeOK, RestTyped, ActorRecord, Pcs, RunRecord, StayedRecord, Manifests
<1> QED
  BY <1>2, ActorStep, RunStep DEF AppsKnown

-----------------------------------------------------------------------------
\* A step that takes a protection away takes it off what stayed, too.
LEMMA StayedStep ==
    ASSUME LibraryTypeOK, AppsKnown, StayedHeld, [LibraryNext]_libraryVars
    PROVE  StayedHeld'
<1> USE ActorsTyped
<1>1. ASSUME NEW p \in Actors, PassLoads(p) \/ (p = "job" /\ JobStarts) PROVE StayedHeld'
  <2>1. actor'[p].pc \in Removing => actor'[p].copy = allowed
    BY <1>1, LoadsFacts, JobStartsFacts
  <2>2. stayed' = [stayed EXCEPT ![p] = MayStay] /\ UNCHANGED <<approved, zero>>
    BY <1>1, Zenon DEF PassLoads, JobStarts
  <2>3. \A q \in Actors \ {p} : actor'[q] = actor[q]
    BY <1>1, LoadsFacts, JobStartsFacts
  <2> QED
    BY <2>1, <2>2, <2>3 DEF StayedHeld, MayStay, Protected
<1>2. ASSUME ~(\E p \in Actors : PassLoads(p) \/ (p = "job" /\ JobStarts)) PROVE StayedHeld'
  <2>1. \A p \in Actors : actor'[p].pc \in Removing => actor'[p] = actor[p]
    BY <1>2, OneMoves
  <2>2. \/ UNCHANGED <<stayed, approved, zero>>
        \/ UNCHANGED <<approved, zero>> /\ \E p \in Actors : stayed' = [stayed EXCEPT ![p] = Nothing]
        \/ UNCHANGED <<approved, zero>> /\ StillAllowed(allowed')
        \/ StillProtected(approved' \cup zero')
    BY <1>2 DEF LibraryNext, libraryVars, Pass, Installing, Actors, PassGuards, PassPolls,
           InstallLooks, InstallsDone, FastInstall, Fallback, HideLooks, HideLaunches, JobStarts,
           JobWaits, JobUninstalls, Dies, RunCloses, RunEnds, RunStalls, RunKilled, Assign,
           RecordScan, SteamDownloads, UserActs, AddLoads, AddSaves
  <2>3. ASSUME NEW p \in Actors, stayed[p].protected \subseteq Protected
        PROVE  stayed'[p].allowed \subseteq stayed[p].allowed /\ stayed'[p].protected \subseteq Protected'
    BY <2>2, <2>3 DEF Protected, Nothing, StillAllowed, StillProtected, StayedRecord
  <2> QED
    BY <2>1, <2>3 DEF StayedHeld
<1> QED
  BY <1>1, <1>2

\* An installer starts only behind the back of the others.
LEMMA LookedStep ==
    ASSUME LibraryTypeOK, AppsKnown, Looked, [LibraryNext]_libraryVars
    PROVE  Looked'
<1> DEFINE Past == {"spawn", "wait", "launch"}
           NoneStarts == \A q \in Actors : Live(q)' => Live(q)
<1> USE ActorsTyped
\* Who goes on to none of these steps needs no excuse.
<1>0. ASSUME NEW p \in Actors, actor'[p].pc \notin Past, \A q \in Actors \ {p} : actor'[q] = actor[q],
             NoneStarts, \A q \in Actors \ {p} : since'[q] = since[q]
      PROVE  Looked'
  BY <1>0 DEF Looked
<1>1. CASE UNCHANGED <<actor, run, since>>
  BY <1>1 DEF Looked, Live
<1>2. ASSUME NEW p \in Actors, Polls(p) PROVE NoneStarts
  BY <1>2 DEF Polls, Reaped, Interrupted, NoRun, Live, RunRecord
<1>3. ASSUME NEW p \in Actors, PassLoads(p) \/ PassGuards(p) \/ Fallback(p) \/ HideLaunches(p)
      PROVE  Looked'
  <2>1. actor'[p].pc \notin Past /\ \A q \in Actors \ {p} : actor'[q] = actor[q]
    <3>1. CASE PassLoads(p)
      BY <3>1, LoadsFacts
    <3>2. CASE PassGuards(p) \/ Fallback(p) \/ HideLaunches(p)
      <4>1. PICK pc \in {"poll", "next", "idle"} : Goes(p, pc)
        BY <3>2 DEF PassGuards, Fallback, HideLaunches
      <4> QED
        BY <4>1, GoesAlone
    <3> QED
      BY <1>3, <3>1, <3>2
  <2>2. UNCHANGED <<run, since>>
    BY <1>3 DEF PassLoads, PassGuards, Fallback, HideLaunches
  <2> QED
    BY <1>0, <2>1, <2>2 DEF Live
<1>4. ASSUME NEW p \in Actors, PassPolls(p) PROVE Looked'
  <2>1. actor'[p].pc = "next" /\ \A q \in Actors \ {p} : actor'[q] = actor[q]
    BY <1>4 DEF PassPolls, ActorRecord
  <2> QED
    BY <1>0, <1>2, <1>4, <2>1 DEF PassPolls
<1>5. ASSUME NEW p \in Actors, InstallsDone(p) \/ Dies(p) PROVE Looked'
  <2>1. actor'[p].pc \notin Past /\ \A q \in Actors \ {p} : actor'[q] = actor[q]
    <3> DEFINE r == [Away EXCEPT !.pc = IF actor[p].ask THEN "hide" ELSE "idle",
                                 !.failed = actor[p].failed]
    <3>1. r.pc \in {"hide", "idle"} /\ Away.pc = "away"
      BY DEF Away
    <3>2. \/ actor' = [actor EXCEPT ![p] = IF p = "job" THEN Away ELSE r]
          \/ actor' = [actor EXCEPT ![p] = Away]
      BY <1>5, Zenon DEF InstallsDone, Dies
    <3> HIDE DEF r
    <3> QED
      BY <3>1, <3>2
  <2>2. NoneStarts /\ UNCHANGED since
    BY <1>5 DEF InstallsDone, Dies, NoRun, Live, RunRecord
  <2> QED
    BY <1>0, <2>1, <2>2
<1>6. CASE JobStarts \/ JobUninstalls
  <2>1. "job" \in Actors /\ actor'["job"].pc \notin Past /\ \A q \in Actors \ {"job"} : actor'[q] = actor[q]
    <3>1. CASE JobStarts
      BY <3>1, JobStartsFacts
    <3>2. CASE JobUninstalls
      BY <3>2 DEF JobUninstalls, Away, Actors
    <3> QED
      BY <1>6, <3>1, <3>2
  <2>2. UNCHANGED <<run, since>>
    BY <1>6 DEF JobStarts, JobUninstalls
  <2> QED
    BY <1>0, <2>1, <2>2 DEF Live
<1>7. ASSUME NEW p \in Actors, InstallLooks(p) \/ HideLooks(p) PROVE Looked'
  <2>1. actor'[p].pc \in Past => ~FastInstallRunning /\ actor'[p].pc # "wait"
    <3>1. CASE HideLooks(p)
      <4>1. PICK pc \in {"idle", "launch"} : Goes(p, pc) /\ (pc = "launch" => ~FastInstallRunning)
        BY <3>1 DEF HideLooks
      <4> QED
        BY <4>1, GoesAlone
    <3>2. CASE InstallLooks(p)
      <4>1. PICK g \in actor[p].todo, pc \in {"next", "spawn"} :
                /\ actor' = [actor EXCEPT ![p] =
                      [actor[p] EXCEPT !.todo = actor[p].todo \ {g}, !.app = g, !.pc = pc]]
                /\ pc = "spawn" => ~FastInstallRunning
        BY <3>2 DEF InstallLooks
      <4> DEFINE r == [actor[p] EXCEPT !.todo = actor[p].todo \ {g}, !.app = g, !.pc = pc]
      <4>2. r.pc = pc
        BY DEF ActorRecord
      <4>3. actor' = [actor EXCEPT ![p] = r]
        BY <4>1
      <4> HIDE DEF r
      <4> QED
        BY <4>1, <4>2, <4>3
    <3> QED
      BY <1>7, <3>1, <3>2
  <2>2. \A q \in Actors \ {p} : actor'[q] = actor[q] /\ since'[q] = since[q]
    <3>1. since' = [since EXCEPT ![p] = FALSE] /\ since \in [Actors -> BOOLEAN]
      BY <1>7 DEF InstallLooks, HideLooks, LibraryTypeOK
    <3>2. CASE HideLooks(p)
      <4>1. PICK pc \in {"idle", "launch"} : Goes(p, pc)
        BY <3>2 DEF HideLooks
      <4> QED
        BY <3>1, <4>1, GoesAlone
    <3>3. CASE InstallLooks(p)
      <4>1. PICK r : actor' = [actor EXCEPT ![p] = r]
        BY <3>3, Zenon DEF InstallLooks
      <4> QED
        BY <3>1, <4>1
    <3> QED
      BY <1>7, <3>2, <3>3
  <2>3. UNCHANGED run
    BY <1>7 DEF InstallLooks, HideLooks
  <2> QED
    BY <2>1, <2>2, <2>3 DEF Looked, Live, FastInstallRunning
<1>8. ASSUME NEW p \in Actors, FastInstall(p) PROVE Looked'
  <2>1. /\ actor[p].pc = "spawn" /\ actor'[p].pc \in {"wait", "next"}
        /\ \A q \in Actors \ {p} : actor'[q] = actor[q]
    BY <1>8 DEF FastInstall, Goes, ActorRecord
  <2>2. /\ since'[p] = since[p] /\ \A q \in Actors \ {p} : since'[q]
        /\ \A q \in Actors \ {p} : Live(q)' <=> Live(q)
    <3>1. since \in [Actors -> BOOLEAN]
      BY DEF LibraryTypeOK
    <3> QED
      BY <1>8, <3>1 DEF FastInstall, Live
  <2> QED
    BY <2>1, <2>2 DEF Looked
<1>9. CASE JobWaits
  <2>1. "job" \in Actors
    BY DEF Actors
  <2>2. actor'["job"].pc = "spawn" => run["job"].stage = "bad"
    BY <1>9, <2>1 DEF JobWaits, ActorRecord
  <2>3. run["job"].stage = "bad" => ~Live("job")'
    BY <1>9, <2>1 DEF JobWaits, Polls, Reaped, NoRun, Live
  <2>4. NoneStarts
    BY <1>2, <1>9, <2>1 DEF JobWaits
  <2>5. /\ actor["job"].pc = "wait" /\ actor'["job"].pc \in {"away", "spawn", "wait"}
        /\ \A q \in Actors \ {"job"} : actor'[q] = actor[q]
    BY <1>9, <2>1 DEF JobWaits, ActorRecord
  <2>6. UNCHANGED since
    BY <1>9 DEF JobWaits
  <2> QED
    BY <2>2, <2>3, <2>4, <2>5, <2>6 DEF Looked
<1>10. ASSUME NEW p \in Actors, RunCloses(p) \/ RunEnds(p) \/ RunStalls(p) \/ RunKilled(p)
       PROVE  Looked'
  <2>1. NoneStarts
    BY <1>10 DEF RunCloses, RunEnds, RunStalls, RunKilled, Ends, NoRun, Live, RunRecord
  <2>2. UNCHANGED <<actor, since>>
    BY <1>10 DEF RunCloses, RunEnds, RunStalls, RunKilled
  <2> QED
    BY <2>1, <2>2 DEF Looked
<1> QED
  BY <1>1, <1>3, <1>4, <1>5, <1>6, <1>7, <1>8, <1>9, <1>10
     DEF LibraryNext, libraryVars, Pass, Installing, Actors, Assign, RecordScan, SteamDownloads,
         UserActs, AddLoads, AddSaves

LEMMA LibraryInitInv == LibraryInit => LibraryInv
  BY LibraryAssumption
     DEF LibraryInit, Away, NoRun, NotAdding, Nothing, LibraryInv, LibraryTypeOK, AppsKnown,
         StayedHeld, Looked, Removing, Stages, Live

LEMMA LibraryStepInv == LibraryInv /\ [LibraryNext]_libraryVars => LibraryInv'
  BY TypeStep, StayedStep, LookedStep DEF LibraryInv

-----------------------------------------------------------------------------
\* Library: types, and the facts above, hold throughout.
THEOREM LibraryInvariant == LibrarySpec => []LibraryInv
  BY LibraryInitInv, LibraryStepInv, PTL DEF LibrarySpec

\* No pass and no uninstall job removes a game that was allowed, or one that was
\* excepted or without achievements, ever since it read the state.
THEOREM GamesThatMayStayDo == LibrarySpec => KeptGamesStay
<1>1. ASSUME LibraryInv, [LibraryNext]_libraryVars,
             NEW p \in Actors, actor[p].pc \in {"guard", "confirm"}, actor'[p].pc # actor[p].pc,
             NEW g \in stayed[p].allowed \cup stayed[p].protected, manifest[g] # "none"
      PROVE  manifest'[g] # "none"
  <2>1. LibraryTypeOK /\ g \in Games /\ g \in actor[p].copy \cup Protected
    BY <1>1, ActorsTyped DEF LibraryInv, StayedHeld, Removing, StayedRecord
  <2>2. ASSUME NEW q \in Actors, PassGuards(q) \/ (q = "job" /\ JobUninstalls) PROVE manifest'[g] # "none"
    <3>1. p = q
      <4>1. \/ Goes(q, "poll") \/ actor' = [actor EXCEPT ![q] = Away]
        BY <2>2 DEF PassGuards, JobUninstalls
      <4> QED
        BY <1>1, <2>1, <4>1, ActorsTyped, GoesAlone
    <3>2. PICK gone \in SUBSET Removable(p) : manifest' = Uninstalled(gone)
      BY <2>2, <3>1 DEF PassGuards, JobUninstalls
    <3>3. g \notin gone
      BY <2>1, <3>2 DEF Removable
    <3> QED
      BY <1>1, <2>1, <3>2, <3>3 DEF Uninstalled
  <2>3. ASSUME NEW q \in Actors, Dies(q) PROVE manifest'[g] # "none"
    BY <1>1, <2>3 DEF Dies
  <2>4. CASE UNCHANGED manifest
    BY <1>1, <2>4
  <2>5. CASE UNCHANGED actor
    BY <1>1, <2>5
  <2>6. ASSUME NEW q \in Actors, FastInstall(q) \/ Fallback(q) PROVE manifest'[g] # "none"
    <3>1. manifest' = manifest \/ manifest' = Queued(actor[q].app)
      BY <2>6 DEF FastInstall, Fallback
    <3>2. Queued(actor[q].app)[g] # "none"
      BY <1>1, <2>1, ActorsTyped DEF Queued, Manifests
    <3> QED
      BY <1>1, <3>1, <3>2
  <2> QED
    BY <1>1, <2>2, <2>3, <2>4, <2>5, <2>6
       DEF LibraryNext, libraryVars, Pass, Installing, Actors, PassLoads, PassPolls, InstallLooks,
           InstallsDone, HideLooks, HideLaunches, JobStarts, JobWaits,
           RunCloses, RunEnds, RunStalls, RunKilled, Assign, RecordScan, SteamDownloads, UserActs,
           AddLoads, AddSaves
<1>2. LibraryInv /\ [LibraryNext]_libraryVars =>
          [\A p \in Actors : actor[p].pc \in {"guard", "confirm"} /\ actor'[p].pc # actor[p].pc
              => \A g \in stayed[p].allowed \cup stayed[p].protected :
                    manifest[g] # "none" => manifest'[g] # "none"]_libraryVars
  BY <1>1
<1> QED
  BY <1>2, LibraryInvariant, PTL DEF LibrarySpec, KeptGamesStay

\* Nobody opens Steam under an installer that it could have seen.
THEOREM InstallersSpared == LibrarySpec => LaunchSparesInstaller
<1>1. ASSUME LibraryInv, [LibraryNext]_libraryVars,
             NEW p \in Actors, client = "closed", client' = "open", actor'[p] # actor[p],
             FastInstallRunning
      PROVE  since[p]
  <2>1. ASSUME NEW q \in Actors, HideLaunches(q) \/ Fallback(q) PROVE since[p]
    <3>1. p = q
      <4>1. PICK pc : Goes(q, pc)
        BY <2>1 DEF HideLaunches, Fallback
      <4> QED
        BY <1>1, <4>1, ActorsTyped, GoesAlone DEF LibraryInv
    <3>2. actor[p].pc \in {"spawn", "launch"}
      BY <2>1, <3>1 DEF HideLaunches, Fallback
    <3> QED
      BY <1>1, <3>2 DEF FastInstallRunning, LibraryInv, Looked
  <2>2. ASSUME UNCHANGED client \/ UNCHANGED actor PROVE FALSE
    BY <1>1, <2>2
  <2> QED
    BY <1>1, <2>1, <2>2
       DEF LibraryNext, libraryVars, Pass, Installing, Actors, PassLoads, PassGuards, PassPolls,
           InstallLooks, InstallsDone, FastInstall, HideLooks, JobStarts, JobWaits, JobUninstalls,
           Dies, RunCloses, RunEnds, RunStalls, RunKilled, Assign, RecordScan, SteamDownloads,
           UserActs, AddLoads, AddSaves
<1>2. LibraryInv /\ [LibraryNext]_libraryVars =>
          [\A p \in Actors : client = "closed" /\ client' = "open" /\ actor'[p] # actor[p]
                             /\ FastInstallRunning => since[p]]_libraryVars
  BY <1>1
<1> QED
  BY <1>2, LibraryInvariant, PTL DEF LibrarySpec, LaunchSparesInstaller

-----------------------------------------------------------------------------
(* Scan. *)

ScanPc == {"idle", "fetch", "record", "write", "save"}
ScanRecord == [pc : ScanPc, start : 0..scanDay, asked : SUBSET Owned, todo : SUBSET Owned,
               none : SUBSET Owned, found : SUBSET Owned]

Memo == [pc : {"idle", "none", "snap"}, fresh : BOOLEAN, stamped : BOOLEAN,
         ids : SUBSET Owned, read : SUBSET Owned]

\* The cache holds games whose last recorded answer was that they have none, but
\* for those a scan has written back; and so does what a scan is about to write,
\* but for what it was answered itself and what others found meanwhile.
CacheOnAnswer ==
    /\ \A g \in DOMAIN noneFile : said[g] = "none" \/ g \in crossed
    /\ \A s \in Scanners : scan[s].pc = "write" =>
          \A g \in DOMAIN copy[s] :
              \/ g \in scan[s].none \ scan[s].found
              \/ /\ g \notin scan[s].none \cup scan[s].found
                 /\ said[g] = "none" \/ g \in crossed \/ g \in missed[s]

\* While no file changes, what the reader holds follows the cache.
ReadingFollows ==
    /\ zeroMemo.pc = "snap" /\ zeroMemo.stamped => zeroMemo.read \subseteq DOMAIN noneFile
    /\ zeroMemo.fresh => zeroMemo.ids \subseteq DOMAIN noneFile

\* A game with achievements that is in the cache or in a copy of it, or that a
\* scan was told has none, got them no earlier than the day that stands for that
\* answer.
GainsAfterAnswer ==
    /\ \A s \in Scanners : \A g \in DOMAIN copy[s] : g \in has => gained[g] >= copy[s][g]
    /\ \A g \in DOMAIN noneFile : g \in has => gained[g] >= noneFile[g]
    /\ \A s \in Scanners : \A g \in scan[s].none : g \in has => gained[g] >= scan[s].start

\* A scan asks for every game that has had achievements for the recheck time.
OldGainsAsked ==
    \A s \in Scanners : scan[s].pc # "idle" =>
        \A g \in has : gained[g] + Recheck <= scan[s].start => g \in scan[s].asked

ScanInv ==
    /\ ScanTypeOK
    /\ CacheOnAnswer
    /\ ReadingFollows
    /\ GainsAfterAnswer
    /\ OldGainsAsked

-----------------------------------------------------------------------------
\* A game in the cache that had achievements for the recheck time is not skipped.
LEMMA OldGainsNotSkipped ==
    ASSUME ScanTypeOK, GainsAfterAnswer, NEW g \in has, gained[g] + Recheck <= scanDay
    PROVE  g \notin Skippable
<1>1. SUFFICES ASSUME g \in Skippable PROVE FALSE
  OBVIOUS
<1>2. g \in DOMAIN noneFile /\ scanDay - noneFile[g] < Recheck
  BY <1>1 DEF Skippable
<1>3. gained[g] >= noneFile[g]
  BY <1>2 DEF GainsAfterAnswer
<1>4. gained[g] \in Int /\ noneFile[g] \in Int /\ scanDay \in Int /\ Recheck \in Int
  BY <1>2, ScanAssumption DEF ScanTypeOK
<1> QED
  BY <1>2, <1>3, <1>4

\* What a scan records: of each game, an old entry that was not answered anew,
\* or the start of the scan for a game it was told has none.
LEMMA RecordedFacts ==
    ASSUME NEW s \in Scanners,
           NEW g \in DOMAIN Recorded(s, scan[s].found \cup scan[s].none)
    PROVE  LET cache == Recorded(s, scan[s].found \cup scan[s].none)
           IN  \/ /\ g \in DOMAIN noneFile /\ cache[g] = noneFile[g]
                  /\ g \notin scan[s].found \cup scan[s].none
               \/ /\ g \in scan[s].none \ scan[s].found /\ cache[g] = scan[s].start
  BY DEF Recorded

\* An answer adds to what a scan knows and leaves what it asks.
Asks(s, g) == [scan[s] EXCEPT !.todo = @ \ {g},
                   !.pc = IF scan[s].todo = {g} THEN "record" ELSE "fetch"]
LEMMA ScanFetchIs ==
    ASSUME ScanTypeOK, NEW s \in Scanners, NEW g \in Owned, Fetch(s, g) \/ FetchEmpty(s, g)
    PROVE  /\ Asks(s, g) \in ScanRecord /\ Asks(s, g).start = scan[s].start
           /\ Asks(s, g).asked = scan[s].asked /\ Asks(s, g).none = scan[s].none
           /\ scan[s].pc = "fetch" /\ Asks(s, g).pc # "write"
           /\ \/ Fetch(s, g) /\ scan' = [scan EXCEPT ![s] = Asks(s, g)]
              \/ /\ Fetch(s, g)
                 /\ scan' = [scan EXCEPT ![s] = [Asks(s, g) EXCEPT !.found = @ \cup {g}]]
              \/ /\ FetchEmpty(s, g) \/ g \notin has
                 /\ scan' = [scan EXCEPT ![s] = [Asks(s, g) EXCEPT !.none = @ \cup {g}]]
<1>1. /\ Asks(s, g) \in ScanRecord /\ Asks(s, g).start = scan[s].start
      /\ Asks(s, g).asked = scan[s].asked /\ Asks(s, g).none = scan[s].none
      /\ Asks(s, g).pc # "write"
  BY DEF Asks, ScanTypeOK, ScanRecord, ScanPc
<1>2. scan[s].pc = "fetch"
  BY DEF Fetch, FetchEmpty
<1>3. CASE Fetch(s, g)
  <2>1. scan' \in {[scan EXCEPT ![s] = Asks(s, g)],
                   [scan EXCEPT ![s] = IF g \in has THEN [Asks(s, g) EXCEPT !.found = @ \cup {g}]
                                       ELSE [Asks(s, g) EXCEPT !.none = @ \cup {g}]]}
    BY <1>3, Zenon DEF Fetch, Asks
  <2> QED
    BY <1>1, <1>2, <1>3, <2>1
<1>4. CASE FetchEmpty(s, g)
  <2>1. scan' = [scan EXCEPT ![s] = [Asks(s, g) EXCEPT !.none = @ \cup {g}]]
    BY <1>4, Zenon DEF FetchEmpty, Asks
  <2> QED
    BY <1>1, <1>2, <1>4, <2>1
<1> QED
  BY <1>3, <1>4

LEMMA FetchFacts ==
    ASSUME ScanTypeOK, NEW s \in Scanners, NEW g \in Owned, Fetch(s, g) \/ FetchEmpty(s, g)
    PROVE  /\ scan' \in [Scanners -> ScanRecord]
           /\ \A t \in Scanners :
               /\ scan'[t].start = scan[t].start /\ scan'[t].asked = scan[t].asked
               /\ scan'[t].pc # "idle" => scan[t].pc # "idle"
               /\ scan'[t].pc = "write" => scan'[t] = scan[t]
               /\ \A h \in scan'[t].none :
                     h \in scan[t].none \/ h \notin has \/ (h = g /\ FetchEmpty(s, g))
<1> DEFINE r == scan'[s]
<1>1. /\ Asks(s, g) \in ScanRecord /\ Asks(s, g).start = scan[s].start
      /\ Asks(s, g).asked = scan[s].asked /\ Asks(s, g).none = scan[s].none
      /\ scan[s].pc = "fetch" /\ Asks(s, g).pc # "write"
  BY ScanFetchIs
<1>2. /\ [Asks(s, g) EXCEPT !.found = @ \cup {g}] \in ScanRecord
      /\ [Asks(s, g) EXCEPT !.none = @ \cup {g}] \in ScanRecord
  BY <1>1 DEF ScanRecord
<1>3. scan \in [Scanners -> ScanRecord]
  BY DEF ScanTypeOK, ScanRecord, ScanPc
<1>4. \/ scan' = [scan EXCEPT ![s] = Asks(s, g)]
      \/ scan' = [scan EXCEPT ![s] = [Asks(s, g) EXCEPT !.found = @ \cup {g}]]
      \/ /\ FetchEmpty(s, g) \/ g \notin has
         /\ scan' = [scan EXCEPT ![s] = [Asks(s, g) EXCEPT !.none = @ \cup {g}]]
  BY ScanFetchIs
<1>5. /\ scan' \in [Scanners -> ScanRecord] /\ \A t \in Scanners \ {s} : scan'[t] = scan[t]
      /\ \/ r = Asks(s, g)
         \/ r = [Asks(s, g) EXCEPT !.found = @ \cup {g}]
         \/ /\ FetchEmpty(s, g) \/ g \notin has
            /\ r = [Asks(s, g) EXCEPT !.none = @ \cup {g}]
  BY <1>1, <1>2, <1>3, <1>4
<1> HIDE DEF r
<1>6. /\ r.start = scan[s].start /\ r.asked = scan[s].asked /\ r.pc # "write"
      /\ \A h \in r.none :
            h \in scan[s].none \/ h \notin has \/ (h = g /\ FetchEmpty(s, g))
  BY <1>1, <1>5 DEF ScanRecord
<1> QED
  BY <1>1, <1>5, <1>6 DEF r

\* The type invariant is inductive by itself.
LEMMA TypeInductive == ScanTypeOK /\ [ScanNext]_scanVars => ScanTypeOK'
<1> SUFFICES ASSUME ScanTypeOK, [ScanNext]_scanVars PROVE ScanTypeOK'
  OBVIOUS
<1> USE ScanAssumption
<1>1. CASE UNCHANGED scanVars
  BY <1>1 DEF ScanTypeOK, scanVars
<1>2. CASE DayEnds
  BY <1>2 DEF DayEnds, ScanTypeOK, recordVars
<1>3. CASE Look \/ ReadNone \/ ReadSnap
  <2>1. zeroMemo' \in Memo
    <3>1. CASE Look
      BY <3>1 DEF Look, ScanTypeOK, Memo
    <3>2. CASE ReadNone
      BY <3>2 DEF ReadNone, ScanTypeOK, Memo
    <3>3. CASE ReadSnap
      <4>1. zeroMemo.read \ snapFile \subseteq Owned /\ zeroMemo.stamped \in BOOLEAN
        BY DEF ScanTypeOK
      <4> QED
        BY <3>3, <4>1 DEF ReadSnap, ScanTypeOK, Memo
    <3> QED
      BY <1>3, <3>1, <3>2, <3>3
  <2>2. UNCHANGED <<flagged, has, gained, scanDay, noneFile, snapFile, scan, recordVars, scans,
                    changes>>
    BY <1>3 DEF Look, ReadNone, ReadSnap, steamVars
  <2> QED
    BY <2>1, <2>2 DEF ScanTypeOK, Memo, recordVars
<1>4. ASSUME NEW g \in Owned, GameChanges(g) PROVE ScanTypeOK'
  BY <1>4 DEF GameChanges, ScanTypeOK, recordVars
<1>5. ASSUME NEW s \in Scanners, Begin(s) PROVE ScanTypeOK'
  <2> DEFINE asked == Owned \ Skippable
             new == [pc |-> IF asked = {} THEN "record" ELSE "fetch", start |-> scanDay,
                     asked |-> asked, todo |-> asked, none |-> {}, found |-> {}]
  <2>1. scan' = [scan EXCEPT ![s] = new]
    BY <1>5, Zenon DEF Begin
  <2>2. new \in ScanRecord
    BY DEF ScanTypeOK, ScanRecord, ScanPc
  <2>3. scan' \in [Scanners -> ScanRecord]
    <3> HIDE DEF new
    <3> QED  BY <2>1, <2>2 DEF ScanTypeOK, ScanRecord, ScanPc
  <2>4. UNCHANGED <<flagged, has, gained, scanDay, noneFile, snapFile, zeroMemo, recordVars,
                    changes>>
        /\ scans' \in 0..MaxScans
    BY <1>5 DEF Begin, steamVars, ScanTypeOK
  <2> QED
    BY <2>3, <2>4 DEF ScanTypeOK, ScanRecord, ScanPc, recordVars
<1>6. ASSUME NEW s \in Scanners, NEW g \in Owned, Fetch(s, g) \/ FetchEmpty(s, g)
      PROVE  ScanTypeOK'
  <2>1. scan' \in [Scanners -> ScanRecord]
    BY <1>6, FetchFacts
  <2>2. gained' \in [Owned -> -Recheck..scanDay] /\ changes' \in 0..MaxChanges
    BY <1>6 DEF Fetch, FetchEmpty, ScanTypeOK, steamVars
  <2>3. UNCHANGED <<flagged, has, scanDay, noneFile, snapFile, zeroMemo, recordVars, scans>>
    BY <1>6 DEF Fetch, FetchEmpty, steamVars
  <2> QED
    BY <2>1, <2>2, <2>3 DEF ScanTypeOK, ScanRecord, ScanPc, recordVars
<1>7. ASSUME NEW s \in Scanners, Record(s) PROVE ScanTypeOK'
  <2>1. scan' \in [Scanners -> ScanRecord]
    BY <1>7 DEF Record, ScanTypeOK, ScanRecord, ScanPc
  <2>2. scan[s].start \in 0..scanDay
    BY DEF ScanTypeOK
  <2> DEFINE new == Recorded(s, scan[s].found \cup scan[s].none)
  <2>3. copy' = [copy EXCEPT ![s] = new] /\ DOMAIN copy = Scanners
    BY <1>7 DEF Record, ScanTypeOK
  <2>4. DOMAIN new \subseteq Owned /\ \A g \in DOMAIN new : new[g] \in 0..scanDay
    BY <2>2, RecordedFacts DEF ScanTypeOK
  <2> HIDE DEF new
  <2>5. /\ DOMAIN copy' = Scanners
        /\ \A t \in Scanners : /\ DOMAIN copy'[t] \subseteq Owned
                               /\ \A g \in DOMAIN copy'[t] : copy'[t][g] \in 0..scanDay
    BY <2>3, <2>4 DEF ScanTypeOK
  <2>6. UNCHANGED <<flagged, has, gained, scanDay, noneFile, snapFile, zeroMemo, said, missed,
                    crossed, scans, changes>>
    BY <1>7 DEF Record, steamVars
  <2> QED
    BY <2>1, <2>5, <2>6 DEF ScanTypeOK, ScanRecord, ScanPc
<1>8. ASSUME NEW s \in Scanners, WriteNone(s) PROVE ScanTypeOK'
  <2>1. scan' \in [Scanners -> ScanRecord]
    <3>1. scan' = [scan EXCEPT ![s] = [scan[s] EXCEPT !.pc = "save"]]
      BY <1>8 DEF WriteNone
    <3>2. scan \in [Scanners -> ScanRecord]
      BY DEF ScanTypeOK, ScanRecord, ScanPc
    <3>3. [scan[s] EXCEPT !.pc = "save"] \in ScanRecord
      BY <3>2 DEF ScanRecord, ScanPc
    <3> QED
      BY <3>1, <3>2, <3>3
  <2>2. DOMAIN noneFile' \subseteq Owned /\ \A g \in DOMAIN noneFile' : noneFile'[g] \in 0..scanDay
    BY <1>8 DEF WriteNone, ScanTypeOK
  <2>3. said' \in [Owned -> {"unknown", "none", "some"}]
    BY <1>8 DEF WriteNone, Answers, ScanTypeOK
  <2>4. zeroMemo' \in Memo
    BY <1>8 DEF WriteNone, Written, ScanTypeOK, Memo
  <2>5. missed' \in [Scanners -> SUBSET Owned] /\ crossed' \subseteq Owned
    <3>1. Missing(s) \in [Scanners -> SUBSET Owned] /\ WrittenBack(s) \subseteq Owned
      BY DEF Missing, WrittenBack, ScanTypeOK
    <3> QED
      BY <1>8, <3>1 DEF WriteNone, ScanTypeOK
  <2>6. /\ DOMAIN copy' = Scanners
        /\ \A t \in Scanners : /\ DOMAIN copy'[t] \subseteq Owned
                               /\ \A g \in DOMAIN copy'[t] : copy'[t][g] \in 0..scanDay
    BY <1>8 DEF WriteNone, NoCache, ScanTypeOK
  <2>7. UNCHANGED <<flagged, has, gained, scanDay, snapFile, scans, changes>>
    BY <1>8 DEF WriteNone, steamVars
  <2> QED
    BY <2>1, <2>2, <2>3, <2>4, <2>5, <2>6, <2>7 DEF ScanTypeOK, ScanRecord, ScanPc, Memo
<1>9. ASSUME NEW s \in Scanners, SaveSnapshot(s) \/ ScanDies(s) PROVE ScanTypeOK'
  <2>1. scan' = [scan EXCEPT ![s] = NoScan]
    BY <1>9 DEF SaveSnapshot, ScanDies
  <2>2. NoScan \in ScanRecord
    BY DEF NoScan, ScanTypeOK, ScanRecord, ScanPc
  <2>3. scan' \in [Scanners -> ScanRecord]
    BY <2>1, <2>2 DEF ScanTypeOK, ScanRecord, ScanPc
  <2>4. zeroMemo' \in Memo /\ snapFile' \subseteq Owned
    BY <1>9 DEF SaveSnapshot, ScanDies, Written, ScanTypeOK, Memo
  <2>5. /\ DOMAIN copy' = Scanners /\ missed' \in [Scanners -> SUBSET Owned]
        /\ \A t \in Scanners : /\ DOMAIN copy'[t] \subseteq Owned
                               /\ \A g \in DOMAIN copy'[t] : copy'[t][g] \in 0..scanDay
    <3>1. \/ copy' = copy /\ missed' = missed
          \/ copy' = [copy EXCEPT ![s] = NoCache] /\ missed' = [missed EXCEPT ![s] = {}]
      BY <1>9 DEF SaveSnapshot, ScanDies, recordVars
    <3>2. missed' \in [Scanners -> SUBSET Owned]
      BY <3>1 DEF ScanTypeOK
    <3>3. DOMAIN copy' = Scanners /\ \A t \in Scanners : copy'[t] = copy[t] \/ copy'[t] = NoCache
      BY <3>1 DEF ScanTypeOK
    <3>4. DOMAIN NoCache = {}
      BY DEF NoCache
    <3> QED
      BY <3>2, <3>3, <3>4 DEF ScanTypeOK
  <2>6. UNCHANGED <<flagged, has, gained, scanDay, noneFile, said, crossed, scans, changes>>
    BY <1>9 DEF SaveSnapshot, ScanDies, steamVars, recordVars
  <2> QED
    BY <2>3, <2>4, <2>5, <2>6 DEF ScanTypeOK, ScanRecord, ScanPc, Memo
<1> QED
  BY <1>1, <1>2, <1>3, <1>4, <1>5, <1>6, <1>7, <1>8, <1>9 DEF ScanNext

-----------------------------------------------------------------------------
\* Only an answer, or a scan that missed one, brings a game into the cache, and
\* answers are recorded with it.
LEMMA CacheStep ==
    ASSUME ScanTypeOK, CacheOnAnswer, [ScanNext]_scanVars
    PROVE  CacheOnAnswer'
<1>1. CASE /\ UNCHANGED <<noneFile, recordVars>>
           /\ \A s \in Scanners : scan'[s].pc = "write" => scan'[s] = scan[s]
  BY <1>1 DEF CacheOnAnswer, recordVars
<1>2. ASSUME NEW s \in Scanners, Begin(s) \/ SaveSnapshot(s) PROVE CacheOnAnswer'
  <2>1. UNCHANGED <<noneFile, recordVars>> /\ \A t \in Scanners \ {s} : scan'[t] = scan[t]
    BY <1>2 DEF Begin, SaveSnapshot, ScanTypeOK
  <2>2. scan'[s].pc # "write"
    BY <1>2 DEF Begin, SaveSnapshot, NoScan, ScanTypeOK
  <2> QED
    BY <1>1, <2>1, <2>2
<1>3. ASSUME NEW s \in Scanners, NEW g \in Owned, Fetch(s, g) \/ FetchEmpty(s, g)
      PROVE  CacheOnAnswer'
  <2>1. \A t \in Scanners : scan'[t].pc = "write" => scan'[t] = scan[t]
    BY <1>3, FetchFacts
  <2> QED
    BY <1>1, <1>3, <2>1 DEF Fetch, FetchEmpty
<1>4. ASSUME NEW s \in Scanners, ScanDies(s) PROVE CacheOnAnswer'
  <2>1. /\ UNCHANGED <<noneFile, said, crossed>> /\ scan'[s].pc # "write"
        /\ \A t \in Scanners \ {s} : scan'[t] = scan[t] /\ copy'[t] = copy[t] /\ missed'[t] = missed[t]
    BY <1>4 DEF ScanDies, NoScan, ScanTypeOK
  <2> QED
    BY <2>1 DEF CacheOnAnswer
<1>5. ASSUME NEW s \in Scanners, Record(s) PROVE CacheOnAnswer'
  <2> DEFINE new == Recorded(s, scan[s].found \cup scan[s].none)
  <2>1. /\ UNCHANGED <<noneFile, said, crossed, missed>> /\ copy'[s] = new
        /\ scan'[s].none = scan[s].none /\ scan'[s].found = scan[s].found
        /\ \A t \in Scanners \ {s} : scan'[t] = scan[t] /\ copy'[t] = copy[t]
    BY <1>5 DEF Record, ScanTypeOK
  <2>2. \A g \in DOMAIN new : \/ g \in DOMAIN noneFile /\ g \notin scan[s].found \cup scan[s].none
                             \/ g \in scan[s].none \ scan[s].found
    BY RecordedFacts
  <2> HIDE DEF new
  <2> QED
    BY <2>1, <2>2 DEF CacheOnAnswer
<1>6. ASSUME NEW s \in Scanners, WriteNone(s) PROVE CacheOnAnswer'
  <2>1. /\ scan[s].pc = "write" /\ scan'[s].pc = "save"
        /\ \A t \in Scanners \ {s} : scan'[t] = scan[t] /\ copy'[t] = copy[t]
    BY <1>6 DEF WriteNone, ScanTypeOK
  <2>2. CASE UNCHANGED <<noneFile, said, crossed>> /\ missed' = [missed EXCEPT ![s] = {}]
    <3>1. \A t \in Scanners \ {s} : missed'[t] = missed[t]
      BY <2>2 DEF ScanTypeOK
    <3> QED
      BY <2>1, <2>2, <3>1 DEF CacheOnAnswer
  <2>3. CASE /\ noneFile' = copy[s] /\ said' = Answers(s) /\ missed' = Missing(s)
             /\ crossed' = (crossed \cup WrittenBack(s)) \ (scan[s].found \cup scan[s].none)
    <3>1. \A g \in Owned : said'[g] = IF g \in scan[s].found THEN "some"
                                     ELSE IF g \in scan[s].none THEN "none" ELSE said[g]
      BY <2>3 DEF Answers
    <3>2. \A t \in Scanners \ {s} : scan[t].pc = "write" => missed'[t] = missed[t] \cup scan[s].found
      BY <2>3 DEF Missing
    <3>3. \A t \in Scanners : DOMAIN copy[t] \subseteq Owned
      BY DEF ScanTypeOK
    <3>4. ASSUME NEW g \in DOMAIN copy[s] PROVE said'[g] = "none" \/ g \in crossed'
      BY <2>1, <2>3, <3>1, <3>3, <3>4 DEF CacheOnAnswer, WrittenBack
    <3>5. ASSUME NEW t \in Scanners \ {s}, scan[t].pc = "write", NEW g \in DOMAIN copy[t],
                 g \notin scan[t].none \ scan[t].found
          PROVE  /\ g \notin scan[t].none \cup scan[t].found
                 /\ said'[g] = "none" \/ g \in crossed' \/ g \in missed'[t]
      <4>1. /\ g \notin scan[t].none \cup scan[t].found
            /\ said[g] = "none" \/ g \in crossed \/ g \in missed[t]
        BY <3>5 DEF CacheOnAnswer
      <4>2. g \in Owned /\ missed'[t] = missed[t] \cup scan[s].found
        BY <3>2, <3>3, <3>5
      <4> QED
        BY <2>3, <3>1, <4>1, <4>2
    <3> QED
      BY <2>1, <2>3, <3>4, <3>5 DEF CacheOnAnswer
  <2> QED
    BY <1>6, <2>2, <2>3 DEF WriteNone
<1> QED
  BY <1>1, <1>2, <1>3, <1>4, <1>5, <1>6
     DEF ScanNext, scanVars, recordVars, DayEnds, Look, ReadNone, ReadSnap, GameChanges

\* A write of either file leaves neither stamp standing; the files are read
\* between two looks at the stamps.
LEMMA ReadingStep ==
    ASSUME ScanTypeOK, ReadingFollows, [ScanNext]_scanVars
    PROVE  ReadingFollows'
<1>1. CASE UNCHANGED <<noneFile, zeroMemo>>
  BY <1>1 DEF ReadingFollows
<1>2. CASE Written
  BY <1>2 DEF Written, ReadingFollows, ScanTypeOK
<1>3. CASE Look
  BY <1>3 DEF Look, ReadingFollows, ScanTypeOK
<1>4. CASE ReadNone
  BY <1>4 DEF ReadNone, ReadingFollows, ScanTypeOK
<1>5. CASE ReadSnap
  BY <1>5 DEF ReadSnap, ReadingFollows, ScanTypeOK
<1> QED
  BY <1>1, <1>2, <1>3, <1>4, <1>5
     DEF ScanNext, scanVars, steamVars, DayEnds, GameChanges, Begin, Fetch, FetchEmpty, Record,
         WriteNone, SaveSnapshot, ScanDies

\* A game gains achievements now, and an answer is from now or earlier.
LEMMA GainsStep ==
    ASSUME ScanTypeOK, GainsAfterAnswer, [ScanNext]_scanVars
    PROVE  GainsAfterAnswer'
<1>1. CASE UNCHANGED <<has, gained, noneFile, copy, scan>>
  BY <1>1 DEF GainsAfterAnswer
<1>2. ASSUME NEW g \in Owned, GameChanges(g) PROVE GainsAfterAnswer'
  <2>1. ASSUME NEW h \in has' PROVE \/ h \in has /\ gained'[h] = gained[h]
                                    \/ gained'[h] = scanDay
    BY <1>2, <2>1 DEF GameChanges, ScanTypeOK
  <2>2. \A h \in DOMAIN noneFile : noneFile[h] <= scanDay
    BY DEF ScanTypeOK
  <2>3. \A s \in Scanners : scan[s].start <= scanDay
    BY DEF ScanTypeOK
  <2>4. scanDay \in Int /\ UNCHANGED <<noneFile, copy, scan>>
    BY <1>2 DEF GameChanges, ScanTypeOK, recordVars
  <2>5. \A s \in Scanners : \A h \in DOMAIN copy[s] : copy[s][h] <= scanDay
    BY DEF ScanTypeOK
  <2> QED
    BY <2>1, <2>2, <2>3, <2>4, <2>5 DEF GainsAfterAnswer
<1>3. ASSUME NEW s \in Scanners, Begin(s) PROVE GainsAfterAnswer'
  BY <1>3 DEF Begin, GainsAfterAnswer, steamVars, recordVars, ScanTypeOK
<1>4. ASSUME NEW s \in Scanners, NEW g \in Owned, Fetch(s, g) \/ FetchEmpty(s, g)
      PROVE  GainsAfterAnswer'
  <2>1. \A t \in Scanners : /\ scan'[t].start = scan[t].start
                            /\ \A h \in scan'[t].none : \/ h \in scan[t].none \/ h \notin has
                                                        \/ h = g /\ FetchEmpty(s, g)
    BY <1>4, FetchFacts
  <2>2. UNCHANGED <<has, noneFile, copy>>
    BY <1>4 DEF Fetch, FetchEmpty, steamVars, recordVars
  <2>3. CASE gained' = gained /\ ~FetchEmpty(s, g)
    BY <2>1, <2>2, <2>3 DEF GainsAfterAnswer
  <2>4. CASE FetchEmpty(s, g)
    <3>1. /\ gained'[g] = scanDay /\ scanDay \in Int
          /\ \A h \in Owned \ {g} : gained'[h] = gained[h]
      BY <2>4 DEF FetchEmpty, ScanTypeOK
    <3>2. /\ \A h \in DOMAIN noneFile : h \in Owned /\ noneFile[h] <= scanDay
          /\ \A t \in Scanners : \A h \in DOMAIN copy[t] : h \in Owned /\ copy[t][h] <= scanDay
          /\ \A t \in Scanners : scan[t].start <= scanDay
          /\ has \subseteq Owned
      BY DEF ScanTypeOK
    <3> QED
      BY <2>1, <2>2, <3>1, <3>2 DEF GainsAfterAnswer
  <2> QED
    BY <1>4, <2>3, <2>4 DEF Fetch, steamVars
<1>5. ASSUME NEW s \in Scanners, Record(s) PROVE GainsAfterAnswer'
  <2>1. \A t \in Scanners : scan'[t].start = scan[t].start /\ scan'[t].none = scan[t].none
    BY <1>5 DEF Record, ScanTypeOK
  <2> DEFINE new == Recorded(s, scan[s].found \cup scan[s].none)
  <2>2. \A g \in DOMAIN new : g \in has => gained[g] >= new[g]
    BY RecordedFacts DEF GainsAfterAnswer
  <2>3. copy'[s] = new /\ \A t \in Scanners \ {s} : copy'[t] = copy[t]
    BY <1>5 DEF Record, ScanTypeOK
  <2> HIDE DEF new
  <2>4. \A t \in Scanners : \A g \in DOMAIN copy'[t] : g \in has => gained[g] >= copy'[t][g]
    BY <2>2, <2>3 DEF GainsAfterAnswer
  <2>5. UNCHANGED <<has, gained, noneFile>>
    BY <1>5 DEF Record, steamVars
  <2> QED
    BY <2>1, <2>4, <2>5 DEF GainsAfterAnswer
<1>6. ASSUME NEW s \in Scanners, WriteNone(s) PROVE GainsAfterAnswer'
  <2>1. \A t \in Scanners : scan'[t].start = scan[t].start /\ scan'[t].none = scan[t].none
    BY <1>6 DEF WriteNone, ScanTypeOK
  <2>2. \A g \in DOMAIN noneFile' : g \in has => gained[g] >= noneFile'[g]
    BY <1>6 DEF WriteNone, GainsAfterAnswer
  <2>3. \A t \in Scanners : copy'[t] = copy[t] \/ DOMAIN copy'[t] = {}
    BY <1>6 DEF WriteNone, NoCache, ScanTypeOK
  <2>4. UNCHANGED <<has, gained>>
    BY <1>6 DEF WriteNone, steamVars
  <2> QED
    BY <2>1, <2>2, <2>3, <2>4 DEF GainsAfterAnswer
<1>7. ASSUME NEW s \in Scanners, SaveSnapshot(s) \/ ScanDies(s) PROVE GainsAfterAnswer'
  <2>1. \A t \in Scanners : copy'[t] = copy[t] \/ DOMAIN copy'[t] = {}
    BY <1>7 DEF SaveSnapshot, ScanDies, NoCache, recordVars, ScanTypeOK
  <2>2. \A t \in Scanners : scan'[t] = scan[t] \/ scan'[t].none = {}
    BY <1>7 DEF SaveSnapshot, ScanDies, NoScan, ScanTypeOK
  <2>3. UNCHANGED <<has, gained, noneFile>>
    BY <1>7 DEF SaveSnapshot, ScanDies, steamVars
  <2> QED
    BY <2>1, <2>2, <2>3 DEF GainsAfterAnswer
<1> QED
  BY <1>1, <1>2, <1>3, <1>4, <1>5, <1>6, <1>7
     DEF ScanNext, scanVars, steamVars, recordVars, DayEnds, Look, ReadNone, ReadSnap

\* What a scan asks is settled at its start; later gains are too young to count.
LEMMA AskedStep ==
    ASSUME ScanTypeOK, GainsAfterAnswer, OldGainsAsked, [ScanNext]_scanVars
    PROVE  OldGainsAsked'
<1>1. CASE UNCHANGED <<has, gained, scan>>
  BY <1>1 DEF OldGainsAsked
<1>2. ASSUME NEW g \in Owned, GameChanges(g) PROVE OldGainsAsked'
  <2>1. ASSUME NEW h \in has' PROVE \/ h \in has /\ gained'[h] = gained[h]
                                    \/ gained'[h] = scanDay
    BY <1>2, <2>1 DEF GameChanges, ScanTypeOK
  <2>2. \A s \in Scanners : scan[s].start \in 0..scanDay /\ scan'[s] = scan[s]
    BY <1>2 DEF ScanTypeOK, GameChanges
  <2>3. scanDay \in Int /\ Recheck \in Nat \ {0}
    BY ScanAssumption DEF ScanTypeOK
  <2> QED
    BY <2>1, <2>2, <2>3 DEF OldGainsAsked
<1>3. ASSUME NEW s \in Scanners, Begin(s) PROVE OldGainsAsked'
  <2>1. \A g \in has : gained[g] + Recheck <= scanDay => g \in Owned \ Skippable
    <3>1. SUFFICES ASSUME NEW g \in has, gained[g] + Recheck <= scanDay
                   PROVE  g \in Owned \ Skippable
      OBVIOUS
    <3>2. g \notin Skippable
      BY <3>1, OldGainsNotSkipped
    <3> QED
      BY <3>2 DEF ScanTypeOK
  <2>2. scan'[s].start = scanDay /\ scan'[s].asked = Owned \ Skippable
    BY <1>3 DEF Begin, ScanTypeOK
  <2>3. \A t \in Scanners \ {s} : scan'[t] = scan[t]
    BY <1>3 DEF Begin, ScanTypeOK
  <2> QED
    BY <1>3, <2>1, <2>2, <2>3 DEF Begin, OldGainsAsked, steamVars
<1>4. ASSUME NEW s \in Scanners, SaveSnapshot(s) \/ ScanDies(s) PROVE OldGainsAsked'
  BY <1>4 DEF SaveSnapshot, ScanDies, NoScan, OldGainsAsked, steamVars, ScanTypeOK
<1>5. ASSUME NEW s \in Scanners, Record(s) \/ WriteNone(s) PROVE OldGainsAsked'
  <2>1. \A t \in Scanners : /\ scan'[t].start = scan[t].start /\ scan'[t].asked = scan[t].asked
                            /\ scan'[t].pc # "idle" => scan[t].pc # "idle"
    BY <1>5 DEF Record, WriteNone, ScanTypeOK
  <2> QED
    BY <1>5, <2>1 DEF Record, WriteNone, OldGainsAsked, steamVars
<1>6. ASSUME NEW s \in Scanners, NEW g \in Owned, Fetch(s, g) \/ FetchEmpty(s, g)
      PROVE  OldGainsAsked'
  <2>1. \A t \in Scanners : /\ scan'[t].start = scan[t].start /\ scan'[t].asked = scan[t].asked
                            /\ scan'[t].pc # "idle" => scan[t].pc # "idle"
    BY <1>6, FetchFacts
  <2>2. \A h \in has : gained'[h] = gained[h] \/ gained'[h] = scanDay
    BY <1>6 DEF Fetch, FetchEmpty, ScanTypeOK, steamVars
  <2>3. /\ \A t \in Scanners : scan[t].start \in 0..scanDay
        /\ scanDay \in Int /\ Recheck \in Nat \ {0} /\ has' = has
    BY <1>6, ScanAssumption DEF ScanTypeOK, Fetch, FetchEmpty, steamVars
  <2> QED
    BY <2>1, <2>2, <2>3 DEF OldGainsAsked
<1> QED
  BY <1>1, <1>2, <1>3, <1>4, <1>5, <1>6
     DEF ScanNext, scanVars, steamVars, DayEnds, Look, ReadNone, ReadSnap

LEMMA ScanInitInv == ScanInit => ScanInv
<1> SUFFICES ASSUME ScanInit PROVE ScanInv
  OBVIOUS
<1>1. PICK without \in SUBSET ((Owned \ has) \ flagged) :
          /\ noneFile = [g \in without |-> 0]
          /\ said = [g \in Owned |-> IF g \in without THEN "none" ELSE "unknown"]
  BY DEF ScanInit
<1>2. /\ scan = [s \in Scanners |-> NoScan] /\ copy = [s \in Scanners |-> NoCache]
      /\ missed = [s \in Scanners |-> {}] /\ crossed = {} /\ scanDay = 0
      /\ ~zeroMemo.fresh /\ zeroMemo.pc = "idle"
  BY DEF ScanInit
<1>3. ScanTypeOK
  BY <1>1, ScanAssumption DEF ScanInit, NoScan, NoCache, ScanTypeOK
<1>4. CacheOnAnswer
  BY <1>1, <1>2 DEF CacheOnAnswer, NoScan
<1>5. GainsAfterAnswer
  BY <1>1, <1>2 DEF GainsAfterAnswer, NoScan, NoCache
<1> QED
  BY <1>2, <1>3, <1>4, <1>5 DEF ScanInv, ReadingFollows, OldGainsAsked, NoScan

LEMMA ScanStepInv == ScanInv /\ [ScanNext]_scanVars => ScanInv'
  BY TypeInductive, CacheStep, ReadingStep, GainsStep, AskedStep DEF ScanInv

\* Scan: types, and the facts above, hold throughout: what is in the cache, or in a
\* copy about to be written, was replied to have no achievements, unless another
\* scan's answer was missed.
THEOREM ScanInvariant == ScanSpec => []ScanInv
  BY ScanInitInv, ScanStepInv, PTL DEF ScanSpec

LEMMA ScanInvHides == ScanInv => HiddenOnlyOnAnswer
<1>1. ScanInv => AllowedOnAnswer
  BY DEF ScanInv, ReadingFollows, CacheOnAnswer, AllowedOnAnswer
<1>2. ScanInv => PicksUpGains
  <2>1. SUFFICES ASSUME ScanInv,
                        NEW s \in Scanners, scan[s].pc = "save",
                        scan[s].asked = scan[s].found \cup scan[s].none,
                        NEW g \in has, gained[g] + Recheck <= scan[s].start
                 PROVE  g \in scan[s].found
    BY DEF PicksUpGains
  <2>2. g \in scan[s].asked
    BY <2>1 DEF ScanInv, OldGainsAsked
  <2>3. gained[g] \in Int /\ scan[s].start \in Int /\ Recheck \in Nat \ {0}
    BY <2>1, ScanAssumption DEF ScanInv, ScanTypeOK
  <2>4. g \notin scan[s].none
    BY <2>1, <2>3 DEF ScanInv, GainsAfterAnswer
  <2> QED
    BY <2>1, <2>2, <2>4
<1> QED
  BY <1>1, <1>2 DEF HiddenOnlyOnAnswer

\* Neither a failed request nor a crash between the two files makes a game always
\* allowed: it was replied to have none, or a scan that overlapped has written it
\* back; and neither that nor a reply without an answer keeps a game out of a
\* complete scan for longer than the recheck time.
THEOREM HiddenOnAnswer == ScanSpec => []HiddenOnlyOnAnswer
  BY ScanInvHides, ScanInitInv, ScanStepInv, PTL DEF ScanSpec
=============================================================================
