--------------------------------- MODULE Scan ---------------------------------
(***************************************************************************)
(* What is known of games without achievements: the scan that asks Steam    *)
(* about every owned game it may not skip, the cache of games that had none *)
(* (no_achievements_cache.json), the snapshot of those that have some, and  *)
(* the memoized reader for which such a game is always allowed.             *)
(*                                                                          *)
(* A command and a web job may scan at once; requests end in any order, and *)
(* record_scan loads and saves the cache without a lock: one scan may write *)
(* back what another has changed meanwhile.  Time is in days.  One account; *)
(* estimates and the pick of a scan are other modules.                      *)
(***************************************************************************)
EXTENDS Integers

CONSTANTS
    Owned,          \* the games of the account
    Scanners,
    Recheck,        \* RECHECK_AFTER_SECONDS
    ScanHorizon, MaxScans, MaxChanges   \* bounds: days, scans, games that change and
                                        \* replies without an answer

ASSUME ScanAssumption ==
    /\ Recheck \in Nat \ {0} /\ ScanHorizon \in Nat /\ MaxScans \in Nat /\ MaxChanges \in Nat

VARIABLES
    flagged,        \* has_community_visible_stats
    has, gained,    \* the games with achievements, and since when Steam shows them
    scanDay,        \* today
    noneFile,       \* the cache: when a game was found without
    snapFile,       \* the snapshot: the games with achievements
    scan,           \* per scanner: step, start, games asked and not yet answered,
                    \* games without and with achievements
    zeroMemo,       \* _memo and the call that derives it; whether the stamps in
                    \* it, and those the call took, are still the files'
    copy,           \* per scanner: the cache it has loaded, with its own answers
    said,           \* of each game, the last answer of Steam that was recorded
    missed,         \* history, per scanner: what others found since it has loaded
    crossed,        \* history: games written back by a scan that missed them
    scans, changes

scanVars == <<flagged, has, gained, scanDay, noneFile, snapFile, scan, zeroMemo, copy, said,
              missed, crossed, scans, changes>>
steamVars == <<flagged, has, gained, scanDay>>
recordVars == <<copy, said, missed, crossed>>

NoCache == [g \in {} |-> 0]
NoScan == [pc |-> "idle", start |-> 0, asked |-> {}, todo |-> {}, none |-> {}, found |-> {}]

ScanInit ==
    /\ flagged \in SUBSET Owned /\ has \in SUBSET Owned
    /\ gained = [g \in Owned |-> -Recheck] /\ scanDay = 0
    /\ \E without \in SUBSET ((Owned \ has) \ flagged) :
          /\ noneFile = [g \in without |-> 0]
          /\ said = [g \in Owned |-> IF g \in without THEN "none" ELSE "unknown"]
    /\ snapFile = {}
    /\ scan = [s \in Scanners |-> NoScan]
    /\ zeroMemo = [pc |-> "idle", fresh |-> FALSE, ids |-> {}, read |-> {}, stamped |-> FALSE]
    /\ copy = [s \in Scanners |-> NoCache] /\ missed = [s \in Scanners |-> {}]
    /\ crossed = {}
    /\ scans = 0 /\ changes = 0

\* The day ends; a game gains its first achievements, or loses them.
DayEnds ==
    /\ scanDay < ScanHorizon /\ scanDay' = scanDay + 1
    /\ UNCHANGED <<flagged, has, gained, noneFile, snapFile, scan, zeroMemo, recordVars, scans,
                   changes>>
GameChanges(g) ==
    /\ changes < MaxChanges /\ changes' = changes + 1
    /\ has' = IF g \in has THEN has \ {g} ELSE has \cup {g}
    /\ gained' = IF g \in has THEN gained ELSE [gained EXCEPT ![g] = scanDay]
    /\ UNCHANGED <<flagged, scanDay, noneFile, snapFile, scan, zeroMemo, recordVars, scans>>

\* skippable_app_ids: without the flag, not in the snapshot, lately found without.
Skippable ==
    {g \in (DOMAIN noneFile \ flagged) \ snapFile :
        scanDay - noneFile[g] < Recheck}

\* build_game_list: what is not skipped is asked, at the time of the start.
Begin(s) ==
    /\ scan[s].pc = "idle" /\ scans < MaxScans /\ scans' = scans + 1
    /\ LET asked == Owned \ Skippable
       IN  scan' = [scan EXCEPT ![s] =
              [pc |-> IF asked = {} THEN "record" ELSE "fetch", start |-> scanDay,
               asked |-> asked, todo |-> asked, none |-> {}, found |-> {}]]
    /\ UNCHANGED <<steamVars, noneFile, snapFile, zeroMemo, recordVars, changes>>

\* _fetch_one_game: the achievements, Steam's word that there are none, or a
\* failure (a timeout, a 5xx), which is neither.
Fetch(s, g) ==
    /\ scan[s].pc = "fetch" /\ g \in scan[s].todo
    /\ LET pc == IF scan[s].todo = {g} THEN "record" ELSE "fetch"
           next == [scan[s] EXCEPT !.todo = @ \ {g}, !.pc = pc]
       IN  scan' \in {[scan EXCEPT ![s] = next],
                      [scan EXCEPT ![s] = IF g \in has THEN [next EXCEPT !.found = @ \cup {g}]
                                          ELSE [next EXCEPT !.none = @ \cup {g}]]}
    /\ UNCHANGED <<steamVars, noneFile, snapFile, zeroMemo, recordVars, scans, changes>>

\* A reply of status 200 without playerstats, or without success, about a game
\* with achievements: it is taken for the word that there are none.
FetchEmpty(s, g) ==
    /\ scan[s].pc = "fetch" /\ g \in scan[s].todo \cap has
    /\ changes < MaxChanges /\ changes' = changes + 1
    /\ LET pc == IF scan[s].todo = {g} THEN "record" ELSE "fetch"
           next == [scan[s] EXCEPT !.todo = @ \ {g}, !.pc = pc]
       IN  scan' = [scan EXCEPT ![s] = [next EXCEPT !.none = @ \cup {g}]]
    /\ gained' = [gained EXCEPT ![g] = scanDay]
    /\ UNCHANGED <<flagged, has, scanDay, noneFile, snapFile, zeroMemo, recordVars, scans>>

\* A write changes the stamp of its file.
Written == zeroMemo' = [zeroMemo EXCEPT !.fresh = FALSE, !.stamped = FALSE]

\* Mutant of Recorded: the day of the entries is that of their writing.
RecordedAtEnd(s, answered) ==
    LET keep == DOMAIN noneFile \ answered
        add  == (answered \ scan[s].found) \ flagged
    IN  [g \in keep \cup add |-> IF g \in add THEN scanDay ELSE noneFile[g]]

\* record_scan: of the games that were answered, those with achievements or
\* with the flag leave the cache, the others are in it as of the start.  A cache
\* that cannot be written stays as it was.
Recorded(s, answered) ==
    LET keep == DOMAIN noneFile \ answered
        add  == (answered \ scan[s].found) \ flagged
    IN  [g \in keep \cup add |-> IF g \in add THEN scan[s].start ELSE noneFile[g]]
Answers(s) ==
    [g \in Owned |-> IF g \in scan[s].found THEN "some"
                     ELSE IF g \in scan[s].none THEN "none" ELSE said[g]]

\* Mutant of Record: a failed request is taken for an answer.
RecordFailures(s) ==
    /\ scan[s].pc = "record"
    /\ copy' = [copy EXCEPT ![s] = Recorded(s, scan[s].asked)]
    /\ scan' = [scan EXCEPT ![s].pc = "write"]
    /\ UNCHANGED <<steamVars, noneFile, snapFile, zeroMemo, said, missed, crossed, scans,
                   changes>>

Record(s) ==
    /\ scan[s].pc = "record"
    /\ copy' = [copy EXCEPT ![s] = Recorded(s, scan[s].found \cup scan[s].none)]
    /\ scan' = [scan EXCEPT ![s].pc = "write"]
    /\ UNCHANGED <<steamVars, noneFile, snapFile, zeroMemo, said, missed, crossed, scans,
                   changes>>

\* What a scan finds is missed by those that have loaded the cache before.
Missing(s) ==
    [t \in Scanners |-> IF t = s \/ scan[t].pc # "write" THEN {}
                        ELSE missed[t] \cup scan[s].found]
WrittenBack(s) == missed[s] \cap DOMAIN copy[s]

\* The cache is written over whatever it holds by then, or cannot be written.
WriteNone(s) ==
    /\ scan[s].pc = "write"
    /\ \/ /\ noneFile' = copy[s] /\ said' = Answers(s) /\ Written
          /\ missed' = Missing(s)
          /\ crossed' = (crossed \cup WrittenBack(s)) \ (scan[s].found \cup scan[s].none)
       \/ /\ missed' = [missed EXCEPT ![s] = {}]
          /\ UNCHANGED <<noneFile, said, zeroMemo, crossed>>
    /\ scan' = [scan EXCEPT ![s].pc = "save"] /\ copy' = [copy EXCEPT ![s] = NoCache]
    /\ UNCHANGED <<steamVars, snapFile, scans, changes>>

\* save_snapshot, after the estimates were fetched: only what this scan found.
SaveSnapshot(s) ==
    /\ scan[s].pc = "save"
    /\ snapFile' = scan[s].found /\ Written
    /\ scan' = [scan EXCEPT ![s] = NoScan]
    /\ UNCHANGED <<steamVars, noneFile, recordVars, scans, changes>>

\* The process is killed or cancelled.
ScanDies(s) ==
    /\ scan[s].pc # "idle" /\ scan' = [scan EXCEPT ![s] = NoScan]
    /\ copy' = [copy EXCEPT ![s] = NoCache] /\ missed' = [missed EXCEPT ![s] = {}]
    /\ UNCHANGED <<steamVars, noneFile, snapFile, zeroMemo, said, crossed, scans, changes>>

(***************************************************************************)
(* zero_achievement_ids: unless the stamps are those of the last call, the  *)
(* two files are read one after the other, with scans in between.           *)
(***************************************************************************)
Look ==
    /\ zeroMemo.pc = "idle" /\ ~zeroMemo.fresh
    /\ zeroMemo' = [zeroMemo EXCEPT !.pc = "none", !.stamped = TRUE]
    /\ UNCHANGED <<steamVars, noneFile, snapFile, scan, recordVars, scans, changes>>
ReadNone ==
    /\ zeroMemo.pc = "none"
    /\ zeroMemo' = [zeroMemo EXCEPT !.pc = "snap", !.read = DOMAIN noneFile]
    /\ UNCHANGED <<steamVars, noneFile, snapFile, scan, recordVars, scans, changes>>
ReadSnap ==
    /\ zeroMemo.pc = "snap"
    /\ zeroMemo' = [zeroMemo EXCEPT !.pc = "idle", !.fresh = zeroMemo.stamped, !.stamped = FALSE,
                            !.ids = zeroMemo.read \ snapFile, !.read = {}]
    /\ UNCHANGED <<steamVars, noneFile, snapFile, scan, recordVars, scans, changes>>

ScanNext ==
    \/ DayEnds \/ Look \/ ReadNone \/ ReadSnap
    \/ \E g \in Owned : GameChanges(g)
    \/ \E s \in Scanners : Begin(s) \/ Record(s) \/ WriteNone(s) \/ SaveSnapshot(s)
                            \/ ScanDies(s)
    \/ \E s \in Scanners, g \in Owned : Fetch(s, g) \/ FetchEmpty(s, g)
ScanSpec == ScanInit /\ [][ScanNext]_scanVars
-----------------------------------------------------------------------------
\* Type invariant.
ScanTypeOK ==
    /\ flagged \subseteq Owned /\ has \subseteq Owned
    /\ gained \in [Owned -> -Recheck..scanDay] /\ scanDay \in 0..ScanHorizon
    /\ DOMAIN noneFile \subseteq Owned /\ \A g \in DOMAIN noneFile : noneFile[g] \in 0..scanDay
    /\ DOMAIN copy = Scanners
    /\ \A s \in Scanners : /\ DOMAIN copy[s] \subseteq Owned
                           /\ \A g \in DOMAIN copy[s] : copy[s][g] \in 0..scanDay
    /\ missed \in [Scanners -> SUBSET Owned] /\ crossed \subseteq Owned
    /\ snapFile \subseteq Owned
    /\ scan \in [Scanners -> [pc : {"idle", "fetch", "record", "write", "save"}, start : 0..scanDay,
                              asked : SUBSET Owned, todo : SUBSET Owned,
                              none : SUBSET Owned, found : SUBSET Owned]]
    /\ zeroMemo \in [pc : {"idle", "none", "snap"}, fresh : BOOLEAN, stamped : BOOLEAN,
                 ids : SUBSET Owned, read : SUBSET Owned]
    /\ said \in [Owned -> {"unknown", "none", "some"}]
    /\ scans \in 0..MaxScans /\ changes \in 0..MaxChanges

\* What the daemon takes for always allowed, with files that did not change
\* since, a reply said to have no achievements and no other answer was recorded
\* later, but for a game that a scan has written back over another's answer.
AllowedOnAnswer ==
    zeroMemo.fresh => \A g \in zeroMemo.ids : said[g] = "none" \/ g \in crossed

\* "A game that later gains achievements without gaining the flag is still
\* picked up, at the latest that long after": no scan whose requests were all
\* answered misses a game whose achievements Steam has shown for the recheck
\* time, also if its old entry was written back (_achievement_skip.py:12).
PicksUpGains ==
    \A s \in Scanners :
        scan[s].pc = "save" /\ scan[s].asked = scan[s].found \cup scan[s].none =>
            \A g \in has : gained[g] + Recheck <= scan[s].start => g \in scan[s].found

\* A game is left out of scans, and allowed for good, only on a reply: no timeout
\* and no crash between the two files hides a game with achievements.  Two scans
\* that overlap may write one back, and a reply without an answer counts as one:
\* such a game is found again once the recheck time has passed.
HiddenOnlyOnAnswer == AllowedOnAnswer /\ PicksUpGains
=============================================================================
