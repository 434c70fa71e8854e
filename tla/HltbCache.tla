------------------------------ MODULE HltbCache ------------------------------
(***************************************************************************)
(* The cache of HowLongToBeat estimates (hltb_cache.json) and the commands  *)
(* that fill it: searches for many games at once through one session, the   *)
(* detail pages of the games found, a save every few answers, and three     *)
(* refetches that take entries out first and put known hours back last.     *)
(*                                                                          *)
(* One command runs at a time and may die between any two steps.  The dicts *)
(* of the code (app -> value, default when absent) are functions on the     *)
(* apps they hold.  rush_hours and leisure_100h are read, kept and saved    *)
(* alike: one field, "detail", stands for both.                             *)
(***************************************************************************)
EXTENDS HltbPages

CONSTANTS
    App,            \* the games asked about
    Replies,        \* what the queries of one search may return
    SaveInterval,   \* _SAVE_INTERVAL: answers between two saves
    FirstCaches,    \* the caches the file may hold at first, old formats too
    MaxCommands     \* bound: commands run

ASSUME HltbCacheAssumption ==
    /\ SaveInterval \in Nat \ {0}
    /\ \A replies \in Replies :
          DOMAIN replies \subseteq Nat /\ \A i \in DOMAIN replies : SearchPage(replies[i].page)

VARIABLES
    stored,         \* hltb_cache.json: a function on the apps it has
    fetch,          \* the running command: its phase, its dicts, what is to do
    commands,       \* commands so far
    writable        \* the disk takes writes (a failing save is only logged)

hltbVars == <<stored, fetch, commands, writable>>

Kind == {"times", "detail", "polls", "refresh"}
ReadsPages == {"times", "detail"}       \* the others end with a second save
Hits == {Found(replies) : replies \in Replies}
Pages == {Detail(page, own) : page \in DetailPages, own \in OwnHours} \cup {NoPage}
Entry == [hours : Int, polls : Nat, count : Nat, detail : Int, gid : Nat]
Cache(file) == DOMAIN file \subseteq App /\ file \in [DOMAIN file -> Entry]

ASSUME FirstCachesAssumption == \A file \in FirstCaches : Cache(file)

Empty == [a \in {} |-> 0]
Get(f, a, default) == IF a \in DOMAIN f THEN f[a] ELSE default
With(f, a, v) == [b \in DOMAIN f \cup {a} |-> IF b = a THEN v ELSE f[b]]
Without(f, S) == [a \in DOMAIN f \ S |-> f[a]]

\* load_hltb_cache, load_hltb_polls_cache, ...: one column of the file.
Column(field) == [a \in DOMAIN stored |-> stored[a][field]]
Loaded == [hours |-> Column("hours"), polls |-> Column("polls"),
           count |-> Column("count"), detail |-> Column("detail"), gid |-> Column("gid")]
\* What a caller passes that fills no extras but the counts.
Counted(hours, polls, count) ==
    [hours |-> hours, polls |-> polls, count |-> count, detail |-> Empty, gid |-> Empty]

\* Mutant of OrStored: what the caller did not load is written as missing.
OrStoredNever(f, field) == f

(***************************************************************************)
(* save_hltb_cache: the entries are those that have hours.  A map of detail *)
(* or ids that is EMPTY is taken from the file; a missing count becomes 0.  *)
(***************************************************************************)
OrStored(f, field) == IF DOMAIN f = {} THEN Column(field) ELSE f
Saved(m) ==
    [a \in DOMAIN m.hours |->
        [hours  |-> m.hours[a],
         polls  |-> Get(m.polls, a, 0),
         count  |-> Get(m.count, a, 0),
         detail |-> Get(OrStored(m.detail, "detail"), a, NoHours),
         gid    |-> Get(OrStored(m.gid, "gid"), a, 0)]]
Save(m) == stored' = IF writable THEN Saved(m) ELSE stored

\* Mutant of Restored: a lookup that found nothing counts as an answer.
RestoredIfAbsent(hours, prior) ==
    LET back == {a \in DOMAIN prior : prior[a] > 0 /\ a \notin DOMAIN hours}
    IN  [a \in DOMAIN hours \cup back |-> IF a \in back THEN prior[a] ELSE hours[a]]

\* restore_prior_hours: known hours go back where the refetch has none.
Restored(hours, prior) ==
    LET back == {a \in DOMAIN prior : prior[a] > 0 /\ Get(hours, a, NoHours) <= 0}
    IN  [a \in DOMAIN hours \cup back |-> IF a \in back THEN prior[a] ELSE hours[a]]
-----------------------------------------------------------------------------
Resting == [kind |-> "times", pc |-> "dead", asked |-> {}, todo |-> {}, found |-> {},
            done |-> 0, mem |-> Counted(Empty, Empty, Empty),
            prior |-> Empty, before |-> Empty]

HltbInit ==
    /\ stored \in FirstCaches
    /\ fetch = Resting /\ commands = 0 /\ writable \in BOOLEAN

Over == [Resting EXCEPT !.pc = "over", !.asked = fetch.asked, !.before = fetch.before]

\* A command starts on the games it will look up.
Starts(kind, pc, asked, mem, prior) ==
    /\ fetch.pc \in {"dead", "over"} /\ commands < MaxCommands /\ asked # {}
    /\ commands' = commands + 1
    /\ fetch' = [Resting EXCEPT !.kind = kind, !.pc = pc, !.asked = asked, !.todo = asked,
                                !.mem = mem, !.prior = prior, !.before = stored]
    /\ UNCHANGED writable

\* fetch_hltb_times_cached: the games of a list that are not stored; the ids
\* already known are not loaded.
StartTimes(games) ==
    /\ Starts("times", "auth", games \ DOMAIN stored, [Loaded EXCEPT !.gid = Empty], Empty)
    /\ UNCHANGED stored

\* fetch_hltb_detail_missing: games without detail or without an id, taken out
\* of the hours in memory so that their pages are visited.
StartDetail(games) ==
    LET missing == {a \in games : Get(Column("detail"), a, NoHours) <= 0
                                    \/ Get(Column("gid"), a, 0) = 0}
    IN  /\ Starts("detail", "auth", missing,
                  [Loaded EXCEPT !.hours = Without(Column("hours"), missing)],
                  [a \in missing |-> Get(Column("hours"), a, NoHours)])
        /\ UNCHANGED stored

\* refetch_poll_counts: games without polls are dropped from the FILE first.
StartPolls(games) ==
    LET missing == {a \in games : Get(Column("polls"), a, 0) = 0}
        mem == Counted(Without(Column("hours"), missing), Column("polls"), Empty)
    IN  /\ Starts("polls", "load", missing, mem,
                  [a \in missing \cap DOMAIN stored |-> stored[a].hours])
        /\ Save(mem)

\* _refresh_candidate_confidence_batch: the candidates with neither count; the
\* counts are dropped too, and the others' are passed on.
StartRefresh(games) ==
    LET missing == {a \in games : Get(Column("polls"), a, 0) = 0 /\ Get(Column("count"), a, 0) = 0}
        Less(field) == Without(Column(field), missing)
        mem == Counted(Less("hours"), Less("polls"), Less("count"))
    IN  /\ Starts("refresh", "load", missing, mem,
                  [a \in missing |-> Get(Column("hours"), a, NoHours)])
        /\ Save(mem)

\* fetch_hltb_confidence_cached, called by both: what is stored is not asked.
LoadConfidence ==
    LET todo == fetch.asked \ DOMAIN stored
    IN  /\ fetch.pc = "load"
        /\ fetch' = [fetch EXCEPT !.todo = todo, !.pc = IF todo = {} THEN "restore" ELSE "auth",
                    !.mem = Counted(Column("hours"), Column("polls"), Column("count"))]
        /\ UNCHANGED <<stored, commands, writable>>

\* _search_batch: no token, no search, and the batch has no result.
Authorise ==
    /\ fetch.pc = "auth"
    /\ \E pc \in {"search", "finish"} : fetch' = [fetch EXCEPT !.pc = pc]
    /\ UNCHANGED <<stored, commands, writable>>

\* The answers so far are saved every SaveInterval of them.
SaveSometimes(done, m) ==
    IF done % SaveInterval = 0 THEN Save(m) ELSE UNCHANGED stored

\* _search_one: an answer, in any order; a miss and a failure are both -1.
Noted(m, a, hit) ==
    [m EXCEPT !.hours = With(m.hours, a, hit.hours), !.polls = With(m.polls, a, hit.polls),
              !.count = With(m.count, a, hit.count),
              !.gid = IF hit.gid > 0 THEN With(m.gid, a, hit.gid) ELSE m.gid]
SearchOne(a) ==
    /\ fetch.pc = "search" /\ a \in fetch.todo
    /\ \E hit \in Hits :
          LET m == Noted(fetch.mem, a, hit)
              found == IF hit.gid > 0 THEN fetch.found \cup {a} ELSE fetch.found
              last == fetch.todo = {a}
              pages == last /\ fetch.kind \in ReadsPages /\ found # {}
          IN  /\ fetch' = [fetch EXCEPT
                    !.mem = m, !.found = found,
                    !.done = IF pages THEN 0 ELSE @ + 1,
                    !.todo = IF pages THEN found ELSE @ \ {a},
                    !.pc = IF pages THEN "pages" ELSE IF last THEN "finish" ELSE "search"]
              /\ SaveSometimes(fetch.done + 1, m)
    /\ UNCHANGED <<commands, writable>>

\* _fetch_leisure_times: the page of a game found replaces its hours and its
\* count where it has them; no page changes nothing.
WithPage(m, a, page) ==
    [m EXCEPT !.hours = IF page.hours > 0 THEN With(m.hours, a, page.hours) ELSE m.hours,
              !.count = IF page.count > 0 THEN With(m.count, a, page.count) ELSE m.count,
              !.detail = IF page.detail > 0 THEN With(m.detail, a, page.detail) ELSE m.detail]
PageOne(a) ==
    /\ fetch.pc = "pages" /\ a \in fetch.todo
    /\ \E page \in Pages :
          LET m == WithPage(fetch.mem, a, page)
          IN  /\ fetch' = [fetch EXCEPT !.mem = m, !.done = @ + 1, !.todo = @ \ {a},
                                        !.pc = IF fetch.todo = {a} THEN "finish" ELSE "pages"]
              /\ SaveSometimes(fetch.done + 1, m)
    /\ UNCHANGED <<commands, writable>>

\* The last save of the batch.  The extras of a confidence batch other than
\* the counts are dropped with it; only the refetches go on to put hours back.
Finish ==
    /\ fetch.pc = "finish"
    /\ fetch' = IF fetch.kind \in ReadsPages THEN Over ELSE [fetch EXCEPT !.pc = "restore"]
    /\ Save(CASE fetch.kind = "times"  -> fetch.mem
              [] fetch.kind = "detail" -> [fetch.mem EXCEPT !.hours = Restored(@, fetch.prior)]
              [] OTHER                 -> [fetch.mem EXCEPT !.detail = Empty, !.gid = Empty])
    /\ UNCHANGED <<commands, writable>>

Restore ==
    /\ fetch.pc = "restore"
    /\ fetch' = Over
    /\ Save(Counted(Restored(Column("hours"), fetch.prior), Column("polls"),
                    IF fetch.kind = "polls" THEN Empty ELSE Column("count")))
    /\ UNCHANGED <<commands, writable>>

\* The process is killed, or an answer that is no JSON ends the batch.
FetchDies ==
    /\ fetch.pc \notin {"dead", "over"}
    /\ fetch' = Resting
    /\ UNCHANGED <<stored, commands, writable>>

HltbNext ==
    \/ \E games \in SUBSET App :
          StartTimes(games) \/ StartDetail(games) \/ StartPolls(games) \/ StartRefresh(games)
    \/ LoadConfidence \/ Authorise \/ Finish \/ Restore \/ FetchDies
    \/ \E a \in App : SearchOne(a) \/ PageOne(a)
HltbSpec == HltbInit /\ [][HltbNext]_hltbVars
-----------------------------------------------------------------------------
\* Type invariant.
HltbTypeOK ==
    /\ Cache(stored)
    /\ fetch.kind \in Kind /\ fetch.todo \subseteq App /\ fetch.found \subseteq App
    /\ fetch.pc \in {"dead", "over", "load", "auth", "search", "pages", "finish", "restore"}

Known(file, a) == a \in DOMAIN file /\ file[a].hours > 0

\* A command that runs to its end loses no estimate: whatever the searches
\* answered, refused or timed out on, and whichever saves came in between, a
\* game whose hours were known when it started is known when it is over
\* ("must not erase an estimate we already had").
EstimateSurvives ==
    fetch.pc = "over" => \A a \in App : Known(fetch.before, a) => Known(stored, a)

\* No save of a command, even of one that dies, touches the hours, the polls
\* or the detail of a game it does not look up: a partial save fills in what
\* its caller did not load.
OthersKeepTimes ==
    [][\A a \in DOMAIN stored \ fetch'.asked :
          /\ a \in DOMAIN stored'
          /\ \A field \in {"hours", "polls", "detail"} :
                stored'[a][field] = stored[a][field]]_stored

\* A crash in or after the searches costs less than SaveInterval answers: the
\* answers that are in memory and not in the file are always fewer.
Unsaved == {a \in fetch.asked \ fetch.todo :
                Get(fetch.mem.hours, a, 0) # Get(Column("hours"), a, 0)}
CrashLosesLittle ==
    LET searched == fetch.pc = "search" \/ (fetch.pc = "finish" /\ fetch.kind \notin ReadsPages)
    IN  searched /\ writable => Cardinality(Unsaved) < SaveInterval

\* No estimate that was known is lost, by a miss or by more than a crash costs.
EstimatesKept == EstimateSurvives /\ CrashLosesLittle

\* A comment of save_hltb_cache: a partial save "must not clobber rush/leisure/
\* game-id data that a prior detail fetch already wrote".
IdsSurvive ==
    [][\A a \in DOMAIN stored \ fetch'.asked :
          stored[a].gid # 0 => a \in DOMAIN stored' /\ stored'[a].gid # 0]_stored
=============================================================================
