------------------------------ MODULE HltbPages ------------------------------
(***************************************************************************)
(* What an answer of HowLongToBeat is worth: which entry of a search is the *)
(* game asked for, and the hours and counts of a detail page.  Names are    *)
(* abstracted to how they relate to the name searched for, times to whole   *)
(* hours; entries that tie may come in any order.                           *)
(***************************************************************************)
EXTENDS Integers, FiniteSets, FiniteSetsExt, Sequences

CONSTANTS
    MinSimilarity,      \* MIN_SIMILARITY, on the scale of the entries
    DominanceRatio,     \* _EXTENDED_DOMINANCE_RATIO
    MinConfidence,      \* _EXTENDED_MIN_CONFIDENCE
    DetailPages, OwnHours   \* the pages of games there are, and those of DLCs

ASSUME HltbPagesAssumption ==
    /\ MinSimilarity \in Int /\ DominanceRatio \in Nat /\ MinConfidence \in Nat
    /\ \A page \in DetailPages :
          /\ page.slow \subseteq Nat /\ IsFiniteSet(page.slow)
          /\ page.average \subseteq Nat /\ IsFiniteSet(page.average)
          /\ page.hundred \in Nat /\ page.count \in Nat
          /\ IsFiniteSet(DOMAIN page.dlcs) /\ \A d \in DOMAIN page.dlcs : page.dlcs[d] \in Nat
    /\ \A own \in OwnHours : \A d \in DOMAIN own : own[d] \in Int

NoHours == -1           \* a lookup that found nothing

\* An entry of a search: "exact" has the name or the alias searched for,
\* "edition" that name and a subtitle, "subset" such a subtitle as "Demo".
SearchEntries(similarities, hours, counts) ==
    [name : {"exact", "edition", "subset", "other"}, type : {"game", "dlc", "mod"},
     sim : similarities, hours : hours, polls : counts, count : counts, gid : {0, 1}]

\* What a page of a search may hold; it is finite.
SearchPage(page) == IsFiniteSet(page) /\ page \subseteq SearchEntries(Int, Int, Nat)

\* _collect_candidates, and the filter of a query cut at its colon.
Candidates(page, cut) ==
    {e \in page : /\ e.hours > 0
                  /\ e.sim >= MinSimilarity \/ (e.name \in {"edition", "subset"} /\ e.type # "dlc")
                  /\ cut => e.name # "other"}

Longest(S) == CHOOSE e \in S : \A f \in S : f.hours <= e.hours
Nearest(S) == CHOOSE e \in S : \A f \in S : f.sim <= e.sim
Confidence(e) == e.polls + e.count

\* Mutant of EditionWins: the better known entry wins, longer or not.
EditionWinsIfKnown(exact, edition) == Confidence(edition) >= Confidence(exact)

\* _resolve_exact_vs_extended: a longer edition wins when it is as well known,
\* or much longer and known at all.
EditionWins(exact, edition) ==
    /\ edition.hours > exact.hours
    /\ \/ Confidence(edition) >= Confidence(exact)
       \/ /\ edition.hours >= exact.hours * DominanceRatio
          /\ Confidence(edition) >= MinConfidence

\* _find_best_extended: subsets and what is not a game are passed over.
Editions(usable) == {e \in usable : e.name = "edition" /\ e.type = "game"}

\* _pick_best_hltb_entry, of candidates that are not empty.
BestEntry(candidates) ==
    LET games    == {e \in candidates : e.type # "dlc"}
        usable   == IF games # {} THEN games ELSE candidates
        exacts   == {e \in usable : e.name = "exact"}
        editions == Editions(usable)
    IN  IF Cardinality(usable) = 1 THEN CHOOSE e \in usable : TRUE
        ELSE IF exacts = {}
        THEN IF editions = {} THEN Nearest(usable) ELSE Longest(editions)
        ELSE IF editions # {} /\ EditionWins(Longest(exacts), Longest(editions))
        THEN Longest(editions)
        ELSE Longest(exacts)

(***************************************************************************)
(* _search_one: the name and its shorter variants are tried in turn; a      *)
(* query that fails is skipped like one that finds nothing.                 *)
(* A reply is [page, cut]; a failed one has an empty page.                  *)
(***************************************************************************)
Miss == [hours |-> NoHours, polls |-> 0, count |-> 0, gid |-> 0]
Found(replies) ==
    LET hits == {i \in DOMAIN replies : Candidates(replies[i].page, replies[i].cut) # {}}
    IN  IF hits = {} THEN Miss
        ELSE LET r == replies[Min(hits)]
                 e == BestEntry(Candidates(r.page, r.cut))
             IN  [hours |-> e.hours, polls |-> e.polls, count |-> e.count, gid |-> e.gid]
-----------------------------------------------------------------------------
(***************************************************************************)
(* A detail page: slow is the slowest time of each platform and play style, *)
(* average the mean of each style, hundred and hundredSlow those of a full  *)
(* completion (0 when not given), and dlcs the hours it lists per DLC.      *)
(***************************************************************************)
\* _extract_base_leisure_hours.
BaseHours(slow, average) ==
    LET most(S) == Max(S \cup {0})
        hours   == IF most(slow) > 0 THEN most(slow) ELSE most(average)
    IN  IF hours > 0 THEN hours ELSE NoHours

Listed(page) == SumFunction(page.dlcs)

\* _apply_dlc_leisure_overrides: a DLC whose own page has hours counts by them.
Overridden(hours, page, own) ==
    hours + SumFunction([d \in {e \in DOMAIN page.dlcs : e \in DOMAIN own /\ own[e] > 0}
                            |-> own[d] - page.dlcs[d]])

\* _extract_leisure_hours and the override of _process_game_detail.
Leisure(page, own) ==
    LET base == BaseHours(page.slow, page.average)
    IN  IF base > 0 THEN Overridden(base + Listed(page), page, own) ELSE NoHours

\* The mean of a full completion and its DLCs: rush_hours.
Rush(page) == IF page.hundred > 0 THEN page.hundred + Listed(page) ELSE NoHours

\* What _apply_detail_to_extras and _fetch_leisure_times take from a page; no
\* page, or one that does not parse, gives nothing.
NoPage == [hours |-> NoHours, count |-> 0, detail |-> NoHours]
Detail(page, own) == [hours |-> Leisure(page, own), count |-> page.count, detail |-> Rush(page)]
=============================================================================
