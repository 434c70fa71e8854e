----------------------------- MODULE HltbLookup -----------------------------
(***************************************************************************)
(* One lookup of a game's hours: the queries of _search_one, until one has  *)
(* a candidate, and the detail page of the entry taken.  A query or a page  *)
(* that fails is passed over like one that holds nothing.                   *)
(***************************************************************************)
EXTENDS HltbPages

CONSTANTS
    SearchPages,    \* the pages a query may return
    MaxVariants     \* bound: simpler forms of a name, and the name

ASSUME HltbLookupAssumption == \A page \in SearchPages : SearchPage(page)

VARIABLE
    lookup          \* its step, the queries left, the candidates and the entry
                    \* taken, the page visited, and the hours

NoEntry == [none |-> TRUE]

\* _build_search_variants: the name, then simpler forms of it, each TRUE if it
\* lost the colon of the name and what follows.
VariantLists ==
    {v \in UNION {[1..n -> BOOLEAN] : n \in 1..MaxVariants} : ~v[1]}

LookupInit ==
    \E variants \in VariantLists :
        lookup = [pc |-> "search", queries |-> variants, cands |-> {}, taken |-> NoEntry,
                  visited |-> NoEntry, hours |-> NoHours]

Query ==
    /\ lookup.pc = "search"
    /\ \E page \in SearchPages \cup {{}} :
          LET cands == Candidates(page, Head(lookup.queries))
              best == BestEntry(cands)
          IN  lookup' =
                IF cands # {}
                THEN [lookup EXCEPT !.cands = cands, !.taken = best, !.hours = best.hours,
                                    !.pc = IF best.gid > 0 THEN "page" ELSE "over"]
                ELSE IF Len(lookup.queries) = 1 THEN [lookup EXCEPT !.pc = "over"]
                ELSE [lookup EXCEPT !.queries = Tail(@)]

Visit ==
    /\ lookup.pc = "page"
    /\ \/ lookup' = [lookup EXCEPT !.pc = "over"]
       \/ \E page \in DetailPages, own \in OwnHours :
             LET hours == Detail(page, own).hours
             IN  lookup' = [lookup EXCEPT !.pc = "over", !.cands = {},
                                          !.visited = [page |-> page, own |-> own],
                                          !.hours = IF hours > 0 THEN hours ELSE @]

LookupNext == Query \/ Visit
LookupSpec == LookupInit /\ [][LookupNext]_lookup
-----------------------------------------------------------------------------
\* Type invariant.
LookupTypeOK ==
    /\ lookup.pc \in {"search", "page", "over"} /\ lookup.queries \in Seq(BOOLEAN) \ {<<>>}
    /\ lookup.hours \in {NoHours} \cup (Nat \ {0})

\* The entry taken is no DLC where a game qualifies, and no shorter than a game
\* of exactly the name asked for.
TakesTheWholeGame ==
    LET games == {e \in lookup.cands : e.type # "dlc"}
    IN  lookup.cands # {} =>
          /\ lookup.taken \in (IF games # {} THEN games ELSE lookup.cands)
          /\ \A e \in games : e.name = "exact" => lookup.taken.hours >= e.hours

\* A DLC counts once, by its own page or else by the hours its game's page
\* lists; a page without times leaves the hours of the search.
CountsDlcOnce ==
    lookup.visited # NoEntry =>
        LET page == lookup.visited.page
            own  == lookup.visited.own
            Hours(d) == IF d \in DOMAIN own /\ own[d] > 0 THEN own[d] ELSE page.dlcs[d]
            base == BaseHours(page.slow, page.average)
        IN  lookup.hours = IF base > 0 THEN base + SumFunction([d \in DOMAIN page.dlcs |-> Hours(d)])
                           ELSE lookup.taken.hours

\* Whatever queries and pages answer, an estimate is for the whole game: a demo,
\* a DLC or a better known edition never shortens it, and every DLC is in it
\* exactly once.
EstimateIsWhole == TakesTheWholeGame /\ CountsDlcOnce
=============================================================================
