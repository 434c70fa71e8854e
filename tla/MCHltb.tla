-------------------------------- MODULE MCHltb --------------------------------
(***************************************************************************)
(* The estimates for TLC: two games, a few pages of a search and of a game, *)
(* and the caches a first or an older version may have left.                *)
(***************************************************************************)
EXTENDS HltbCache

Stored(hours, n, detail) ==
    [hours |-> hours, polls |-> n, count |-> n, detail |-> detail, gid |-> n]
HltbCaches ==
    {Empty, [a \in App |-> Stored(9, 1, 7)], [a \in App |-> Stored(9, 0, NoHours)],
     [a \in App |-> IF a = "a" THEN Stored(9, 1, 7) ELSE Stored(9, 0, NoHours)]}

\* Searches: three entries that are known, or two that may not qualify.
Known1 == {e \in SearchEntries({2}, {1, 4}, {0, 3}) :
              e.type # "mod" /\ e.count = 0 /\ e.gid = 1}
Mixed == {e \in SearchEntries({0, 1}, {0, 2}, {0}) : e.gid = 1}
HltbSearches ==
    {{x, y, z} : x \in Known1, y \in Known1, z \in Known1} \cup {{x, y} : x \in Mixed, y \in Mixed}

\* Replies: nothing, a hit of the second variant, a hit without polls or id.
OneHit(n) == [page |-> {[name |-> "exact", type |-> "game", sim |-> 2, hours |-> 3,
                         polls |-> n, count |-> n, gid |-> n]}, cut |-> FALSE]
NoHit == [page |-> {}, cut |-> FALSE]
HltbReplies == {<<NoHit, NoHit>>, <<NoHit, OneHit(1)>>, <<OneHit(0), OneHit(1)>>}

\* Pages with two DLCs and without times of their own; a DLC's page with and
\* without hours.
HltbDetails ==
    {[slow |-> {4, 6}, average |-> {2}, hundred |-> 2, count |-> 1, dlcs |-> <<1, 3>>],
     [slow |-> {}, average |-> {2}, hundred |-> 0, count |-> 0, dlcs |-> <<1>>]}
HltbOwn == {<<5>>, <<0, 2>>}
=============================================================================
