------------------------------- MODULE MCPicks -------------------------------
(* Small instances of Picks for TLC: days are short, the orders between the *)
(* deadlines are those of the program (release < lock < abandon).           *)
EXTENDS Picks, TLC

CONSTANTS g1, g2, g3, cli, web

Games == {g1, g2, g3}
TwoGames == {g1, g2}
OneSession == {cli}
TwoSessions == {cli, web}
AllCommands == Command \ {"none"}
OneDoesAll == [p \in OneSession |-> AllCommands]
Overlap == [p \in TwoSessions |->
                IF p = cli THEN {"pick-manual", "abandon-pick", "scan", "pick"}
                ELSE {"pick-manual", "replace", "reset"}]
DaemonAndUser == [p \in TwoSessions |->
                      IF p = web THEN {"sweep"} ELSE {"pick-manual", "sweep"}]

\* One game is played while three take part, or two while only two do: a third
\* one fills the slots, a second one played lets done give out a locked pick.
Touched ==
    LET files == {disk} \cup {mem[p] : p \in Session} IN
    UNION {Allowed(s) \cup s.finished \cup {a \in App : s.skipped[a] # NoTime} : s \in files}
        \cup ({target[p] : p \in Session} \ {NoApp})
        \cup {a \in App : unlocked[a] # NoTime}
FewGames == Cardinality({a \in App : unlocked[a] # NoTime}) <= 1 \/ Cardinality(Touched) <= 2
OneSpec == Init /\ [][Next /\ FewGames']_vars

SymmetryGames == Permutations(App)
=============================================================================
