------------------------------- MODULE KillTree -------------------------------
(***************************************************************************)
(* Which processes the cutoff of a spent budget signals: the launchers and  *)
(* games it knows and all that descends from them, and never the processes  *)
(* the daemon itself runs under.  /proc is read three times, for the chain  *)
(* above the daemon, the table of parents, and the chain again; processes   *)
(* exit in between, and new ones take over their pids.                      *)
(***************************************************************************)
EXTENDS Integers, FiniteSets

CONSTANTS
    Procs,          \* the pids there are
    Daemon,         \* the daemon's own
    MaxDepth,       \* _MAX_PROCESS_TREE_DEPTH
    MaxTurnover     \* bound: processes that exit or start meanwhile

ASSUME KillTreeAssumption ==
    /\ MaxDepth \in Nat \ {0} /\ Procs \subseteq Nat \ {0} /\ Daemon \in Procs
    /\ MaxTurnover \in Nat

NoParent == 0          \* the parent of those whose parent exited
Gone == -1          \* no process has this pid

VARIABLES
    parent,         \* the parent of each pid
    kill,           \* the cutoff: its step, the roots, the two readings it holds,
                    \* and what it has signalled
    steady,         \* the pids that named the same process ever since
    turnover

treeVars == <<parent, kill, steady, turnover>>
Alive == {p \in Procs : parent[p] # Gone}

Up(tree, S) == S \cup {tree[p] : p \in S \cap Procs}
Reach(tree, S, n) ==    \* the processes S and the n generations above them
    LET up[k \in 0..n] == IF k = 0 THEN S ELSE Up(tree, up[k - 1])
    IN  up[n] \ {NoParent}

\* A forest: nobody descends from itself.  The launchers are found first.
KillTreeInit ==
    /\ parent \in [Procs -> Procs \cup {NoParent}]
    /\ \A p \in Procs : parent[p] \in Procs => p \notin Reach(parent, {parent[p]}, Cardinality(Procs))
    /\ \E roots \in SUBSET Procs :
          kill = [pc |-> "own", roots |-> roots, own |-> {}, table |-> parent, sent |-> {}]
    /\ steady = Procs /\ turnover = 0

\* _own_process_chain: up from the daemon, but not too far.
OwnChain == Reach(parent, {Daemon}, MaxDepth - 1)

ReadOwn ==
    /\ kill.pc = "own" /\ kill' = [kill EXCEPT !.pc = "table", !.own = OwnChain]
    /\ UNCHANGED <<parent, steady, turnover>>

\* _child_map.
ReadTable ==
    /\ kill.pc = "table" /\ kill' = [kill EXCEPT !.pc = "signal", !.table = parent]
    /\ UNCHANGED <<parent, steady, turnover>>

\* descendant_pids: down from the roots, level by level.
Descendants(own) ==
    LET down[n \in 0..MaxDepth] ==
            IF n = 0 THEN [found |-> {}, frontier |-> kill.roots \ own]
            ELSE LET d == down[n - 1]
                     new == {p \in Procs \ (own \cup d.found) : kill.table[p] \in d.frontier}
                 IN  [found |-> d.found \cup new, frontier |-> new]
    IN  down[MaxDepth].found

\* Mutant of Targets: the chain that was read first is not taken out.
TargetsUnchecked == kill.roots \cup Descendants(OwnChain)

Targets == (kill.roots \cup Descendants(OwnChain)) \ kill.own

\* Pids that are gone are passed over.
Signal ==
    /\ kill.pc = "signal" /\ kill' = [kill EXCEPT !.pc = "over", !.sent = Targets \cap Alive]
    /\ UNCHANGED <<parent, steady, turnover>>

\* A process exits, and its children go to init; or one starts.
Turns == turnover < MaxTurnover /\ turnover' = turnover + 1 /\ kill.pc # "over" /\ UNCHANGED kill
Exits(p) ==
    /\ Turns /\ p \in Alive \ {Daemon}
    /\ parent' = [q \in Procs |-> IF q = p THEN Gone
                                  ELSE IF parent[q] = p THEN NoParent ELSE parent[q]]
    /\ steady' = steady \ ({p} \cup {q \in Procs : parent[q] = p})
Forks(p, q) ==
    /\ Turns /\ p \in Alive /\ parent[q] = Gone
    /\ parent' = [parent EXCEPT ![q] = p] /\ UNCHANGED steady

KillTreeNext ==
    \/ ReadOwn \/ ReadTable \/ Signal
    \/ \E p \in Procs : Exits(p) \/ \E q \in Procs : Forks(p, q)
KillTreeSpec == KillTreeInit /\ [][KillTreeNext]_treeVars
-----------------------------------------------------------------------------
\* Type invariant.
KillTreeTypeOK ==
    /\ parent \in [Procs -> Procs \cup {NoParent, Gone}] /\ steady \subseteq Procs
    /\ kill.pc \in {"own", "table", "signal", "over"} /\ turnover \in 0..MaxTurnover
    /\ kill.roots \subseteq Procs /\ kill.own \subseteq Procs /\ kill.sent \subseteq Procs

\* Whatever exits or starts between the readings: the daemon and what it runs
\* under are spared, as far up as the chain is followed; and a process that was
\* there throughout, with a root above it, is signalled, but for one below the
\* daemon's own chain.
KillsTheTree ==
    kill.pc = "over" =>
        /\ OwnChain \cap kill.sent = {}
        /\ \A p \in steady :
              LET above == Reach(parent, {p}, MaxDepth)
                  spared == Reach(parent, {Daemon}, Cardinality(Procs)) \cup kill.own
              IN  above \subseteq steady /\ above \cap kill.roots # {} /\ above \cap spared = {}
                    => p \in kill.sent
=============================================================================
