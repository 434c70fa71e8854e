-------------------------------- MODULE Blocks --------------------------------
(***************************************************************************)
(* The total gaming block and the Steam store block: /etc/hosts, the two   *)
(* iptables chains, the package lock, the Steam package and the timed      *)
(* store window, as the daemon, the command line and the outside world     *)
(* change them.                                                            *)
(*                                                                         *)
(* /etc/hosts holds two groups of entries: the normal store entries and    *)
(* the entries of a total block, which name the store's domains too.  A    *)
(* pass of the daemon is one step, except that a clean-up is two: the lock *)
(* is ended first.  A total block started from the command line or by the  *)
(* MCP server does not hold the daemon's tick lock and is four steps.      *)
(* Every step after the lock may fail and is then only warned of: a chain  *)
(* that cannot be flushed, names that do not resolve, rules that are not   *)
(* added, a hosts file that cannot be written.                             *)
(***************************************************************************)
EXTENDS Integers

CONSTANTS
    BlockDays,      \* length of a total block
    WindowLengths,  \* lengths of a store window (MAX_WINDOW_MINUTES)
    BlockEvents,    \* bound on disturbances and commands
    BlockHorizon    \* bound on the clock

ASSUME BlocksAssumption ==
    /\ BlockDays \in Nat \ {0} /\ WindowLengths \subseteq Nat \ {0}
    /\ BlockEvents \in Nat /\ BlockHorizon \in Nat

VARIABLES
    today,          \* the wall clock
    blockEnd,       \* "until" of the total block's lock file, 0 if there is none
    net,            \* hosts entries, store chain, known addresses, total chain, Steam
    opened,         \* store_unblocked_until, 0 if never set
    handled,        \* _reblocked_for: the deadlines this process re-blocked for
    setup,          \* block_store, and whether a game is assigned
    daemon,         \* the daemon: "down", "loop" or "cleanup"
    shell,          \* the command line: "off", "unblock", "locked", "resolve" or "hosts"
    cached,         \* the addresses it read from the cache
    trouble,        \* how many disturbances and commands are left
    lapses,         \* history: the steps that failed, of those a property excuses
    overlap,        \* history: a pass changed the entries while it was at work
    learned         \* history: the addresses resolved since they were last forgotten

blockVars == <<today, blockEnd, net, opened, handled, setup, daemon, shell, cached, trouble,
               lapses, overlap, learned>>

Sites == {"store", "games"}
ChainSteps == {"chain", "resolve", "rules"}
Excuses == {"store", "unhosts", "unchain", "chain", "resolve"}
Net == [store: {"none", "off", "on"}, total: {"none", "holed", "full"},
        chain: {"none", "null", "real"}, known: SUBSET Sites, rules: SUBSET Sites,
        steam: BOOLEAN]

BlocksTypeOK ==
    /\ today \in 0..BlockHorizon /\ blockEnd \in Nat /\ net \in Net /\ opened \in Nat
    /\ handled \subseteq Nat /\ setup \in [block: BOOLEAN, assigned: BOOLEAN]
    /\ daemon \in {"down", "loop", "cleanup"}
    /\ shell \in {"off", "unblock", "locked", "resolve", "hosts"}
    /\ cached \subseteq Sites /\ trouble \in 0..BlockEvents
    /\ lapses \subseteq Excuses /\ overlap \in BOOLEAN /\ learned \subseteq Sites

Active == blockEnd # 0 /\ today < blockEnd
NeedsCleanup == blockEnd # 0 /\ today >= blockEnd

(***************************************************************************)
(* The store block.                                                        *)
(***************************************************************************)
HostsBlockStore(n) == n.store = "on" \/ n.total = "full"
ChainStands(n) == n.chain # "none"
StoreBlocked(n) == HostsBlockStore(n) \/ ChainStands(n)

\* Commenting out and uncommenting go by the domain, whoever wrote the line.
CommentOut(n) ==
    [n EXCEPT !.store = IF @ = "on" THEN "off" ELSE @,
              !.total = IF @ = "full" THEN "holed" ELSE @]
Uncomment(n) ==
    [n EXCEPT !.store = IF @ = "off" THEN "on" ELSE @,
              !.total = IF @ = "holed" THEN "full" ELSE @]

\* The chain is rebuilt from what the names resolve to at that moment.
StoreChain(n) == [n EXCEPT !.chain = IF HostsBlockStore(n) THEN "null" ELSE "real"]

\* If nothing is left to uncomment the hosts install script writes the entries.
BlockStore(n) ==
    IF StoreBlocked(n) THEN n
    ELSE LET u == Uncomment(n)
         IN  StoreChain(IF HostsBlockStore(u) THEN u ELSE [u EXCEPT !.store = "on"])

ChainDropped(n) == [n EXCEPT !.chain = "none"]
UnblockStore(n) ==
    LET c == ChainDropped(n)
    IN  IF HostsBlockStore(c) THEN CommentOut(c) ELSE c

(***************************************************************************)
(* The total block.                                                        *)
(***************************************************************************)
Visible(n) ==
    (IF HostsBlockStore(n) THEN {} ELSE {"store"})
        \cup (IF n.total # "none" THEN {} ELSE {"games"})

Intact(n) == n.known # {} /\ n.known \subseteq n.rules

\* How far a step that fails in part gets.
Extent(f) == IF f \in {"resolve", "rules"} THEN SUBSET Sites ELSE {Sites}

\* A name that has no answer is passed over.
Addresses(n, f, some) == IF f = "resolve" THEN Visible(n) \cap some ELSE Visible(n)
Ruled(ips, f, some) == IF f = "rules" THEN ips \cap some ELSE ips

\* What a rebuild resolves.
Resolved(n, f, some) == IF Intact(n) \/ f = "chain" THEN {} ELSE Addresses(n, f, some)

\* Mutant: a rebuild keeps only what it resolves.
TotalChainAnew(n, f, some) ==
    IF Intact(n) \/ f = "chain" THEN n
    ELSE LET ips == Resolved(n, f, some)
         IN  [n EXCEPT !.known = ips, !.rules = Ruled(ips, f, some)]

\* apply_total_block_iptables: nothing if the rules stand; otherwise the addresses
\* are saved, those resolved with those cached, and then the rules are added.
TotalChain(n, f, some) ==
    IF Intact(n) \/ f = "chain" THEN n
    ELSE LET ips == n.known \cup Resolved(n, f, some)
         IN  [n EXCEPT !.known = ips, !.rules = Ruled(ips, f, some)]

TotalHosts(n) == IF n.total = "none" THEN [n EXCEPT !.total = "full"] ELSE n

WithoutSteam(n) == [n EXCEPT !.steam = FALSE]

\* Mutant: the hosts entries are written before the chain is built.
TotalTickHostsFirst(n, f, some) ==
    LET s == IF f = "uninstall" THEN n ELSE WithoutSteam(n)
        h == IF f = "hosts" THEN s ELSE TotalHosts(s)
    IN  TotalChain(h, f, some)

\* enforce_total_block_tick, and the steps of start_total_block after the lock:
\* f names the step that fails, if one does; the steps after it are taken.
TotalTick(n, f, some) ==
    LET s == IF f = "uninstall" THEN n ELSE WithoutSteam(n)
        c == TotalChain(s, f, some)
    IN  IF f = "hosts" THEN c ELSE TotalHosts(c)

ChainRemoved(n) == [n EXCEPT !.known = {}, !.rules = {}]

Removed(n, f) ==
    LET h == IF f = "unhosts" THEN n ELSE [n EXCEPT !.total = "none"]
    IN  IF f = "unchain" THEN h ELSE ChainRemoved(h)

(***************************************************************************)
(* The store window.                                                       *)
(***************************************************************************)
WindowOpen == opened # 0 /\ today < opened
WindowDue == opened # 0 /\ today >= opened /\ opened \notin handled

Windowed(n, f) ==
    IF WindowOpen THEN (IF HostsBlockStore(n) THEN UnblockStore(n) ELSE n)
    ELSE IF WindowDue /\ setup.block /\ f # "store" THEN BlockStore(n)
    ELSE n

WindowHandled == IF WindowDue THEN handled \cup {opened} ELSE handled

(***************************************************************************)
(* The daemon.                                                             *)
(***************************************************************************)
Failing(steps) ==
    IF trouble > 0 THEN steps \cup {"none"} ELSE {"none"}
Fails(f) == trouble' = (IF f = "none" THEN trouble ELSE trouble - 1)
                /\ lapses' = lapses \cup ({f} \cap Excuses)

\* A total block, no assignment, or no Steam: the start blocks nothing.
StartDaemon ==
    /\ daemon = "down"
    /\ daemon' = "loop" /\ handled' = {}
    /\ \E f \in Failing({"store"}) :
          /\ Fails(f)
          /\ net' = IF ~Active /\ setup.assigned /\ net.steam /\ setup.block
                           /\ f = "none"
                    THEN BlockStore(net) ELSE net
    /\ UNCHANGED <<today, blockEnd, opened, setup, shell, cached, overlap, learned>>

BlockPass ==
    /\ daemon = "loop" /\ Active
    /\ \E f \in Failing({"uninstall", "hosts"} \cup ChainSteps) : \E some \in Extent(f) :
          /\ Fails(f)
          /\ net' = TotalTick(net, f, some) /\ learned' = learned \cup Resolved(net, f, some)
    /\ overlap' = (overlap \/ (shell \in {"resolve", "hosts"} /\ net' # net))
    /\ UNCHANGED <<today, blockEnd, opened, handled, setup, daemon, shell, cached>>

\* Mutant: a clean-up waits for Steam, like everything after the Steam guard.
CleanupEndsLockWithSteam == net.steam /\ daemon = "loop" /\ NeedsCleanup
    /\ blockEnd' = 0 /\ daemon' = "cleanup"
    /\ UNCHANGED <<today, net, opened, handled, setup, shell, cached,
                   trouble, lapses, overlap, learned>>

\* Ending the lock may fail too: it is then ended by a later clean-up.
CleanupEndsLock ==
    /\ daemon = "loop" /\ NeedsCleanup
    /\ \E f \in Failing({"lock"}) :
          Fails(f) /\ blockEnd' = IF f = "none" THEN 0 ELSE blockEnd
    /\ daemon' = "cleanup"
    /\ UNCHANGED <<today, net, opened, handled, setup, shell, cached, overlap, learned>>

CleanupRemoves ==
    /\ daemon = "cleanup" /\ daemon' = "loop"
    /\ \E f \in Failing({"unhosts", "unchain", "store"}) :
          /\ Fails(f) /\ net' = Windowed(Removed(net, f), f)
          /\ learned' = IF f = "unchain" THEN learned ELSE {}
    /\ handled' = WindowHandled
    /\ overlap' = (overlap \/ shell \in {"resolve", "hosts"})
    /\ UNCHANGED <<today, blockEnd, opened, setup, shell, cached>>

WindowPass ==
    /\ daemon = "loop" /\ blockEnd = 0
    /\ \E f \in Failing({"store"}) : Fails(f) /\ net' = Windowed(net, f)
    /\ handled' = WindowHandled
    /\ UNCHANGED <<today, blockEnd, opened, setup, daemon, shell, cached, overlap, learned>>

(***************************************************************************)
(* The commands.                                                           *)
(***************************************************************************)
\* unblock: the lock is looked at, then the deadline saved and the store opened.
UnblockCheck ==
    /\ shell = "off" /\ ~Active /\ trouble > 0
    /\ shell' = "unblock" /\ trouble' = trouble - 1
    /\ UNCHANGED <<today, blockEnd, net, opened, handled, setup, daemon, cached,
                   lapses, overlap, learned>>

UnblockOpens ==
    /\ shell = "unblock" /\ shell' = "off"
    /\ \E w \in WindowLengths : today + w \notin handled /\ opened' = today + w
    /\ net' = UnblockStore(net)
    /\ UNCHANGED <<today, blockEnd, handled, setup, daemon, cached,
                   trouble, lapses, overlap, learned>>

\* block-gaming through the socket holds the tick lock; a step of it may fail.
SocketBlock ==
    /\ daemon = "loop" /\ shell \in {"off", "unblock"} /\ ~Active /\ trouble > 0
    /\ blockEnd' = today + BlockDays /\ trouble' = trouble - 1
    /\ \E f \in {"none", "uninstall", "hosts"} \cup ChainSteps : \E some \in Extent(f) :
          /\ lapses' = lapses \cup ({f} \cap Excuses)
          /\ net' = TotalTick(net, f, some) /\ learned' = learned \cup Resolved(net, f, some)
    /\ UNCHANGED <<today, opened, handled, setup, daemon, shell, cached, overlap>>

CliLocks ==
    /\ shell = "off" /\ ~Active /\ trouble > 0
    /\ shell' = "locked" /\ blockEnd' = today + BlockDays /\ trouble' = trouble - 1
    /\ \E n \in {net, WithoutSteam(net)} : net' = n
    /\ UNCHANGED <<today, opened, handled, setup, daemon, cached,
                   lapses, overlap, learned>>

\* The rules stand, or the chain is flushed, or it cannot be: then the entries
\* are written all the same.
CliReads ==
    /\ shell = "locked"
    /\ cached' = net.known
    /\ \E f \in Failing({"chain"}) :
          /\ Fails(f)
          /\ IF Intact(net) \/ f = "chain" THEN shell' = "hosts" /\ UNCHANGED net
             ELSE shell' = "resolve" /\ net' = [net EXCEPT !.rules = {}]
    /\ UNCHANGED <<today, blockEnd, opened, handled, setup, daemon, overlap, learned>>

CliResolves ==
    /\ shell = "resolve" /\ shell' = "hosts"
    /\ \E f \in Failing({"resolve", "rules"}) : \E some \in Extent(f) :
          /\ Fails(f)
          /\ learned' = learned \cup Addresses(net, f, some)
          /\ net' = [net EXCEPT !.known = cached \cup Addresses(net, f, some),
                !.rules = net.rules \cup Ruled(cached \cup Addresses(net, f, some), f, some)]
    /\ UNCHANGED <<today, blockEnd, opened, handled, setup, daemon, cached, overlap>>

CliHosts ==
    /\ shell = "hosts" /\ shell' = "off"
    /\ \E f \in Failing({"hosts"}) :
          Fails(f) /\ net' = IF f = "hosts" THEN net ELSE TotalHosts(net)
    /\ UNCHANGED <<today, blockEnd, opened, handled, setup, daemon, cached, overlap, learned>>

\* The command is killed, or ends on an error, between two of its steps.
CliDies ==
    /\ shell # "off" /\ trouble > 0 /\ trouble' = trouble - 1
    /\ shell' = "off"
    /\ UNCHANGED <<today, blockEnd, net, opened, handled, setup, daemon, cached,
                   lapses, overlap, learned>>

(***************************************************************************)
(* The world.  A block is started in less than its length.                 *)
(***************************************************************************)
BlockClock ==
    /\ today < BlockHorizon /\ today' = today + 1
    /\ shell \in {"locked", "resolve", "hosts"} => today' < blockEnd
    /\ UNCHANGED <<blockEnd, net, opened, handled, setup, daemon, shell, cached,
                   trouble, lapses, overlap, learned>>

DaemonDies ==
    /\ daemon # "down" /\ trouble > 0
    /\ daemon' = "down" /\ trouble' = trouble - 1
    /\ lapses' = lapses \cup (IF daemon = "cleanup" THEN {"unhosts", "unchain"} ELSE {})
    /\ UNCHANGED <<today, blockEnd, net, opened, handled, setup, shell, cached, overlap, learned>>

\* A reboot also forgets both chains and ends the command line.
Reboot ==
    /\ trouble > 0 /\ trouble' = trouble - 1
    /\ daemon' = "down" /\ shell' = "off"
    /\ lapses' = lapses \cup (IF daemon = "cleanup" THEN {"unhosts", "unchain"} ELSE {})
    /\ net' = [net EXCEPT !.chain = "none", !.rules = {}]
    /\ UNCHANGED <<today, blockEnd, opened, handled, setup, cached, overlap, learned>>

\* The hosts file is reinstalled by someone else, or Steam is, while it may be.
HostsReinstalled ==
    /\ trouble > 0 /\ trouble' = trouble - 1 /\ net' = [net EXCEPT !.store = "on"]
    /\ UNCHANGED <<today, blockEnd, opened, handled, setup, daemon, shell,
                   cached, lapses, overlap, learned>>

SteamReinstalled ==
    /\ ~Active /\ ~net.steam /\ net' = [net EXCEPT !.steam = TRUE]
    /\ UNCHANGED <<today, blockEnd, opened, handled, setup, daemon, shell, cached,
                   trouble, lapses, overlap, learned>>

BlocksInit ==
    /\ today = 0 /\ blockEnd = 0 /\ opened = 0 /\ handled = {}
    /\ \E s \in {"none", "on"} :
          net = [store |-> s, total |-> "none", chain |-> "none", known |-> {},
                 rules |-> {}, steam |-> TRUE]
    /\ setup \in [block: BOOLEAN, assigned: BOOLEAN]
    /\ daemon = "down" /\ shell = "off" /\ cached = {} /\ trouble = BlockEvents
    /\ lapses = {} /\ overlap = FALSE /\ learned = {}

BlocksDaemon == StartDaemon \/ BlockPass \/ CleanupEndsLock \/ CleanupRemoves \/ WindowPass
BlocksCommand ==
    UnblockCheck \/ UnblockOpens \/ SocketBlock \/ CliLocks \/ CliReads \/ CliResolves \/ CliHosts
    \/ CliDies
BlocksNext ==
    \/ BlocksDaemon \/ BlocksCommand \/ BlockClock
    \/ DaemonDies \/ Reboot \/ HostsReinstalled \/ SteamReinstalled

\* The loop comes round, systemd restarts the unit, time passes.
BlocksFairness == WF_blockVars(BlocksDaemon) /\ WF_blockVars(BlockClock)

BlocksSpec == BlocksInit /\ [][BlocksNext]_blockVars /\ BlocksFairness

(***************************************************************************)
(* Properties.                                                             *)
(***************************************************************************)
\* A rebuild never drops an address: what a name once resolved to stays known
\* until a clean-up forgets it, through failed rules, names that stopped resolving
\* or are hidden by then, restarts and reboots (_total_block_iptables.py:132).
KnownAreKept == ~overlap => learned \subseteq net.known

\* While a total block is active and its hosts entries hide the game sites,
\* their addresses are known: they were asked for before the entries were
\* written (_total_block.py:193).  Only if the chain could not be flushed, a name
\* had no answer (an offline start), or older entries could not be removed may
\* they be unknown; rules that were not added are no excuse.
AskedBeforeHidden ==
    (Active /\ net.total # "none" /\ ~overlap
        /\ lapses \cap {"chain", "resolve", "unhosts"} = {})
        => "games" \in net.known

\* Both leave out a start from the command line that a pass of the daemon
\* overlaps: it saves the addresses it has read before.
RealAddressesKept == KnownAreKept /\ AskedBeforeHidden

\* A total block that is over leaves no hosts entries and no chain, also with
\* Steam gone, unless a removal failed or was cut off (_total_block.py:224).
ExpiryLifts ==
    NeedsCleanup ~>
        \/ (net.total = "none" /\ net.rules = {}) \/ Active
        \/ lapses \cap {"unhosts", "unchain"} # {}

\* A store window that is over ends with the store blocked again, for every
\* window the daemon sees the end of (_store_window.py:98).
WindowCloses ==
    (setup.block /\ opened # 0 /\ today >= opened)
        ~> (StoreBlocked(net) \/ WindowOpen \/ Active \/ "store" \in lapses)

\* Nothing is blocked, and nothing left open, for longer than was asked for.
BlocksEnd == ExpiryLifts /\ WindowCloses
=============================================================================
