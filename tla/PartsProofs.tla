------------------------------ MODULE PartsProofs ------------------------------
(***************************************************************************)
(* Proofs about the smaller components.  Those the daemon enforces a spent  *)
(* budget with, for any addresses, clocks, processes and bounds: the        *)
(* addresses of the total block stay known, leisure mode signals only what  *)
(* was warned in time, the cutoff signals what runs below a game and spares *)
(* the daemon's own, and what it learns of the day's credit is never older  *)
(* than a poll.  Then the processes of the web server, and all of the       *)
(* components side by side, by their own inductive invariants.              *)
(***************************************************************************)
EXTENDS MCParts, EventLogProofs, HltbProofs, LibraryProofs, WellFoundedInduction, TLAPS

(***************************************************************************)
(* The total block.  Known addresses hold the game sites' once there are   *)
(* any, or once there are entries that hide them, but for the failures the *)
(* property excuses; and they hold all that was learned whatever fails.    *)
(* Between reading the addresses and saving them a start from the command  *)
(* line has those that are known, unless a pass was made meanwhile.        *)
(***************************************************************************)
Knows(addresses, n) ==
    /\ addresses # {} => "games" \in addresses
    /\ n.total # "none" => "games" \in addresses
Excused == overlap \/ lapses \cap {"chain", "resolve", "unhosts"} # {}
LearnedIsKnown ==
    ~overlap => /\ learned \subseteq net.known
                /\ shell = "resolve" => cached = net.known
GamesAreKnown ==
    Excused \/ (Knows(net.known, net) /\ (shell = "hosts" => "games" \in net.known))
AddressesInv == BlocksTypeOK /\ LearnedIsKnown /\ GamesAreKnown

\* The same addresses, and hosts entries that hide the game sites or do not.
SameGames(n, m) ==
    m.known = n.known /\ m.rules = n.rules /\ (m.total = "none" <=> n.total = "none")

LEMMA StoreKeepsGames ==
    ASSUME NEW n \in Net
    PROVE  /\ BlockStore(n) \in Net /\ SameGames(n, BlockStore(n))
           /\ UnblockStore(n) \in Net /\ SameGames(n, UnblockStore(n))
<1>1. \A m \in Net : CommentOut(m) \in Net /\ SameGames(m, CommentOut(m))
  BY DEF CommentOut, Net, SameGames
<1>2. \A m \in Net : Uncomment(m) \in Net /\ SameGames(m, Uncomment(m))
  BY DEF Uncomment, Net, SameGames
<1>3. \A m \in Net : StoreChain(m) \in Net /\ SameGames(m, StoreChain(m))
  BY DEF StoreChain, Net, SameGames
<1>4. \A m \in Net : /\ [m EXCEPT !.store = "on"] \in Net
                     /\ SameGames(m, [m EXCEPT !.store = "on"])
  BY DEF Net, SameGames
<1>5. \A m \in Net : ChainDropped(m) \in Net /\ SameGames(m, ChainDropped(m))
  BY DEF ChainDropped, Net, SameGames
<1>6. BlockStore(n) \in Net /\ SameGames(n, BlockStore(n))
  <2> DEFINE u == Uncomment(n)
             v == IF HostsBlockStore(u) THEN u ELSE [u EXCEPT !.store = "on"]
  <2>1. u \in Net /\ SameGames(n, u)
    BY <1>2
  <2> HIDE DEF u
  <2>2. v \in Net /\ SameGames(n, v)
    BY <1>4, <2>1 DEF SameGames
  <2> HIDE DEF v
  <2>3. StoreChain(v) \in Net /\ SameGames(n, StoreChain(v))
    BY <1>3, <2>2 DEF SameGames
  <2>4. BlockStore(n) = IF StoreBlocked(n) THEN n ELSE StoreChain(v)
    BY Zenon DEF BlockStore, u, v
  <2> QED
    BY <2>3, <2>4 DEF SameGames
<1>7. UnblockStore(n) \in Net /\ SameGames(n, UnblockStore(n))
  <2> DEFINE c == ChainDropped(n)
  <2>1. c \in Net /\ SameGames(n, c)
    BY <1>5
  <2>2. UnblockStore(n) = IF HostsBlockStore(c) THEN CommentOut(c) ELSE c
    BY Zenon DEF UnblockStore
  <2> HIDE DEF c
  <2> QED
    BY <1>1, <2>1, <2>2 DEF SameGames
<1> QED
  BY <1>6, <1>7

LEMMA WindowKeepsGames ==
    ASSUME NEW n \in Net, NEW f PROVE Windowed(n, f) \in Net /\ SameGames(n, Windowed(n, f))
BY StoreKeepsGames DEF Windowed, SameGames

\* What a rebuild of the chain resolves is known after it, and so is what was
\* known; only a chain or a name that failed leaves out the game sites' addresses.
LEMMA TotalChainIs ==
    ASSUME NEW n \in Net, NEW f, NEW some \in Extent(f)
    PROVE  /\ TotalChain(n, f, some) \in Net /\ TotalChain(n, f, some).total = n.total
           /\ TotalChain(n, f, some).known = n.known \cup Resolved(n, f, some)
           /\ Resolved(n, f, some) \subseteq Sites
           /\ Knows(n.known, n) /\ f \notin {"chain", "resolve"}
                => "games" \in n.known \cup Resolved(n, f, some)
<1> DEFINE got == Resolved(n, f, some)
           ruled == Ruled(n.known \cup got, f, some)
<1>1. Visible(n) \subseteq Sites /\ (n.total = "none" => "games" \in Visible(n))
  BY DEF Visible, Sites
<1>2. /\ got \subseteq Visible(n) /\ (Intact(n) \/ f = "chain" => got = {})
      /\ ~Intact(n) /\ f \notin {"chain", "resolve"} => got = Visible(n)
  <2>1. Addresses(n, f, some) \subseteq Visible(n)
        /\ (f # "resolve" => Addresses(n, f, some) = Visible(n))
    BY DEF Addresses
  <2> QED
    BY <2>1 DEF Resolved
<1>3. TotalChain(n, f, some) = IF Intact(n) \/ f = "chain" THEN n
                               ELSE [n EXCEPT !.known = n.known \cup got, !.rules = ruled]
  BY Zenon DEF TotalChain
<1> HIDE DEF got
<1>4. n.known \cup got \subseteq Sites /\ ruled \subseteq Sites
  BY <1>1, <1>2 DEF Net, Ruled
<1> HIDE DEF ruled
<1>5. /\ TotalChain(n, f, some) \in Net /\ TotalChain(n, f, some).total = n.total
      /\ TotalChain(n, f, some).known = n.known \cup got
  BY <1>2, <1>3, <1>4 DEF Net
<1>6. Knows(n.known, n) /\ f \notin {"chain", "resolve"} => "games" \in n.known \cup got
  BY <1>1, <1>2 DEF Knows, Intact
<1> QED
  BY <1>1, <1>2, <1>5, <1>6 DEF got

LEMMA TotalTickIs ==
    ASSUME NEW n \in Net, NEW f, NEW some \in Extent(f)
    PROVE  /\ TotalTick(n, f, some) \in Net
           /\ TotalTick(n, f, some).known = n.known \cup Resolved(n, f, some)
           /\ Resolved(n, f, some) \subseteq Sites
           /\ Knows(n.known, n) /\ f \notin {"chain", "resolve"}
                => Knows(TotalTick(n, f, some).known, TotalTick(n, f, some))
<1> DEFINE s == IF f = "uninstall" THEN n ELSE WithoutSteam(n)
           c == TotalChain(s, f, some)
           t == IF f = "hosts" THEN c ELSE TotalHosts(c)
<1>1. /\ s \in Net /\ s.known = n.known /\ s.total = n.total
      /\ s.rules = n.rules /\ s.store = n.store
  BY DEF WithoutSteam, Net
<1>2. t = TotalTick(n, f, some)
  BY Zenon DEF TotalTick
<1> HIDE DEF s
<1>3. Visible(s) = Visible(n) /\ (Intact(s) <=> Intact(n))
  BY <1>1 DEF Visible, HostsBlockStore, Intact
<1>4. Resolved(s, f, some) = Resolved(n, f, some)
  <2>1. Addresses(s, f, some) = Addresses(n, f, some)
    BY <1>3 DEF Addresses
  <2> QED
    BY <1>3, <2>1 DEF Resolved
<1>5. Knows(n.known, n) <=> Knows(s.known, s)
  BY <1>1 DEF Knows
<1>6. /\ c \in Net /\ c.known = n.known \cup Resolved(n, f, some)
      /\ Resolved(n, f, some) \subseteq Sites
      /\ Knows(n.known, n) /\ f \notin {"chain", "resolve"} => "games" \in c.known
  BY <1>1, <1>4, <1>5, TotalChainIs
<1> HIDE DEF c
<1>7. t \in Net /\ t.known = c.known
  BY <1>6 DEF TotalHosts, Net
<1> HIDE DEF t
<1> QED
  BY <1>2, <1>6, <1>7 DEF Knows

\* Only entries that could not be removed keep hiding what was forgotten.
LEMMA RemovedIs ==
    ASSUME NEW n \in Net, NEW f
    PROVE  /\ Removed(n, f) \in Net /\ (f = "unchain" => Removed(n, f).known = n.known)
           /\ Knows(n.known, n) /\ f # "unhosts" => Knows(Removed(n, f).known, Removed(n, f))
<1> DEFINE h == IF f = "unhosts" THEN n ELSE [n EXCEPT !.total = "none"]
<1>1. /\ h \in Net /\ h.known = n.known
      /\ f # "unhosts" => h.total = "none"
  BY DEF Net
<1>2. Removed(n, f) = IF f = "unchain" THEN h ELSE ChainRemoved(h)
  BY Zenon DEF Removed
<1> HIDE DEF h
<1>3. ChainRemoved(h) \in Net /\ ChainRemoved(h).known = {} /\ ChainRemoved(h).total = h.total
  BY <1>1 DEF ChainRemoved, Net
<1> QED
  BY <1>1, <1>2, <1>3 DEF Knows

LEMMA BlocksInitInv == BlocksInit => AddressesInv
<1> SUFFICES ASSUME BlocksInit PROVE AddressesInv
  OBVIOUS
<1>1. net \in Net /\ net.known = {} /\ net.total = "none"
  BY DEF BlocksInit, Net
<1>2. BlocksTypeOK
  <2>1. 0 \in 0..BlockHorizon /\ BlockEvents \in 0..BlockEvents
    BY BlocksAssumption DEF BlocksAssumption
  <2> QED
    BY <1>1, <2>1 DEF BlocksInit, BlocksTypeOK
<1>3. Knows(net.known, net)
  BY <1>1 DEF Knows
<1> QED
  BY <1>1, <1>2, <1>3 DEF BlocksInit, AddressesInv, LearnedIsKnown, GamesAreKnown

\* The steps that can fail.
BlockSteps == {"store", "uninstall", "hosts", "lock", "unhosts", "unchain"} \cup ChainSteps

\* The steps of the daemon: what fails is recorded, if it is an excuse.
LEMMA FailsIs ==
    ASSUME BlocksTypeOK, NEW steps \in SUBSET BlockSteps, NEW f \in Failing(steps), Fails(f)
    PROVE  /\ trouble' \in 0..BlockEvents /\ lapses' \subseteq Excuses
           /\ lapses \subseteq lapses'
           /\ f \in Excuses => f \in lapses'
<1>1. trouble' \in 0..BlockEvents
  <2>1. f # "none" => trouble > 0
    BY DEF Failing
  <2> QED
    BY <2>1, BlocksAssumption DEF Fails, BlocksTypeOK, BlocksAssumption
<1> QED
  BY <1>1 DEF Fails, BlocksTypeOK

\* A step that leaves the addresses and the command line alone.
LEMMA SameAddresses ==
    ASSUME AddressesInv, BlocksTypeOK', net'.known = net.known,
           net'.total = net.total \/ SameGames(net, net'),
           shell' = shell \/ shell' \in {"off", "unblock", "locked"},
           cached' = cached, lapses \subseteq lapses', overlap' = overlap, learned' = learned
    PROVE  AddressesInv'
<1>1. LearnedIsKnown'
  BY DEF AddressesInv, LearnedIsKnown
<1>2. Excused => Excused'
  BY DEF Excused
<1>3. GamesAreKnown'
  BY <1>2 DEF AddressesInv, GamesAreKnown, Knows, SameGames
<1> QED
  BY <1>1, <1>3 DEF AddressesInv

LEMMA StartDaemonInv == AddressesInv /\ StartDaemon => AddressesInv'
<1> SUFFICES ASSUME AddressesInv, StartDaemon PROVE AddressesInv'
  OBVIOUS
<1>1. PICK f \in Failing({"store"}) :
          /\ Fails(f)
          /\ net' = IF ~Active /\ setup.assigned /\ net.steam /\ setup.block /\ f = "none"
                    THEN BlockStore(net) ELSE net
  BY DEF StartDaemon
<1>2. BlocksTypeOK /\ net \in Net
  BY DEF AddressesInv, BlocksTypeOK
<1>3. net' \in Net /\ SameGames(net, net')
  BY <1>1, <1>2, StoreKeepsGames DEF SameGames
<1>4. trouble' \in 0..BlockEvents /\ lapses' \subseteq Excuses /\ lapses \subseteq lapses'
  BY <1>1, <1>2, FailsIs DEF BlockSteps
<1>5. BlocksTypeOK'
  BY <1>2, <1>3, <1>4 DEF StartDaemon, BlocksTypeOK
<1>6. shell' = shell /\ cached' = cached /\ overlap' = overlap /\ learned' = learned
  BY DEF StartDaemon
<1> QED
  BY <1>3, <1>4, <1>5, <1>6, SameAddresses DEF SameGames

\* A pass, or a start through the socket: what it resolves is known after it.
LEMMA TickIsKnown ==
    ASSUME AddressesInv, BlocksTypeOK', NEW f, NEW some \in Extent(f),
           net' = TotalTick(net, f, some), learned' = learned \cup Resolved(net, f, some),
           shell' = shell, cached' = cached, lapses \subseteq lapses',
           f \in {"chain", "resolve"} => f \in lapses',
           overlap => overlap',
           shell \in {"resolve", "hosts"} /\ net' # net => overlap'
    PROVE  AddressesInv'
<1>1. net \in Net
  BY DEF AddressesInv, BlocksTypeOK
<1>2. /\ net'.known = net.known \cup Resolved(net, f, some)
      /\ Knows(net.known, net) /\ f \notin {"chain", "resolve"} => Knows(net'.known, net')
  BY <1>1, TotalTickIs
<1>3. LearnedIsKnown'
  BY <1>2 DEF AddressesInv, LearnedIsKnown
<1>4. ~Excused' => /\ ~Excused /\ f \notin {"chain", "resolve"}
                   /\ (shell = "hosts" => net' = net)
  BY DEF Excused
<1>5. GamesAreKnown'
  BY <1>2, <1>4 DEF AddressesInv, GamesAreKnown
<1> QED
  BY <1>3, <1>5 DEF AddressesInv

LEMMA BlockPassInv == AddressesInv /\ BlockPass => AddressesInv'
<1> SUFFICES ASSUME AddressesInv, BlockPass PROVE AddressesInv'
  OBVIOUS
<1>1. PICK f \in Failing({"uninstall", "hosts"} \cup ChainSteps) : \E some \in Extent(f) :
          /\ Fails(f)
          /\ net' = TotalTick(net, f, some) /\ learned' = learned \cup Resolved(net, f, some)
  BY DEF BlockPass
<1>2. PICK some \in Extent(f) :
          /\ Fails(f)
          /\ net' = TotalTick(net, f, some) /\ learned' = learned \cup Resolved(net, f, some)
  BY <1>1
<1>3. BlocksTypeOK /\ net \in Net
  BY DEF AddressesInv, BlocksTypeOK
<1>4. net' \in Net /\ Resolved(net, f, some) \subseteq Sites
  BY <1>2, <1>3, TotalTickIs
<1>5. /\ trouble' \in 0..BlockEvents /\ lapses' \subseteq Excuses /\ lapses \subseteq lapses'
      /\ f \in Excuses => f \in lapses'
  <2>1. {"uninstall", "hosts"} \cup ChainSteps \in SUBSET BlockSteps
    BY DEF BlockSteps
  <2> QED
    BY <1>2, <1>3, <2>1, FailsIs
<1>6. /\ overlap' <=> overlap \/ (shell \in {"resolve", "hosts"} /\ net' # net)
      /\ shell' = shell /\ cached' = cached
  BY DEF BlockPass
<1>7. BlocksTypeOK'
  BY <1>2, <1>3, <1>4, <1>5 DEF BlockPass, BlocksTypeOK
<1>8. f \in {"chain", "resolve"} => f \in lapses'
  BY <1>5 DEF Excuses
<1> QED
  BY <1>2, <1>5, <1>6, <1>7, <1>8, TickIsKnown

LEMMA SocketBlockInv == AddressesInv /\ SocketBlock => AddressesInv'
<1> SUFFICES ASSUME AddressesInv, SocketBlock PROVE AddressesInv'
  OBVIOUS
<1>1. PICK f \in {"none", "uninstall", "hosts"} \cup ChainSteps : \E some \in Extent(f) :
          /\ lapses' = lapses \cup ({f} \cap Excuses)
          /\ net' = TotalTick(net, f, some) /\ learned' = learned \cup Resolved(net, f, some)
  BY DEF SocketBlock
<1>2. PICK some \in Extent(f) :
          /\ lapses' = lapses \cup ({f} \cap Excuses)
          /\ net' = TotalTick(net, f, some) /\ learned' = learned \cup Resolved(net, f, some)
  BY <1>1
<1>3. BlocksTypeOK /\ net \in Net /\ BlocksAssumption
  BY BlocksAssumption DEF AddressesInv, BlocksTypeOK
<1>4. net' \in Net /\ Resolved(net, f, some) \subseteq Sites
  BY <1>2, <1>3, TotalTickIs
<1>5. /\ overlap' = overlap /\ shell' = shell /\ cached' = cached
      /\ shell \notin {"resolve", "hosts"} /\ trouble' \in 0..BlockEvents
      /\ blockEnd' \in Nat
  BY <1>3 DEF SocketBlock, BlocksTypeOK, BlocksAssumption
<1>6. /\ lapses' \subseteq Excuses /\ lapses \subseteq lapses'
      /\ learned' \subseteq Sites /\ (f \in {"chain", "resolve"} => f \in lapses')
  BY <1>2, <1>3, <1>4 DEF BlocksTypeOK, Excuses
<1>7. BlocksTypeOK'
  BY <1>3, <1>4, <1>5, <1>6 DEF SocketBlock, BlocksTypeOK
<1> QED
  BY <1>2, <1>5, <1>6, <1>7, TickIsKnown

LEMMA CleanupRemovesInv == AddressesInv /\ CleanupRemoves => AddressesInv'
<1> SUFFICES ASSUME AddressesInv, CleanupRemoves PROVE AddressesInv'
  OBVIOUS
<1>1. PICK f \in Failing({"unhosts", "unchain", "store"}) :
          /\ Fails(f) /\ net' = Windowed(Removed(net, f), f)
          /\ learned' = IF f = "unchain" THEN learned ELSE {}
  BY DEF CleanupRemoves
<1>2. BlocksTypeOK /\ net \in Net
  BY DEF AddressesInv, BlocksTypeOK
<1>3. /\ Removed(net, f) \in Net /\ (f = "unchain" => Removed(net, f).known = net.known)
      /\ Knows(net.known, net) /\ f # "unhosts" => Knows(Removed(net, f).known, Removed(net, f))
  BY <1>2, RemovedIs
<1>4. /\ net' \in Net /\ SameGames(Removed(net, f), net')
  BY <1>1, <1>3, WindowKeepsGames
<1>5. /\ trouble' \in 0..BlockEvents /\ lapses' \subseteq Excuses /\ lapses \subseteq lapses'
      /\ f \in Excuses => f \in lapses'
  BY <1>1, <1>2, FailsIs DEF BlockSteps
<1>6. BlocksTypeOK'
  BY <1>1, <1>2, <1>4, <1>5 DEF CleanupRemoves, BlocksTypeOK, WindowHandled
<1>7. /\ overlap' <=> overlap \/ shell \in {"resolve", "hosts"}
      /\ shell' = shell
  BY DEF CleanupRemoves
<1>8. ~Excused' => ~Excused /\ f # "unhosts" /\ shell' # "hosts"
  BY <1>5, <1>7 DEF Excused, Excuses
<1>9. LearnedIsKnown'
  BY <1>1, <1>3, <1>4, <1>7 DEF AddressesInv, LearnedIsKnown, SameGames
<1>10. GamesAreKnown'
  BY <1>3, <1>4, <1>8 DEF AddressesInv, GamesAreKnown, Knows, SameGames
<1> QED
  BY <1>6, <1>9, <1>10 DEF AddressesInv

LEMMA WindowPassInv == AddressesInv /\ WindowPass => AddressesInv'
<1> SUFFICES ASSUME AddressesInv, WindowPass PROVE AddressesInv'
  OBVIOUS
<1>1. PICK f \in Failing({"store"}) : Fails(f) /\ net' = Windowed(net, f)
  BY DEF WindowPass
<1>2. BlocksTypeOK /\ net \in Net
  BY DEF AddressesInv, BlocksTypeOK
<1>3. net' \in Net /\ SameGames(net, net')
  BY <1>1, <1>2, WindowKeepsGames
<1>4. trouble' \in 0..BlockEvents /\ lapses' \subseteq Excuses /\ lapses \subseteq lapses'
  BY <1>1, <1>2, FailsIs DEF BlockSteps
<1>5. BlocksTypeOK'
  BY <1>2, <1>3, <1>4 DEF WindowPass, BlocksTypeOK, WindowHandled
<1>6. shell' = shell /\ cached' = cached /\ overlap' = overlap /\ learned' = learned
  BY DEF WindowPass
<1> QED
  BY <1>3, <1>4, <1>5, <1>6, SameAddresses DEF SameGames

LEMMA CleanupEndsLockInv == AddressesInv /\ CleanupEndsLock => AddressesInv'
<1> SUFFICES ASSUME AddressesInv, CleanupEndsLock PROVE AddressesInv'
  OBVIOUS
<1>1. PICK f \in Failing({"lock"}) :
          Fails(f) /\ blockEnd' = IF f = "none" THEN 0 ELSE blockEnd
  BY DEF CleanupEndsLock
<1>2. BlocksTypeOK
  BY DEF AddressesInv
<1>3. trouble' \in 0..BlockEvents /\ lapses' \subseteq Excuses /\ lapses \subseteq lapses'
  BY <1>1, <1>2, FailsIs DEF BlockSteps
<1>4. BlocksTypeOK'
  BY <1>1, <1>2, <1>3 DEF CleanupEndsLock, BlocksTypeOK
<1>5. /\ shell' = shell /\ cached' = cached /\ overlap' = overlap /\ learned' = learned
      /\ net' = net
  BY DEF CleanupEndsLock
<1> QED
  BY <1>3, <1>4, <1>5, SameAddresses

\* A start from the command line, one step of its own after the other.
LEMMA CliInv == AddressesInv /\ (CliReads \/ CliResolves \/ CliHosts) => AddressesInv'
<1> SUFFICES ASSUME AddressesInv, CliReads \/ CliResolves \/ CliHosts PROVE AddressesInv'
  OBVIOUS
<1>1. BlocksTypeOK /\ net \in Net
  BY DEF AddressesInv, BlocksTypeOK
<1>2. CASE CliReads
  <2>1. PICK f \in Failing({"chain"}) :
            /\ Fails(f)
            /\ IF Intact(net) \/ f = "chain" THEN shell' = "hosts" /\ UNCHANGED net
               ELSE shell' = "resolve" /\ net' = [net EXCEPT !.rules = {}]
    BY <1>2 DEF CliReads
  <2>2. /\ trouble' \in 0..BlockEvents /\ lapses' \subseteq Excuses /\ lapses \subseteq lapses'
        /\ f = "chain" => f \in lapses'
    BY <1>1, <2>1, FailsIs DEF BlockSteps, ChainSteps, Excuses
  <2>3. /\ net' \in Net /\ net'.known = net.known /\ net'.total = net.total
        /\ shell' \in {"hosts", "resolve"}
        /\ shell' = "hosts" => Intact(net) \/ f = "chain"
    BY <1>1, <2>1 DEF Net
  <2>4. /\ cached' = net.known /\ net.known \subseteq Sites /\ overlap' = overlap
        /\ learned' = learned
    BY <1>1, <1>2 DEF CliReads, Net
  <2>5. BlocksTypeOK'
    BY <1>1, <1>2, <2>2, <2>3, <2>4 DEF CliReads, BlocksTypeOK
  <2>6. LearnedIsKnown'
    BY <2>3, <2>4 DEF AddressesInv, LearnedIsKnown
  <2>7. ~Excused' => ~Excused /\ f # "chain"
    BY <2>2, <2>4 DEF Excused
  <2>8. GamesAreKnown'
    BY <2>3, <2>7 DEF AddressesInv, GamesAreKnown, Knows, Intact
  <2> QED
    BY <2>5, <2>6, <2>8 DEF AddressesInv
<1>3. CASE CliResolves
  <2>1. PICK f \in Failing({"resolve", "rules"}) : \E some \in Extent(f) :
            /\ Fails(f)
            /\ learned' = learned \cup Addresses(net, f, some)
            /\ net' = [net EXCEPT !.known = cached \cup Addresses(net, f, some),
                  !.rules = net.rules \cup Ruled(cached \cup Addresses(net, f, some), f, some)]
    BY <1>3, Zenon DEF CliResolves
  <2>2. PICK some \in Extent(f) :
            /\ Fails(f)
            /\ learned' = learned \cup Addresses(net, f, some)
            /\ net' = [net EXCEPT !.known = cached \cup Addresses(net, f, some),
                  !.rules = net.rules \cup Ruled(cached \cup Addresses(net, f, some), f, some)]
    BY <2>1, Zenon
  <2> DEFINE got == Addresses(net, f, some)
             ips == cached \cup got
             ruled == net.rules \cup Ruled(ips, f, some)
  <2>3. /\ got \subseteq Sites /\ ips \subseteq Sites /\ ruled \subseteq Sites
        /\ net.total = "none" /\ f # "resolve" => "games" \in got
    BY <1>1 DEF BlocksTypeOK, Addresses, Ruled, Visible, Sites, Net
  <2>4. /\ Fails(f) /\ learned' = learned \cup got
        /\ net' = [net EXCEPT !.known = ips, !.rules = ruled]
    BY <2>2, Zenon
  <2> HIDE DEF got, ips, ruled
  <2>5. net' \in Net /\ net'.known = ips /\ net'.total = net.total
    BY <1>1, <2>3, <2>4 DEF Net
  <2>6. /\ trouble' \in 0..BlockEvents /\ lapses' \subseteq Excuses /\ lapses \subseteq lapses'
        /\ f = "resolve" => f \in lapses'
    BY <1>1, <2>4, FailsIs DEF BlockSteps, ChainSteps, Excuses
  <2>7. /\ shell = "resolve" /\ shell' = "hosts" /\ overlap' = overlap /\ cached' = cached
        /\ today' = today /\ blockEnd' = blockEnd /\ opened' = opened
        /\ handled' = handled /\ setup' = setup /\ daemon' = daemon
        /\ ips = cached \cup got
    BY <1>3, Zenon DEF CliResolves, ips
  <2>8. BlocksTypeOK'
    BY <1>1, <2>3, <2>4, <2>5, <2>6, <2>7 DEF BlocksTypeOK
  <2>9. LearnedIsKnown'
    BY <2>4, <2>5, <2>7 DEF AddressesInv, LearnedIsKnown
  <2>10. ~Excused' => ~Excused /\ f # "resolve" /\ ~overlap
    BY <2>6, <2>7 DEF Excused
  <2>11. ~Excused' => "games" \in ips
    BY <2>3, <2>7, <2>10 DEF AddressesInv, GamesAreKnown, LearnedIsKnown, Knows
  <2>12. GamesAreKnown'
    BY <2>5, <2>11 DEF GamesAreKnown, Knows
  <2> QED
    BY <2>8, <2>9, <2>12 DEF AddressesInv
<1>4. CASE CliHosts
  <2>1. PICK f \in Failing({"hosts"}) :
            Fails(f) /\ net' = IF f = "hosts" THEN net ELSE TotalHosts(net)
    BY <1>4 DEF CliHosts
  <2>2. net' \in Net /\ net'.known = net.known
    BY <1>1, <2>1 DEF TotalHosts, Net
  <2>3. trouble' \in 0..BlockEvents /\ lapses' \subseteq Excuses /\ lapses \subseteq lapses'
    BY <1>1, <2>1, FailsIs DEF BlockSteps
  <2>4. /\ shell = "hosts" /\ shell' = "off" /\ overlap' = overlap /\ learned' = learned
    BY <1>4 DEF CliHosts
  <2>5. BlocksTypeOK'
    BY <1>1, <1>4, <2>2, <2>3 DEF CliHosts, BlocksTypeOK
  <2>6. LearnedIsKnown'
    BY <2>2, <2>4 DEF AddressesInv, LearnedIsKnown
  <2>7. GamesAreKnown'
    BY <2>2, <2>3, <2>4 DEF AddressesInv, GamesAreKnown, Excused, Knows
  <2> QED
    BY <2>5, <2>6, <2>7 DEF AddressesInv
<1> QED
  BY <1>2, <1>3, <1>4

LEMMA CommandInv == AddressesInv /\ BlocksCommand => AddressesInv'
<1> SUFFICES ASSUME AddressesInv, BlocksCommand PROVE AddressesInv'
  OBVIOUS
<1>1. BlocksTypeOK /\ net \in Net /\ BlocksAssumption
  BY BlocksAssumption DEF AddressesInv, BlocksTypeOK
<1>2. CASE UnblockCheck
  <2>1. BlocksTypeOK'
    BY <1>1, <1>2 DEF UnblockCheck, BlocksTypeOK, BlocksAssumption
  <2> QED
    BY <1>2, <2>1, SameAddresses DEF UnblockCheck
<1>3. CASE UnblockOpens
  <2>1. net' \in Net /\ SameGames(net, net')
    BY <1>1, <1>3, StoreKeepsGames DEF UnblockOpens
  <2>2. BlocksTypeOK'
    BY <1>1, <1>3, <2>1 DEF UnblockOpens, BlocksTypeOK, BlocksAssumption
  <2> QED
    BY <1>3, <2>1, <2>2, SameAddresses DEF UnblockOpens, SameGames
<1>4. CASE CliLocks
  <2>1. net' \in {net, WithoutSteam(net)} /\ WithoutSteam(net) \in Net
        /\ SameGames(net, net) /\ SameGames(net, WithoutSteam(net))
    BY <1>1, <1>4 DEF CliLocks, WithoutSteam, Net, SameGames
  <2>2. BlocksTypeOK'
    BY <1>1, <1>4, <2>1 DEF CliLocks, BlocksTypeOK, BlocksAssumption
  <2>3. /\ net'.known = net.known /\ SameGames(net, net') /\ shell' = "locked"
        /\ cached' = cached /\ lapses' = lapses /\ overlap' = overlap /\ learned' = learned
    BY <1>4, <2>1 DEF CliLocks, SameGames
  <2> QED
    BY <2>2, <2>3, SameAddresses
<1>5. CASE CliDies
  <2>1. BlocksTypeOK'
    BY <1>1, <1>5 DEF CliDies, BlocksTypeOK, BlocksAssumption
  <2> QED
    BY <1>5, <2>1, SameAddresses DEF CliDies
<1> QED
  BY <1>2, <1>3, <1>4, <1>5, SocketBlockInv, CliInv DEF BlocksCommand

LEMMA WorldInv ==
    ASSUME AddressesInv,
           BlockClock \/ DaemonDies \/ Reboot \/ HostsReinstalled \/ SteamReinstalled
    PROVE  AddressesInv'
<1>1. BlocksTypeOK /\ net \in Net /\ BlocksAssumption
  BY BlocksAssumption DEF AddressesInv, BlocksTypeOK
<1>2. CASE BlockClock
  <2>1. BlocksTypeOK'
    BY <1>1, <1>2 DEF BlockClock, BlocksTypeOK, BlocksAssumption
  <2> QED
    BY <1>2, <2>1, SameAddresses DEF BlockClock
<1>3. CASE DaemonDies
  <2>1. BlocksTypeOK'
    BY <1>1, <1>3 DEF DaemonDies, BlocksTypeOK, BlocksAssumption, Excuses
  <2> QED
    BY <1>3, <2>1, SameAddresses DEF DaemonDies
<1>4. CASE Reboot
  <2>1. net' \in Net /\ net'.known = net.known /\ net'.total = net.total
    BY <1>1, <1>4 DEF Reboot, Net
  <2>2. BlocksTypeOK'
    BY <1>1, <1>4, <2>1 DEF Reboot, BlocksTypeOK, BlocksAssumption, Excuses
  <2> QED
    BY <1>4, <2>1, <2>2, SameAddresses DEF Reboot
<1>5. CASE HostsReinstalled
  <2>1. net' \in Net /\ net'.known = net.known /\ net'.total = net.total
    BY <1>1, <1>5 DEF HostsReinstalled, Net
  <2>2. BlocksTypeOK'
    BY <1>1, <1>5, <2>1 DEF HostsReinstalled, BlocksTypeOK, BlocksAssumption
  <2> QED
    BY <1>5, <2>1, <2>2, SameAddresses DEF HostsReinstalled
<1>6. CASE SteamReinstalled
  <2>1. net' \in Net /\ net'.known = net.known /\ net'.total = net.total
    BY <1>1, <1>6 DEF SteamReinstalled, Net
  <2>2. BlocksTypeOK'
    BY <1>1, <1>6, <2>1 DEF SteamReinstalled, BlocksTypeOK
  <2> QED
    BY <1>6, <2>1, <2>2, SameAddresses DEF SteamReinstalled
<1> QED
  BY <1>2, <1>3, <1>4, <1>5, <1>6

LEMMA BlocksStepInv == AddressesInv /\ [BlocksNext]_blockVars => AddressesInv'
<1> SUFFICES ASSUME AddressesInv, [BlocksNext]_blockVars PROVE AddressesInv'
  OBVIOUS
<1>1. CASE UNCHANGED blockVars
  BY <1>1 DEF blockVars, AddressesInv, BlocksTypeOK, LearnedIsKnown, GamesAreKnown, Excused,
      Knows
<1> QED
  BY <1>1, StartDaemonInv, BlockPassInv, CleanupEndsLockInv, CleanupRemovesInv, WindowPassInv,
     CommandInv, WorldInv DEF BlocksNext, BlocksDaemon

LEMMA AddressesInvKnown == AddressesInv => RealAddressesKept
BY DEF AddressesInv, LearnedIsKnown, GamesAreKnown, RealAddressesKept, KnownAreKept,
    AskedBeforeHidden, Excused, Knows

\* What a name once resolved to stays known until a clean-up forgets it, whatever
\* fails; and while a total block's entries hide the game sites their addresses are
\* known, unless the chain could not be flushed, a name had no answer or older
\* entries were left: for any lengths of blocks and windows, but for a start from
\* the command line that a pass overlaps.
THEOREM AddressesStayKnown == BlocksSpec => []RealAddressesKept
  BY AddressesInvKnown, BlocksInitInv, BlocksStepInv, PTL DEF BlocksSpec

-----------------------------------------------------------------------------
\* The stamp of a SIGTERM is no older than the SIGTERM, unless the clock jumped.
StampsFollow ==
    /\ DOMAIN termed \subseteq DOMAIN warned
    /\ ~jumped => \A i \in DOMAIN termed : termed[i] <= warned[i]

\* The watcher was found blind for as long as it counts as lost.
LostIsBlind == lost # Trusted => blind >= lost + 1

KillInv == LeisureKillTypeOK /\ StampsFollow /\ LostIsBlind /\ SignalsAreDue

\* The stamps as functions of identities.
LEMMA KillTypes ==
    ASSUME LeisureKillTypeOK
    PROVE  /\ Patience \in Nat \ {0} /\ SweepAfter \in Nat \ {0} /\ MaxTickGap \in Nat
           /\ MaxStart \in Nat /\ MaxJumps \in Nat
           /\ \A dt \in Gaps : dt \in Nat \ {0}
           /\ \A step \in Jumps : step \in Int
           /\ \A p \in Pids : procs[p] \in Process \/ procs[p] = Dead
           /\ \A i \in DOMAIN termed : i \in Ident /\ termed[i] \in Int
           /\ \A i \in DOMAIN warned : i \in Ident /\ warned[i] \in Nat
           /\ blind \in Nat /\ lost \in Int /\ (lost = Trusted \/ lost \in 0..SweepAfter)
<1>1. Range(termed) \subseteq Int /\ Range(warned) \subseteq Nat
  BY DEF LeisureKillTypeOK
<1>2. (\A i \in DOMAIN termed : termed[i] \in Int) /\ (\A i \in DOMAIN warned : warned[i] \in Nat)
  BY <1>1 DEF Range
<1> QED
  BY <1>2, LeisureKillAssumption DEF LeisureKillTypeOK, LeisureKillAssumption, Trusted

LEMMA KillInitInv == KillInit => KillInv
<1> SUFFICES ASSUME KillInit PROVE KillInv
  OBVIOUS
<1>1. termed = <<>> /\ warned = <<>> /\ sent = {} /\ lost = Trusted /\ blind = 0
  BY DEF KillInit
<1>2. DOMAIN termed = {} /\ DOMAIN warned = {} /\ Range(termed) = {} /\ Range(warned) = {}
  BY <1>1 DEF Range
<1>3. LeisureKillTypeOK
  <2>1. procs \in [Pids -> Process \cup {Dead}]
    BY DEF KillInit
  <2>2. starts \in [Pids -> 0..MaxStart] /\ jumps \in 0..MaxJumps
    BY LeisureKillAssumption DEF KillInit, LeisureKillAssumption
  <2> QED
    <3>1. watch = Untrusted /\ spent \in BOOLEAN /\ jumped \in BOOLEAN
      BY DEF KillInit
    <3> QED
      BY <1>1, <1>2, <2>1, <2>2, <3>1 DEF LeisureKillTypeOK
<1>4. StampsFollow /\ LostIsBlind /\ SignalsAreDue
  BY <1>1, <1>2 DEF StampsFollow, LostIsBlind, SignalsAreDue, FairWarning, SweptOnlyWhenBlind,
     ReportNamesOne
<1> QED
  BY <1>3, <1>4 DEF KillInv

\* Whom a tick may strike: a live process that is not spared.
LEMMA IdentifyTypes ==
    ASSUME LeisureKillTypeOK, NEW targets, targets \subseteq Pids
    PROVE  /\ Identify(targets) \subseteq Ident
           /\ \A i \in Identify(targets) :
                 /\ i[1] \in targets /\ i = <<i[1], procs[i[1]].start>>
                 /\ procs[i[1]] \in Process
                 /\ Reported /\ watch.start # 0 => watch.start = procs[i[1]].start
<1> SUFFICES ASSUME NEW i \in Identify(targets)
             PROVE  /\ i \in Ident /\ i[1] \in targets /\ i = <<i[1], procs[i[1]].start>>
                    /\ procs[i[1]] \in Process
                    /\ Reported /\ watch.start # 0 => watch.start = procs[i[1]].start
  OBVIOUS
<1>1. PICK p \in targets :
        /\ i = <<p, procs[p].start>> /\ MayKill(p)
        /\ Reported /\ watch.start # 0 => watch.start = procs[p].start
  BY DEF Identify
<1>2. procs[p] \in Process
  BY <1>1, KillTypes DEF MayKill
<1>3. procs[p].start \in 1..MaxStart
  BY <1>2 DEF Process
<1> QED
  BY <1>1, <1>2, <1>3 DEF Ident

\* What one round of signals does, whatever its targets.
LEMMA Enforces ==
    ASSUME LeisureKillTypeOK, StampsFollow, NEW targets, targets \subseteq Pids,
           NEW dt \in Gaps, NEW step, step \in Int,
           EnforceOn(targets, Aged(termed, dt + step, Patience), dt),
           jumped' = (jumped \/ step > 0)
    PROVE  /\ procs' \in [Pids -> Process \cup {Dead}]
           /\ DOMAIN termed' \subseteq Ident /\ Range(termed') \subseteq Int
           /\ DOMAIN warned' \subseteq Ident /\ Range(warned') \subseteq Nat
           /\ StampsFollow' /\ FairWarning'
           /\ \A s \in sent' :
                 /\ s.id[1] \in targets /\ s.kind = procs[s.id[1]].kind
                 /\ Reported /\ watch.start # 0 => s.start = watch.start
<1> DEFINE ages == Aged(termed, dt + step, Patience)
           live == Identify(targets)
           kept == Kept(ages, live)
           struck == Signals(live, kept, dt)
<1>0. jumped \in BOOLEAN /\ (jumped' <=> jumped \/ step > 0)
  BY DEF LeisureKillTypeOK
<1>1. /\ termed' = [i \in live |-> IF i \in DOMAIN kept THEN kept[i] ELSE 0]
      /\ sent' = struck /\ procs' = Struck(struck)
      /\ warned' = [i \in DOMAIN warned \cup {<<s.id[1], s.start>> : s \in struck} |->
                      IF i \in DOMAIN warned THEN Capped(warned[i] + dt, Patience) ELSE 0]
  BY DEF EnforceOn
<1>2. /\ Patience \in Nat \ {0} /\ dt \in Nat \ {0}
      /\ \A i \in DOMAIN termed : i \in Ident /\ termed[i] \in Int
      /\ \A i \in DOMAIN warned : i \in Ident /\ warned[i] \in Nat
  BY KillTypes
<1>3. /\ live \subseteq Ident
      /\ \A i \in live :
            /\ i[1] \in targets /\ i = <<i[1], procs[i[1]].start>> /\ procs[i[1]] \in Process
            /\ Reported /\ watch.start # 0 => watch.start = procs[i[1]].start
  BY IdentifyTypes
<1>4. /\ DOMAIN kept = DOMAIN termed \cap live
      /\ \A i \in DOMAIN kept : kept[i] = Capped(termed[i] + dt + step, Patience)
  BY <1>2 DEF Kept, Restrict, Aged
<1>5. \A s \in struck :
         /\ s.id \in live /\ s.kind = procs[s.id[1]].kind /\ s.start = procs[s.id[1]].start
         /\ s.sig = IF s.id \notin DOMAIN kept THEN "TERM" ELSE "KILL"
         /\ s.since = IF s.id \in DOMAIN warned THEN Capped(warned[s.id] + dt, Patience) ELSE 0
         /\ s.id \in DOMAIN kept => kept[s.id] >= Patience
  BY DEF Signals
<1>6. \A i \in live \ DOMAIN kept : \E s \in struck : s.id = i
  <2> SUFFICES ASSUME NEW i \in live, i \notin DOMAIN kept PROVE \E s \in struck : s.id = i
    OBVIOUS
  <2> DEFINE s == [id |-> i, kind |-> procs[i[1]].kind, start |-> procs[i[1]].start,
                   sig |-> IF i \notin DOMAIN kept THEN "TERM" ELSE "KILL",
                   since |-> IF i \in DOMAIN warned THEN Capped(warned[i] + dt, Patience) ELSE 0]
  <2>1. i \in {j \in live : j \notin DOMAIN kept \/ kept[j] >= Patience}
    OBVIOUS
  <2>2. s \in struck
    BY <2>1, Zenon DEF Signals
  <2> QED
    BY <2>2
<1> HIDE DEF struck, kept, live, ages
<1>7. {<<s.id[1], s.start>> : s \in struck} \subseteq live
  BY <1>3, <1>5
<1>8. live \ DOMAIN kept \subseteq {<<s.id[1], s.start>> : s \in struck}
  BY <1>3, <1>5, <1>6
<1>9. /\ DOMAIN termed' = live /\ DOMAIN termed' \subseteq DOMAIN warned'
      /\ DOMAIN warned' \subseteq Ident
  BY <1>1, <1>2, <1>3, <1>4, <1>7, <1>8 DEF StampsFollow
<1>10. \A i \in DOMAIN warned' : warned'[i] \in Nat
  BY <1>1, <1>2 DEF Capped
<1>11. \A i \in DOMAIN termed' : termed'[i] \in Int
  BY <1>1, <1>2, <1>4 DEF Capped
<1>12. procs' \in [Pids -> Process \cup {Dead}]
  BY <1>1 DEF Struck, LeisureKillTypeOK
<1>13. StampsFollow'
  <2> SUFFICES ASSUME ~jumped', NEW i \in DOMAIN termed' PROVE termed'[i] <= warned'[i]
    BY <1>9 DEF StampsFollow
  <2>1. ~jumped /\ step <= 0
    BY <1>0
  <2>2. CASE i \in DOMAIN kept
    <3>1. i \in DOMAIN termed /\ i \in DOMAIN warned /\ termed[i] <= warned[i]
      BY <1>4, <2>1, <2>2 DEF StampsFollow
    <3>2. termed'[i] = Capped(termed[i] + dt + step, Patience)
      BY <1>1, <1>4, <1>9, <2>2
    <3>3. warned'[i] = Capped(warned[i] + dt, Patience)
      BY <1>1, <3>1
    <3> QED
      BY <1>2, <2>1, <3>1, <3>2, <3>3 DEF Capped
  <2>3. CASE i \notin DOMAIN kept
    BY <1>1, <1>9, <1>10, <2>3
  <2> QED
    BY <2>2, <2>3
<1>14. FairWarning'
  <2> SUFFICES ASSUME NEW s \in sent', s.sig = "KILL", ~jumped' PROVE s.since >= Patience
    BY DEF FairWarning
  <2>1. s.id \in DOMAIN kept /\ kept[s.id] >= Patience
    BY <1>1, <1>5
  <2>2. s.id \in DOMAIN termed /\ s.id \in DOMAIN warned /\ termed[s.id] <= warned[s.id]
        /\ step <= 0
    BY <1>0, <1>4, <2>1 DEF StampsFollow
  <2>3. s.since = Capped(warned[s.id] + dt, Patience)
    BY <1>1, <1>5, <2>2
  <2>4. Capped(termed[s.id] + dt + step, Patience) >= Patience
    BY <1>4, <2>1
  <2> QED
    BY <1>2, <2>2, <2>3, <2>4 DEF Capped
<1>15. \A s \in sent' :
          /\ s.id[1] \in targets /\ s.kind = procs[s.id[1]].kind
          /\ Reported /\ watch.start # 0 => s.start = watch.start
  BY <1>1, <1>3, <1>5
<1> QED
  BY <1>3, <1>9, <1>10, <1>11, <1>12, <1>13, <1>14, <1>15 DEF Range

\* A tick, whatever it decides on.
LEMMA KillTickInv == KillInv /\ KillTick => KillInv'
<1> SUFFICES ASSUME KillInv, KillTick PROVE KillInv'
  OBVIOUS
<1>1. LeisureKillTypeOK /\ StampsFollow /\ LostIsBlind
  BY DEF KillInv
<1>2. PICK dt \in Gaps, step \in {0} \cup (IF jumps > 0 THEN Jumps ELSE {}) :
        /\ lost' = UntrustedFor(dt + step)
        /\ blind' = IF watch = Untrusted
                    THEN (IF blind > 0 /\ dt + step \in 0..MaxTickGap
                          THEN Capped(blind + (dt + step), SweepAfter + 1) ELSE 1)
                    ELSE 0
        /\ jumps' = (IF step = 0 THEN jumps ELSE jumps - 1)
        /\ jumped' = (jumped \/ step > 0)
        /\ IF ~spent
           THEN /\ Relax(Aged(termed, dt + step, Patience))
                /\ warned' = <<>> /\ sent' = {} /\ UNCHANGED procs
           ELSE IF Reported THEN EnforceOn(FactTargets, Aged(termed, dt + step, Patience), dt)
           ELSE IF watch = Untrusted /\ UntrustedFor(dt + step) >= SweepAfter
           THEN EnforceOn(SweepTargets, Aged(termed, dt + step, Patience), dt)
           ELSE /\ termed' = Aged(termed, dt + step, Patience)
                /\ warned' = Aged(warned, dt, Patience)
                /\ sent' = {} /\ UNCHANGED procs
  BY DEF KillTick
<1>3. UNCHANGED <<starts, watch, spent>>
  BY DEF KillTick
<1>4. /\ Patience \in Nat \ {0} /\ SweepAfter \in Nat \ {0} /\ MaxTickGap \in Nat
      /\ dt \in Nat \ {0} /\ step \in Int /\ blind \in Nat /\ lost \in Int
      /\ lost = Trusted \/ lost \in 0..SweepAfter
      /\ \A i \in DOMAIN termed : i \in Ident /\ termed[i] \in Int
      /\ \A i \in DOMAIN warned : i \in Ident /\ warned[i] \in Nat
      /\ jumps \in 0..MaxJumps
  BY <1>1, KillTypes DEF LeisureKillTypeOK
<1>5. jumps' \in 0..MaxJumps /\ jumped' \in BOOLEAN
  <2>1. step # 0 => jumps > 0
    BY <1>2
  <2>2. jumps' = IF step = 0 THEN jumps ELSE jumps - 1
    BY <1>2
  <2>3. jumps' \in 0..MaxJumps
    <3>1. MaxJumps \in Nat
      BY LeisureKillAssumption DEF LeisureKillAssumption
    <3> QED
      BY <1>4, <2>1, <2>2, <3>1
  <2> QED
    BY <1>2, <2>3
\* Both counts of the watcher's silence.
<1>6. /\ blind' \in Nat /\ lost' \in {Trusted} \cup 0..SweepAfter /\ LostIsBlind'
      /\ watch = Untrusted /\ UntrustedFor(dt + step) >= SweepAfter => blind' > SweepAfter
  <2>1. CASE watch # Untrusted
    BY <1>2, <1>4, <2>1 DEF UntrustedFor, LostIsBlind
  <2>2. CASE watch = Untrusted
    BY <1>1, <1>2, <1>4, <2>2 DEF UntrustedFor, LostIsBlind, Capped, Trusted
  <2> QED
    BY <2>1, <2>2
<1>7. Reported' <=> Reported
  BY <1>3 DEF Reported
\* The stamps and the signals.
<1>8. /\ procs' \in [Pids -> Process \cup {Dead}]
      /\ DOMAIN termed' \subseteq Ident /\ Range(termed') \subseteq Int
      /\ DOMAIN warned' \subseteq Ident /\ Range(warned') \subseteq Nat
      /\ StampsFollow' /\ SignalsAreDue'
  <2>1. CASE ~spent
    <3>1. termed' = <<>> /\ warned' = <<>> /\ sent' = {} /\ procs' = procs
      BY <1>2, <2>1 DEF Relax
    <3>2. DOMAIN termed' = {} /\ DOMAIN warned' = {}
      BY <3>1
    <3> QED
      BY <1>1, <3>1, <3>2 DEF LeisureKillTypeOK, StampsFollow, SignalsAreDue, FairWarning,
         SweptOnlyWhenBlind, ReportNamesOne, Range
  <2>2. CASE spent /\ Reported
    <3>1. FactTargets \subseteq Pids /\ (\A p \in FactTargets : watch.failclosed
                                            \/ procs[p].kind # "browser")
      <4>1. watch.pid \in Pids
        BY <1>1, <2>2 DEF LeisureKillTypeOK, Reported, Reasons, Paused, Untrusted
      <4> QED
        BY <4>1 DEF FactTargets
    <3>2. EnforceOn(FactTargets, Aged(termed, dt + step, Patience), dt)
      BY <1>2, <2>2
    <3>3. /\ procs' \in [Pids -> Process \cup {Dead}]
          /\ DOMAIN termed' \subseteq Ident /\ Range(termed') \subseteq Int
          /\ DOMAIN warned' \subseteq Ident /\ Range(warned') \subseteq Nat
          /\ StampsFollow' /\ FairWarning'
          /\ \A s \in sent' :
                /\ s.id[1] \in FactTargets /\ s.kind = procs[s.id[1]].kind
                /\ Reported /\ watch.start # 0 => s.start = watch.start
      BY <1>1, <1>2, <1>4, <3>1, <3>2, Enforces
    <3> QED
      BY <1>3, <1>7, <2>2, <3>1, <3>3 DEF SignalsAreDue, SweptOnlyWhenBlind, ReportNamesOne
  <2>3. CASE spent /\ ~Reported /\ watch = Untrusted /\ UntrustedFor(dt + step) >= SweepAfter
    <3>1. SweepTargets \subseteq Pids
      BY DEF SweepTargets
    <3>2. EnforceOn(SweepTargets, Aged(termed, dt + step, Patience), dt)
      BY <1>2, <2>3
    <3>3. /\ procs' \in [Pids -> Process \cup {Dead}]
          /\ DOMAIN termed' \subseteq Ident /\ Range(termed') \subseteq Int
          /\ DOMAIN warned' \subseteq Ident /\ Range(warned') \subseteq Nat
          /\ StampsFollow' /\ FairWarning'
      BY <1>1, <1>2, <1>4, <3>1, <3>2, Enforces
    <3> QED
      BY <1>6, <1>7, <2>3, <3>3 DEF SignalsAreDue, SweptOnlyWhenBlind, ReportNamesOne
  <2>4. CASE spent /\ ~Reported /\ ~(watch = Untrusted /\ UntrustedFor(dt + step) >= SweepAfter)
    <3>1. termed' = Aged(termed, dt + step, Patience) /\ warned' = Aged(warned, dt, Patience)
          /\ sent' = {} /\ procs' = procs
      BY <1>2, <2>4
    <3>2. /\ DOMAIN termed' = DOMAIN termed /\ DOMAIN warned' = DOMAIN warned
          /\ \A i \in DOMAIN termed : termed'[i] = Capped(termed[i] + (dt + step), Patience)
          /\ \A i \in DOMAIN warned : warned'[i] = Capped(warned[i] + dt, Patience)
      BY <3>1 DEF Aged
    <3>3. /\ \A i \in DOMAIN termed' : termed'[i] \in Int
          /\ \A i \in DOMAIN warned' : warned'[i] \in Nat
      BY <1>4, <3>2 DEF Capped
    <3>4. StampsFollow'
      <4> SUFFICES ASSUME ~jumped', NEW i \in DOMAIN termed PROVE termed'[i] <= warned'[i]
        BY <1>1, <3>2 DEF StampsFollow
      <4>1. i \in DOMAIN warned /\ termed[i] <= warned[i] /\ step <= 0
        <5>1. jumped' <=> jumped \/ step > 0
          BY <1>2
        <5> QED
          BY <1>1, <1>4, <5>1 DEF StampsFollow, LeisureKillTypeOK
      <4> QED
        BY <1>4, <3>2, <4>1 DEF Capped
    <3> QED
      BY <1>1, <1>4, <3>1, <3>2, <3>3, <3>4 DEF LeisureKillTypeOK, SignalsAreDue, FairWarning,
         SweptOnlyWhenBlind, ReportNamesOne, Range
  <2> QED
    BY <2>1, <2>2, <2>3, <2>4
<1> QED
  BY <1>1, <1>3, <1>5, <1>6, <1>8 DEF KillInv, LeisureKillTypeOK

LEMMA KillStepInv == KillInv /\ [KillNext]_killVars => KillInv'
<1> SUFFICES ASSUME KillInv, [KillNext]_killVars PROVE KillInv'
  OBVIOUS
<1> USE DEF KillInv
<1>1. CASE KillTick
  BY <1>1, KillTickInv
<1>2. ASSUME UNCHANGED <<termed, lost, warned, blind, jumps, jumped>>, sent' = {}
      PROVE  StampsFollow' /\ LostIsBlind' /\ SignalsAreDue'
  BY <1>2 DEF StampsFollow, LostIsBlind, SignalsAreDue, FairWarning, SweptOnlyWhenBlind,
     ReportNamesOne
<1>3. CASE WatcherReports
  <2>1. watch' \in Reasons \cup {Paused, Untrusted}
    <3>1. ASSUME NEW p \in Pids, NEW f \in BOOLEAN, procs[p] # Dead,
                 NEW s \in {0, procs[p].start},
                 watch' = [state |-> "fact", pid |-> p, failclosed |-> f, start |-> s]
          PROVE  watch' \in Reasons
      <4>1. procs[p].start \in 1..MaxStart /\ MaxStart \in Nat
        BY <3>1, KillTypes DEF Process
      <4> QED
        BY <3>1, <4>1 DEF Reasons
    <3> QED
      BY <1>3, <3>1 DEF WatcherReports
  <2> QED
    BY <1>2, <1>3, <2>1 DEF WatcherReports, LeisureKillTypeOK
<1>4. CASE BudgetMoves
  BY <1>2, <1>4 DEF BudgetMoves, LeisureKillTypeOK
<1>5. ASSUME NEW p \in Pids, ProcessStarts(p) PROVE KillInv'
  <2>1. PICK k \in ProcKinds : procs' = [procs EXCEPT ![p] = [start |-> starts[p] + 1, kind |-> k]]
    BY <1>5 DEF ProcessStarts
  <2>2. starts[p] \in 0..MaxStart /\ starts[p] < MaxStart /\ MaxStart \in Nat
    BY <1>5, KillTypes DEF ProcessStarts, LeisureKillTypeOK
  <2>3. [start |-> starts[p] + 1, kind |-> k] \in Process
    BY <2>2 DEF Process
  <2>4. procs' \in [Pids -> Process \cup {Dead}]
    BY <2>1, <2>3 DEF LeisureKillTypeOK
  <2>5. starts' \in [Pids -> 0..MaxStart]
    BY <1>5, <2>2 DEF ProcessStarts, LeisureKillTypeOK
  <2> QED
    BY <1>2, <1>5, <2>4, <2>5 DEF ProcessStarts, LeisureKillTypeOK
<1>6. ASSUME NEW p \in Pids, ProcessExits(p) PROVE KillInv'
  BY <1>2, <1>6 DEF ProcessExits, LeisureKillTypeOK
<1>7. CASE UNCHANGED killVars
  BY <1>7 DEF killVars, LeisureKillTypeOK, StampsFollow, LostIsBlind, SignalsAreDue, FairWarning,
     SweptOnlyWhenBlind, ReportNamesOne, Reported
<1> QED
  BY <1>1, <1>3, <1>4, <1>5, <1>6, <1>7 DEF KillNext

LEMMA KillInvDue == KillInv => SignalsAreDue
BY DEF KillInv

\* A signal is the right one for the right process, for any processes, any
\* patience and gaps, and any jumps of the clock.
THEOREM KillIsDue == KillSpec => []SignalsAreDue
  BY KillInvDue, KillInitInv, KillStepInv, PTL DEF KillSpec

-----------------------------------------------------------------------------
(***************************************************************************)
(* The generations above some processes.                                   *)
(***************************************************************************)
Climbs(f, tree, S, n) == f = [k \in 0..n |-> IF k = 0 THEN S ELSE Up(tree, f[k - 1])]
Climb(tree, S, n) == CHOOSE f : Climbs(f, tree, S, n)
Level(tree, S, n) == Climb(tree, S, n)[n]

LEMMA ReachIs == ASSUME NEW tree, NEW S, NEW n PROVE Reach(tree, S, n) = Level(tree, S, n) \ {NoParent}
BY DEF Reach, Level, Climb, Climbs

LEMMA ClimbExists == ASSUME NEW tree, NEW S PROVE \A n \in Nat : \E f : Climbs(f, tree, S, n)
<1> DEFINE T == {n \in Nat : \E f : Climbs(f, tree, S, n)}
<1>1. 0 \in T
  <2> DEFINE f == [k \in 0..0 |-> S]
  <2>1. Climbs(f, tree, S, 0)
    BY DEF Climbs
  <2> QED
    BY <2>1
<1>2. ASSUME NEW n \in Nat, n \in T PROVE n + 1 \in T
  <2>1. PICK f : Climbs(f, tree, S, n)
    BY <1>2
  <2> DEFINE g == [k \in 0..(n + 1) |-> IF k <= n THEN f[k] ELSE Up(tree, f[n])]
  <2>2. \A k \in 0..n : f[k] = IF k = 0 THEN S ELSE Up(tree, f[k - 1])
    BY <2>1 DEF Climbs
  <2>3. ASSUME NEW k \in 0..(n + 1)
        PROVE  g[k] = IF k = 0 THEN S ELSE Up(tree, g[k - 1])
    <3>1. CASE k = 0
      BY <2>2, <3>1
    <3>2. CASE k # 0
      <4>1. k - 1 \in 0..n /\ k - 1 \in 0..(n + 1)
        BY <3>2
      <4>2. g[k - 1] = f[k - 1]
        BY <4>1
      <4>3. CASE k <= n
        <5>1. g[k] = f[k] /\ f[k] = Up(tree, f[k - 1])
          BY <2>2, <3>2, <4>3
        <5> QED
          BY <3>2, <4>2, <5>1
      <4>4. CASE ~(k <= n)
        <5>1. k - 1 = n /\ g[k] = Up(tree, f[n])
          BY <4>4
        <5> QED
          BY <3>2, <4>2, <5>1
      <4> QED
        BY <4>3, <4>4
    <3> QED
      BY <3>1, <3>2
  <2>4. Climbs(g, tree, S, n + 1)
    <3>1. g = [k \in 0..(n + 1) |-> g[k]]
      OBVIOUS
    <3> HIDE DEF g
    <3>2. g = [k \in 0..(n + 1) |-> IF k = 0 THEN S ELSE Up(tree, g[k - 1])]
      BY <2>3, <3>1
    <3> QED
      BY <3>2 DEF Climbs
  <2> QED
    BY <2>4
<1> HIDE DEF T
<1>3. \A n \in Nat : n \in T
  BY <1>1, <1>2, SetInduction
<1> QED
  BY <1>3 DEF T

LEMMA ClimbUnique ==
    ASSUME NEW tree, NEW S, NEW n \in Nat, NEW f, NEW g,
           Climbs(f, tree, S, n), Climbs(g, tree, S, n + 1)
    PROVE  f[n] = g[n]
<1> DEFINE T == {k \in Nat : k <= n => f[k] = g[k]}
<1>1. \A k \in 0..n : /\ f[k] = IF k = 0 THEN S ELSE Up(tree, f[k - 1])
                      /\ g[k] = IF k = 0 THEN S ELSE Up(tree, g[k - 1])
  BY DEF Climbs
<1>2. 0 \in T
  BY <1>1
<1>3. ASSUME NEW k \in Nat, k \in T PROVE k + 1 \in T
  <2> SUFFICES ASSUME k + 1 <= n PROVE f[k + 1] = g[k + 1]
    OBVIOUS
  <2>1. f[k] = g[k]
    BY <1>3
  <2>2. k + 1 \in 0..n /\ k + 1 # 0 /\ (k + 1) - 1 = k
    OBVIOUS
  <2> QED
    BY <1>1, <2>1, <2>2
<1> HIDE DEF T
<1>4. n \in T
  BY <1>2, <1>3, SetInduction
<1> QED
  BY <1>4 DEF T

LEMMA LevelIs ==
    ASSUME NEW tree, NEW S
    PROVE  /\ Level(tree, S, 0) = S
           /\ \A n \in Nat : Level(tree, S, n + 1) = Up(tree, Level(tree, S, n))
<1>1. \A n \in Nat : Climbs(Climb(tree, S, n), tree, S, n)
  BY ClimbExists DEF Climb
<1>2. Level(tree, S, 0) = S
  <2>1. Climbs(Climb(tree, S, 0), tree, S, 0)
    BY <1>1
  <2> QED
    BY <2>1 DEF Climbs, Level
<1>3. ASSUME NEW n \in Nat PROVE Level(tree, S, n + 1) = Up(tree, Level(tree, S, n))
  <2> DEFINE f == Climb(tree, S, n)  g == Climb(tree, S, n + 1)
  <2>1. Climbs(f, tree, S, n) /\ Climbs(g, tree, S, n + 1)
    BY <1>1
  <2> HIDE DEF f, g
  <2>2. f[n] = g[n]
    BY <2>1, ClimbUnique
  <2>3. g[n + 1] = Up(tree, g[n])
    <3>1. n + 1 \in 0..(n + 1) /\ n + 1 # 0 /\ (n + 1) - 1 = n
      OBVIOUS
    <3> QED
      BY <2>1, <3>1 DEF Climbs
  <2> QED
    BY <2>2, <2>3 DEF Level, f, g
<1> QED
  BY <1>2, <1>3

LEMMA LevelHolds == ASSUME NEW tree, NEW S PROVE \A n \in Nat : S \subseteq Level(tree, S, n)
<1> DEFINE T == {n \in Nat : S \subseteq Level(tree, S, n)}
<1>1. 0 \in T
  BY LevelIs
<1>2. ASSUME NEW n \in Nat, n \in T PROVE n + 1 \in T
  <2>1. Level(tree, S, n + 1) = Up(tree, Level(tree, S, n))
    BY LevelIs
  <2>2. S \subseteq Level(tree, S, n)
    BY <1>2
  <2>3. Level(tree, S, n) \subseteq Up(tree, Level(tree, S, n))
    BY DEF Up
  <2> QED
    BY <2>1, <2>2, <2>3
<1> HIDE DEF T
<1>3. \A n \in Nat : n \in T
  BY <1>1, <1>2, SetInduction
<1> QED
  BY <1>3 DEF T

\* The generations above a process are it and those above its parent.
LEMMA LevelShifts ==
    ASSUME NEW tree, NEW p \in Procs
    PROVE  \A n \in Nat : Level(tree, {p}, n + 1) = {p} \cup Level(tree, {tree[p]}, n)
<1> DEFINE T == {n \in Nat : Level(tree, {p}, n + 1) = {p} \cup Level(tree, {tree[p]}, n)}
<1>1. 0 \in T
  <2>1. Level(tree, {p}, 0 + 1) = Up(tree, {p})
    <3>1. Level(tree, {p}, 0) = {p}
      BY LevelIs, Zenon
    <3>2. \A n \in Nat : Level(tree, {p}, n + 1) = Up(tree, Level(tree, {p}, n))
      BY LevelIs, Zenon
    <3>3. 0 \in Nat
      OBVIOUS
    <3> QED
      BY <3>1, <3>2, <3>3, Zenon
  <2>2. Up(tree, {p}) = {p} \cup {tree[p]}
    BY DEF Up
  <2>3. Level(tree, {tree[p]}, 0) = {tree[p]}
    BY LevelIs
  <2> QED
    BY <2>1, <2>2, <2>3
<1>2. ASSUME NEW n \in Nat, n \in T PROVE n + 1 \in T
  <2> DEFINE A == Level(tree, {p}, n + 1)  B == Level(tree, {tree[p]}, n)
  <2>1. A = {p} \cup B
    BY <1>2
  <2>2. n + 1 \in Nat
    OBVIOUS
  <2>3. Level(tree, {p}, (n + 1) + 1) = Up(tree, A)
    BY <2>2, LevelIs
  <2>4. Level(tree, {tree[p]}, n + 1) = Up(tree, B)
    BY LevelIs
  <2>5. tree[p] \in B
    BY LevelHolds
  <2> HIDE DEF A, B
  <2>6. Up(tree, A) = {p} \cup Up(tree, B)
    BY <2>1, <2>5 DEF Up
  <2> QED
    BY <2>2, <2>3, <2>4, <2>6
<1> HIDE DEF T
<1>3. \A n \in Nat : n \in T
  BY <1>1, <1>2, SetInduction
<1> QED
  BY <1>3 DEF T

(***************************************************************************)
(* The levels below some processes, in a table of parents.                 *)
(***************************************************************************)
Below(d, own) == {p \in Procs \ (own \cup d.found) : kill.table[p] \in d.frontier}
Falls(f, own, n) ==
    f = [k \in 0..n |->
            IF k = 0 THEN [found |-> {}, frontier |-> kill.roots \ own]
            ELSE [found |-> f[k - 1].found \cup Below(f[k - 1], own),
                  frontier |-> Below(f[k - 1], own)]]
Fall(own, n) == CHOOSE f : Falls(f, own, n)

LEMMA DescendantsIs ==
    ASSUME NEW own PROVE Descendants(own) = Fall(own, MaxDepth)[MaxDepth].found
BY DEF Descendants, Fall, Falls, Below

LEMMA FallExists == ASSUME NEW own PROVE \A n \in Nat : \E f : Falls(f, own, n)
<1> DEFINE first == [found |-> {}, frontier |-> kill.roots \ own]
           Next1(d) == [found |-> d.found \cup Below(d, own), frontier |-> Below(d, own)]
           Is(f, n) == f = [k \in 0..n |-> IF k = 0 THEN first ELSE Next1(f[k - 1])]
           T == {n \in Nat : \E f : Is(f, n)}
<1>1. \A f, n : Falls(f, own, n) <=> Is(f, n)
  BY DEF Falls
<1> HIDE DEF first, Next1
<1>2. 0 \in T
  <2> DEFINE f == [k \in 0..0 |-> first]
  <2>1. Is(f, 0)
    OBVIOUS
  <2> QED
    BY <2>1
<1>3. ASSUME NEW n \in Nat, n \in T PROVE n + 1 \in T
  <2>1. PICK f : Is(f, n)
    BY <1>3
  <2> DEFINE g == [k \in 0..(n + 1) |-> IF k <= n THEN f[k] ELSE Next1(f[n])]
  <2>2. \A k \in 0..n : f[k] = IF k = 0 THEN first ELSE Next1(f[k - 1])
    BY <2>1
  <2>3. ASSUME NEW k \in 0..(n + 1)
        PROVE  g[k] = IF k = 0 THEN first ELSE Next1(g[k - 1])
    <3>1. CASE k = 0
      BY <2>2, <3>1
    <3>2. CASE k # 0
      <4>1. k - 1 \in 0..n /\ k - 1 \in 0..(n + 1)
        BY <3>2
      <4>2. g[k - 1] = f[k - 1]
        BY <4>1
      <4>3. CASE k <= n
        <5>1. g[k] = f[k] /\ f[k] = Next1(f[k - 1])
          BY <2>2, <3>2, <4>3
        <5> QED
          BY <3>2, <4>2, <5>1
      <4>4. CASE ~(k <= n)
        <5>1. k - 1 = n /\ g[k] = Next1(f[n])
          BY <4>4
        <5> QED
          BY <3>2, <4>2, <5>1
      <4> QED
        BY <4>3, <4>4
    <3> QED
      BY <3>1, <3>2
  <2>4. Is(g, n + 1)
    <3>1. g = [k \in 0..(n + 1) |-> g[k]]
      OBVIOUS
    <3> HIDE DEF g
    <3> QED
      BY <2>3, <3>1
  <2> HIDE DEF g, Is
  <2> QED
    BY <2>4
<1> HIDE DEF T
<1>4. \A n \in Nat : n \in T
  BY <1>2, <1>3, SetInduction
<1> QED
  BY <1>1, <1>4 DEF T

LEMMA FallIs ==
    ASSUME NEW own, NEW M \in Nat, NEW f, f = Fall(own, M)
    PROVE  /\ f[0].found = {} /\ f[0].frontier = kill.roots \ own
           /\ \A k \in Nat : k + 1 <= M =>
                 /\ f[k + 1].found = f[k].found \cup Below(f[k], own)
                 /\ f[k + 1].frontier = Below(f[k], own)
<1>1. Falls(f, own, M)
  BY FallExists DEF Fall
<1>2. \A k \in 0..M : f[k] = IF k = 0 THEN [found |-> {}, frontier |-> kill.roots \ own]
                              ELSE [found |-> f[k - 1].found \cup Below(f[k - 1], own),
                                    frontier |-> Below(f[k - 1], own)]
  BY <1>1 DEF Falls
<1>3. f[0] = [found |-> {}, frontier |-> kill.roots \ own]
  <2>1. 0 \in 0..M
    OBVIOUS
  <2> QED
    BY <1>2, <2>1
<1>4. ASSUME NEW k \in Nat, k + 1 <= M
      PROVE  /\ f[k + 1].found = f[k].found \cup Below(f[k], own)
             /\ f[k + 1].frontier = Below(f[k], own)
  <2>1. k + 1 \in 0..M /\ k + 1 # 0 /\ (k + 1) - 1 = k
    BY <1>4
  <2> DEFINE found == f[k].found \cup Below(f[k], own)  frontier == Below(f[k], own)
  <2>2. f[k + 1] = [found |-> found, frontier |-> frontier]
    BY <1>2, <2>1
  <2> HIDE DEF found, frontier
  <2>3. f[k + 1].found = found /\ f[k + 1].frontier = frontier
    BY <2>2
  <2> QED
    BY <2>3 DEF found, frontier
<1> QED
  BY <1>3, <1>4

\* What is found was on the frontier of a level, and nothing of it is spared.
LEMMA FoundIs ==
    ASSUME NEW own, NEW M \in Nat, NEW f, f = Fall(own, M)
    PROVE  \A n \in Nat : n <= M =>
              /\ f[n].found \subseteq Procs \ own
              /\ \A x \in f[n].found : \E m \in 1..n : x \in f[m].frontier
              /\ \A m \in 1..n : f[m].frontier \subseteq f[n].found
<1> DEFINE T == {n \in Nat : n <= M =>
              /\ f[n].found \subseteq Procs \ own
              /\ \A x \in f[n].found : \E m \in 1..n : x \in f[m].frontier
              /\ \A m \in 1..n : f[m].frontier \subseteq f[n].found}
<1>1. 0 \in T
  <2>1. f[0].found = {}
    BY FallIs
  <2> QED
    BY <2>1
<1>2. ASSUME NEW n \in Nat, n \in T PROVE n + 1 \in T
  <2> SUFFICES ASSUME n + 1 <= M
               PROVE  /\ f[n + 1].found \subseteq Procs \ own
                      /\ \A x \in f[n + 1].found : \E m \in 1..(n + 1) : x \in f[m].frontier
                      /\ \A m \in 1..(n + 1) : f[m].frontier \subseteq f[n + 1].found
    OBVIOUS
  <2>1. /\ f[n].found \subseteq Procs \ own
        /\ \A x \in f[n].found : \E m \in 1..n : x \in f[m].frontier
        /\ \A m \in 1..n : f[m].frontier \subseteq f[n].found
    BY <1>2
  <2>2. Below(f[n], own) \subseteq Procs \ own
    BY DEF Below
  <2>3. f[n + 1].found = f[n].found \cup Below(f[n], own) /\ f[n + 1].frontier = Below(f[n], own)
    BY FallIs
  <2>4. ASSUME NEW x \in f[n + 1].found PROVE \E m \in 1..(n + 1) : x \in f[m].frontier
    <3>1. CASE x \in f[n].found
      BY <2>1, <3>1
    <3>2. CASE x \in Below(f[n], own)
      BY <2>3, <3>2
    <3> QED
      BY <2>3, <3>1, <3>2
  <2>5. ASSUME NEW m \in 1..(n + 1) PROVE f[m].frontier \subseteq f[n + 1].found
    <3>1. CASE m = n + 1
      BY <2>3, <3>1
    <3>2. CASE m \in 1..n
      BY <2>1, <2>3, <3>2
    <3> QED
      BY <3>1, <3>2
  <2> QED
    BY <2>1, <2>2, <2>3, <2>4, <2>5
<1> HIDE DEF T
<1>3. \A n \in Nat : n \in T
  BY <1>1, <1>2, SetInduction
<1> QED
  BY <1>3 DEF T

\* A process of which nothing on the way up to a root is spared is found.
LEMMA FindsBelow ==
    ASSUME NEW own, NEW M \in Nat,
           \A p \in Procs : parent[p] \in Procs \cup {NoParent, Gone},
           \A p \in steady : kill.table[p] = parent[p] /\ parent[p] # Gone,
           kill.roots \subseteq Procs, Procs \subseteq Nat \ {0}
    PROVE  \A n \in Nat : n <= M =>
              \A p \in Procs :
                 /\ Level(parent, {p}, n) \ {NoParent} \subseteq steady \ own
                 /\ Level(parent, {p}, n) \cap kill.roots # {}
                 => \E m \in 0..n : p \in Fall(own, M)[m].frontier
<1> DEFINE f == Fall(own, M)
<1>f. f = Fall(own, M)
  OBVIOUS
<1> HIDE DEF f
<1> DEFINE T == {n \in Nat : n <= M =>
              \A p \in Procs :
                 /\ Level(parent, {p}, n) \ {NoParent} \subseteq steady \ own
                 /\ Level(parent, {p}, n) \cap kill.roots # {}
                 => \E m \in 0..n : p \in f[m].frontier}
<1>0. f[0].frontier = kill.roots \ own
  BY <1>f, FallIs
<1>root. ASSUME NEW n \in Nat, NEW p \in Procs, p \in kill.roots, p \notin own
         PROVE  \E m \in 0..n : p \in f[m].frontier
  <2>1. 0 \in 0..n /\ p \in f[0].frontier
    BY <1>root, <1>0
  <2> QED
    BY <2>1
<1>1. 0 \in T
  <2> SUFFICES ASSUME NEW p \in Procs, Level(parent, {p}, 0) \ {NoParent} \subseteq steady \ own,
                      Level(parent, {p}, 0) \cap kill.roots # {}
               PROVE  \E m \in 0..0 : p \in f[m].frontier
    OBVIOUS
  <2>1. Level(parent, {p}, 0) = {p}
    BY LevelIs
  <2>2. p \in kill.roots /\ p \notin own
    BY <2>1 DEF NoParent
  <2> QED
    BY <1>root, <2>2
<1>2. ASSUME NEW n \in Nat, n \in T PROVE n + 1 \in T
  <2> SUFFICES ASSUME n + 1 <= M, NEW p \in Procs,
                      Level(parent, {p}, n + 1) \ {NoParent} \subseteq steady \ own,
                      Level(parent, {p}, n + 1) \cap kill.roots # {}
               PROVE  \E m \in 0..(n + 1) : p \in f[m].frontier
    OBVIOUS
  <2>1. Level(parent, {p}, n + 1) = {p} \cup Level(parent, {parent[p]}, n)
    <3>1. \A k \in Nat : Level(parent, {p}, k + 1) = {p} \cup Level(parent, {parent[p]}, k)
      BY LevelShifts, Zenon
    <3> QED
      BY <3>1
  <2>2. p \in steady /\ p \notin own /\ kill.table[p] = parent[p] /\ parent[p] # Gone
    BY <2>1 DEF NoParent
  <2>3. CASE p \in kill.roots
    BY <1>root, <2>2, <2>3
  <2>4. CASE p \notin kill.roots
    <3>1. Level(parent, {parent[p]}, n) \cap kill.roots # {}
      BY <2>1, <2>4
    <3>2. parent[p] \in Procs
      <4>1. SUFFICES ASSUME parent[p] = NoParent PROVE FALSE
        BY <2>2
      <4> DEFINE U == {k \in Nat : Level(parent, {NoParent}, k) = {NoParent}}
      <4>2. 0 \in U
        BY LevelIs
      <4>3. ASSUME NEW k \in Nat, k \in U PROVE k + 1 \in U
        <5>1. Level(parent, {NoParent}, k + 1) = Up(parent, {NoParent})
          <6>1. \A j \in Nat :
                   Level(parent, {NoParent}, j + 1) = Up(parent, Level(parent, {NoParent}, j))
            BY LevelIs, Zenon
          <6>2. Level(parent, {NoParent}, k) = {NoParent}
            BY <4>3
          <6> QED
            BY <6>1, <6>2
        <5>2. Up(parent, {NoParent}) = {NoParent}
          BY DEF Up, NoParent
        <5> QED
          BY <5>1, <5>2
      <4> HIDE DEF U
      <4>4. n \in U
        BY <4>2, <4>3, SetInduction
      <4>5. Level(parent, {parent[p]}, n) = {NoParent}
        BY <4>1, <4>4 DEF U
      <4> QED
        BY <3>1, <4>5 DEF NoParent
    <3>3. Level(parent, {parent[p]}, n) \ {NoParent} \subseteq steady \ own
      BY <2>1
    <3>4. PICK m \in 0..n : parent[p] \in f[m].frontier
      <4>1. n <= M
        OBVIOUS
      <4>2. \A q \in Procs :
               /\ Level(parent, {q}, n) \ {NoParent} \subseteq steady \ own
               /\ Level(parent, {q}, n) \cap kill.roots # {}
               => \E m \in 0..n : q \in f[m].frontier
        BY <1>2, <4>1
      <4> QED
        BY <3>1, <3>2, <3>3, <4>2
    <3>5. CASE p \in f[m].found
      <4>1. \E j \in 1..m : p \in f[j].frontier
        BY <3>4, <3>5, FoundIs, <1>f
      <4> QED
        BY <4>1
    <3>6. CASE p \notin f[m].found
      <4>1. f[m + 1].frontier = Below(f[m], own)
        BY <1>f, FallIs
      <4>2. p \in Below(f[m], own)
        BY <2>2, <3>4, <3>6 DEF Below
      <4>3. p \in f[m + 1].frontier /\ m + 1 \in 0..(n + 1)
        BY <4>1, <4>2
      <4> QED
        BY <4>3
    <3> QED
      BY <3>5, <3>6
  <2> QED
    BY <2>3, <2>4
<1> HIDE DEF T
<1>3. \A n \in Nat : n \in T
  BY <1>1, <1>2, SetInduction
<1> QED
  BY <1>3 DEF T, f

(***************************************************************************)
(* The invariant: the chain above the daemon only gets shorter, and the    *)
(* processes that were there throughout have the parents the table gives.  *)
(***************************************************************************)
Parents == [Procs -> Procs \cup {NoParent, Gone}]
TreeTypeOK ==
    /\ parent \in Parents /\ steady \subseteq Procs
    /\ kill \in [pc : {"own", "table", "signal", "over"}, roots : SUBSET Procs,
                 own : SUBSET Procs, table : Parents, sent : SUBSET Procs]
    /\ turnover \in 0..MaxTurnover

\* A process whose parent is a process has a parent that is there.
Rooted(tree) ==
    /\ tree[Daemon] # Gone
    /\ \A p \in Procs : tree[p] \in Procs => tree[tree[p]] # Gone
TreeInv ==
    /\ TreeTypeOK /\ Rooted(parent) /\ KillsTheTree
    /\ kill.pc # "own" => OwnChain \subseteq kill.own
    /\ \A p \in steady : parent[p] # Gone
    /\ kill.pc \in {"signal", "over"} => \A p \in steady : kill.table[p] = parent[p]

LEMMA PidsAre == Procs \subseteq Nat \ {0} /\ NoParent \notin Procs /\ Gone \notin Procs
                 /\ Daemon \in Procs /\ MaxDepth \in Nat \ {0} /\ MaxTurnover \in Nat
BY KillTreeAssumption DEF KillTreeAssumption, NoParent, Gone

\* The processes above the daemon are there.
LEMMA ChainIs ==
    ASSUME NEW tree \in Parents, Rooted(tree)
    PROVE  \A n \in Nat : \A x \in Level(tree, {Daemon}, n) :
              x = NoParent \/ (x \in Procs /\ tree[x] # Gone)
<1> DEFINE T == {n \in Nat : \A x \in Level(tree, {Daemon}, n) :
                                x = NoParent \/ (x \in Procs /\ tree[x] # Gone)}
<1>1. 0 \in T
  <2>1. Level(tree, {Daemon}, 0) = {Daemon}
    BY LevelIs
  <2> QED
    BY <2>1, PidsAre DEF Rooted
<1>2. ASSUME NEW n \in Nat, n \in T PROVE n + 1 \in T
  <2> DEFINE L == Level(tree, {Daemon}, n)
  <2>1. Level(tree, {Daemon}, n + 1) = Up(tree, L)
    BY LevelIs
  <2>2. \A x \in L : x = NoParent \/ (x \in Procs /\ tree[x] # Gone)
    BY <1>2
  <2> HIDE DEF L
  <2>3. ASSUME NEW x \in Up(tree, L)
        PROVE  x = NoParent \/ (x \in Procs /\ tree[x] # Gone)
    <3>1. CASE x \in L
      BY <2>2, <3>1
    <3>2. CASE x \notin L
      <4>1. PICK y \in L \cap Procs : x = tree[y]
        BY <3>2 DEF Up
      <4>2. tree[y] \in Procs \cup {NoParent, Gone} /\ tree[y] # Gone
        <5>1. y \in Procs /\ y # NoParent
          BY <4>1, PidsAre
        <5> QED
          BY <2>2, <4>1, <5>1 DEF Parents
      <4> QED
        BY <4>1, <4>2 DEF Rooted
    <3> QED
      BY <3>1, <3>2
  <2> QED
    BY <2>1, <2>3
<1> HIDE DEF T
<1>3. \A n \in Nat : n \in T
  BY <1>1, <1>2, SetInduction
<1> QED
  BY <1>3 DEF T

LEMMA OwnChainIs ==
    ASSUME parent \in Parents, Rooted(parent)
    PROVE  OwnChain \subseteq Procs
<1>1. MaxDepth - 1 \in Nat
  BY PidsAre
<1>2. OwnChain = Level(parent, {Daemon}, MaxDepth - 1) \ {NoParent}
  BY ReachIs DEF OwnChain
<1> QED
  BY <1>1, <1>2, ChainIs

\* A process exits.
Orphans(tree, p) ==
    [q \in Procs |-> IF q = p THEN Gone ELSE IF tree[q] = p THEN NoParent ELSE tree[q]]
LEMMA ExitShortens ==
    ASSUME NEW tree \in Parents, Rooted(tree), NEW p \in Procs, p # Daemon
    PROVE  /\ Orphans(tree, p) \in Parents /\ Rooted(Orphans(tree, p))
           /\ \A n \in Nat : Level(Orphans(tree, p), {Daemon}, n) \ {NoParent}
                                \subseteq Level(tree, {Daemon}, n)
<1> DEFINE next == Orphans(tree, p)
<1>1. \A q \in Procs : next[q] = IF q = p THEN Gone
                                  ELSE IF tree[q] = p THEN NoParent ELSE tree[q]
  BY DEF Orphans
<1>2. next \in Parents
  BY DEF Orphans, Parents
<1>3. Rooted(next)
  <2>1. next[Daemon] # Gone
    BY <1>1, PidsAre DEF Rooted, NoParent, Gone
  <2>2. ASSUME NEW q \in Procs, next[q] \in Procs PROVE next[next[q]] # Gone
    <3>1. next[q] = tree[q] /\ tree[q] # p
      BY <1>1, <2>2, PidsAre
    <3>2. tree[tree[q]] # Gone /\ tree[q] \in Procs
      BY <2>2, <3>1 DEF Rooted
    <3> QED
      BY <1>1, <3>1, <3>2 DEF NoParent, Gone
  <2> QED
    BY <2>1, <2>2 DEF Rooted
<1> HIDE DEF next
<1> DEFINE T == {n \in Nat : /\ p \notin Level(next, {Daemon}, n)
                             /\ Level(next, {Daemon}, n) \ {NoParent}
                                   \subseteq Level(tree, {Daemon}, n)}
<1>4. 0 \in T
  <2>1. Level(next, {Daemon}, 0) = {Daemon} /\ Level(tree, {Daemon}, 0) = {Daemon}
    BY LevelIs
  <2> QED
    BY <2>1
<1>5. ASSUME NEW n \in Nat, n \in T PROVE n + 1 \in T
  <2> DEFINE L == Level(tree, {Daemon}, n)  K == Level(next, {Daemon}, n)
  <2>1. Level(tree, {Daemon}, n + 1) = Up(tree, L) /\ Level(next, {Daemon}, n + 1) = Up(next, K)
    BY LevelIs
  <2>2. p \notin K /\ K \ {NoParent} \subseteq L
    BY <1>5
  <2> HIDE DEF L, K
  <2>3. p \notin Up(next, K)
    BY <1>1, <2>2, PidsAre DEF Up
  <2>4. Up(next, K) \ {NoParent} \subseteq Up(tree, L)
    BY <1>1, <2>2, PidsAre DEF Up
  <2> QED
    BY <2>1, <2>3, <2>4
<1> HIDE DEF T
<1>6. \A n \in Nat : n \in T
  BY <1>4, <1>5, SetInduction
<1> QED
  BY <1>2, <1>3, <1>6 DEF T, next

\* A process starts: it is above nobody.
Adopts(tree, p, q) == [tree EXCEPT ![q] = p]
LEMMA ForkAdds ==
    ASSUME NEW tree \in Parents, Rooted(tree), NEW p \in Procs, tree[p] # Gone,
           NEW q \in Procs, tree[q] = Gone
    PROVE  /\ Adopts(tree, p, q) \in Parents /\ Rooted(Adopts(tree, p, q))
           /\ \A n \in Nat : Level(Adopts(tree, p, q), {Daemon}, n) = Level(tree, {Daemon}, n)
<1> DEFINE next == Adopts(tree, p, q)
<1>1. next \in Parents /\ next[q] = p /\ \A x \in Procs \ {q} : next[x] = tree[x]
  BY DEF Adopts, Parents
<1> HIDE DEF next
<1>2. Rooted(next)
  BY <1>1, PidsAre DEF Rooted
<1> DEFINE T == {n \in Nat : Level(next, {Daemon}, n) = Level(tree, {Daemon}, n)}
<1>3. 0 \in T
  <2>1. Level(next, {Daemon}, 0) = {Daemon} /\ Level(tree, {Daemon}, 0) = {Daemon}
    BY LevelIs
  <2> QED
    BY <2>1
<1>4. ASSUME NEW n \in Nat, n \in T PROVE n + 1 \in T
  <2> DEFINE L == Level(tree, {Daemon}, n)
  <2>1. Level(tree, {Daemon}, n + 1) = Up(tree, L) /\ Level(next, {Daemon}, n + 1) = Up(next, L)
    <3>1. Level(next, {Daemon}, n) = L
      BY <1>4
    <3>2. Level(tree, {Daemon}, n + 1) = Up(tree, L)
      BY LevelIs
    <3>3. Level(next, {Daemon}, n + 1) = Up(next, Level(next, {Daemon}, n))
      BY LevelIs
    <3> QED
      BY <3>1, <3>2, <3>3, Zenon
  <2>2. q \notin L
    BY ChainIs, PidsAre
  <2> HIDE DEF L
  <2>3. Up(next, L) = Up(tree, L)
    BY <1>1, <2>2 DEF Up
  <2> QED
    BY <2>1, <2>3
<1> HIDE DEF T
<1>5. \A n \in Nat : n \in T
  BY <1>3, <1>4, SetInduction
<1> QED
  BY <1>1, <1>2, <1>5 DEF T, next

LEMMA TreeInitInv == KillTreeInit => TreeInv
<1> SUFFICES ASSUME KillTreeInit PROVE TreeInv
  OBVIOUS
<1>1. \A p \in Procs : parent[p] \in Procs \cup {NoParent} /\ parent[p] # Gone
  BY PidsAre DEF KillTreeInit, NoParent, Gone
<1>2. parent \in Parents /\ Rooted(parent)
  BY <1>1, PidsAre DEF KillTreeInit, Rooted, Parents
<1>3. PICK roots \in SUBSET Procs :
          kill = [pc |-> "own", roots |-> roots, own |-> {}, table |-> parent, sent |-> {}]
  BY DEF KillTreeInit
<1>4. TreeTypeOK
  BY <1>2, <1>3, PidsAre DEF KillTreeInit, TreeTypeOK
<1> QED
  BY <1>1, <1>2, <1>3, <1>4 DEF KillTreeInit, TreeInv, KillsTheTree

\* The cutoff signals what it should, and nothing of the daemon's own.
LEMMA SignalKills ==
    ASSUME TreeInv, Signal PROVE KillsTheTree'
<1>1. /\ TreeTypeOK /\ kill.pc = "signal" /\ OwnChain \subseteq kill.own
      /\ parent' = parent /\ steady' = steady
      /\ \A p \in steady : parent[p] # Gone /\ kill.table[p] = parent[p]
  BY DEF TreeInv, Signal
<1>2. kill'.sent = Targets \cap Alive /\ kill'.own = kill.own /\ kill'.roots = kill.roots
  BY <1>1 DEF Signal, TreeTypeOK
<1>3. OwnChain' = OwnChain
  BY <1>1 DEF OwnChain
<1>4. OwnChain \cap kill'.sent = {}
  BY <1>1, <1>2 DEF Targets
<1>5. ASSUME NEW p \in steady, Reach(parent, {p}, MaxDepth) \subseteq steady,
             Reach(parent, {p}, MaxDepth) \cap kill.roots # {},
             Reach(parent, {p}, MaxDepth) \cap kill.own = {}
      PROVE  p \in kill'.sent
  <2> DEFINE L == Level(parent, {p}, MaxDepth)
             f == Fall(OwnChain, MaxDepth)
  <2>1. MaxDepth \in Nat /\ p \in Procs /\ Procs \subseteq Nat \ {0} /\ NoParent \notin Procs
    BY <1>1, PidsAre DEF TreeTypeOK
  <2>2. Reach(parent, {p}, MaxDepth) = L \ {NoParent}
    BY ReachIs
  <2>3. p \in L
    BY <2>1, LevelHolds
  <2> HIDE DEF L
  <2>4. L \ {NoParent} \subseteq steady \ OwnChain
    BY <1>1, <1>5, <2>2
  <2>5. L \cap kill.roots # {} /\ p \notin kill.own
    BY <1>5, <2>1, <2>2, <2>3
  <2>6. \A q \in Procs : parent[q] \in Procs \cup {NoParent, Gone}
    BY <1>1 DEF TreeTypeOK, Parents
  <2>7. kill.roots \subseteq Procs
    BY <1>1 DEF TreeTypeOK
  <2>0. f = Fall(OwnChain, MaxDepth)
    OBVIOUS
  <2> HIDE DEF f
  <2>8. \E m \in 0..MaxDepth : p \in f[m].frontier
    <3>1. \A q \in steady : kill.table[q] = parent[q] /\ parent[q] # Gone
      BY <1>1
    <3>2. \A n \in Nat : n <= MaxDepth =>
              \A q \in Procs :
                 /\ Level(parent, {q}, n) \ {NoParent} \subseteq steady \ OwnChain
                 /\ Level(parent, {q}, n) \cap kill.roots # {}
                 => \E m \in 0..n : q \in f[m].frontier
      BY <2>0, <2>1, <2>6, <2>7, <3>1, FindsBelow
    <3>3. MaxDepth <= MaxDepth
      BY <2>1
    <3> QED
      BY <2>1, <2>4, <2>5, <3>2, <3>3 DEF L
  <2>9. p \in kill.roots \cup Descendants(OwnChain)
    <3>1. PICK m \in 0..MaxDepth : p \in f[m].frontier
      BY <2>8
    <3>2. CASE m = 0
      <4>1. f[0].frontier = kill.roots \ OwnChain
        BY <2>1, FallIs DEF f
      <4> QED
        BY <3>1, <3>2, <4>1
    <3>3. CASE m \in 1..MaxDepth
      <4>1. f[m].frontier \subseteq f[MaxDepth].found
        BY <2>1, <3>3, FoundIs DEF f
      <4>2. Descendants(OwnChain) = f[MaxDepth].found
        BY DescendantsIs DEF f
      <4> QED
        BY <3>1, <4>1, <4>2
    <3> QED
      BY <2>1, <3>2, <3>3
  <2>10. p \in Alive
    BY <1>1, <2>1 DEF Alive
  <2> QED
    BY <1>2, <2>5, <2>9, <2>10 DEF Targets
<1> QED
  BY <1>1, <1>2, <1>3, <1>4, <1>5 DEF KillsTheTree

LEMMA TreeStepInv == TreeInv /\ [KillTreeNext]_treeVars => TreeInv'
<1> SUFFICES ASSUME TreeInv, [KillTreeNext]_treeVars PROVE TreeInv'
  OBVIOUS
<1>1. TreeTypeOK /\ Rooted(parent) /\ parent \in Parents
  BY DEF TreeInv, TreeTypeOK
<1>2. CASE UNCHANGED treeVars
  BY <1>2 DEF treeVars, TreeInv, TreeTypeOK, KillsTheTree, OwnChain
<1>3. CASE ReadOwn
  <2>1. OwnChain \subseteq Procs
    BY <1>1, OwnChainIs
  <2>2. OwnChain' = OwnChain
    BY <1>3 DEF ReadOwn, OwnChain
  <2>3. kill'.pc = "table" /\ kill'.own = OwnChain
    BY <1>1, <1>3 DEF ReadOwn, TreeTypeOK
  <2>4. TreeTypeOK'
    BY <1>1, <1>3, <2>1 DEF ReadOwn, TreeTypeOK
  <2> QED
    BY <1>3, <2>2, <2>3, <2>4 DEF ReadOwn, TreeInv, KillsTheTree
<1>4. CASE ReadTable
  <2>1. OwnChain' = OwnChain
    BY <1>4 DEF ReadTable, OwnChain
  <2>2. kill'.pc = "signal" /\ kill'.own = kill.own /\ kill'.table = parent /\ kill.pc # "own"
    BY <1>1, <1>4 DEF ReadTable, TreeTypeOK
  <2>3. TreeTypeOK'
    BY <1>1, <1>4 DEF ReadTable, TreeTypeOK
  <2> QED
    BY <1>4, <2>1, <2>2, <2>3 DEF ReadTable, TreeInv, KillsTheTree
<1>5. CASE Signal
  <2>1. OwnChain' = OwnChain
    BY <1>5 DEF Signal, OwnChain
  <2>2. /\ kill'.pc = "over" /\ kill'.own = kill.own /\ kill'.table = kill.table
        /\ kill.pc = "signal"
    BY <1>1, <1>5 DEF Signal, TreeTypeOK
  <2>3. TreeTypeOK'
    <3>1. Targets \cap Alive \subseteq Procs
      BY DEF Alive
    <3> QED
      BY <1>1, <1>5, <3>1 DEF Signal, TreeTypeOK
  <2> QED
    BY <1>5, <2>1, <2>2, <2>3, SignalKills DEF Signal, TreeInv
<1>6. ASSUME NEW p \in Procs, Exits(p) PROVE TreeInv'
  <2>1. /\ p # Daemon /\ parent' = Orphans(parent, p) /\ kill' = kill /\ kill.pc # "over"
        /\ steady' = steady \ ({p} \cup {q \in Procs : parent[q] = p})
        /\ turnover < MaxTurnover /\ turnover' = turnover + 1
    BY <1>6 DEF Exits, Turns, Orphans
  <2>2. /\ parent' \in Parents /\ Rooted(parent')
        /\ \A n \in Nat : Level(parent', {Daemon}, n) \ {NoParent} \subseteq Level(parent, {Daemon}, n)
    BY <1>1, <2>1, ExitShortens
  <2>3. OwnChain' \subseteq OwnChain
    <3>1. OwnChain' = Level(parent', {Daemon}, MaxDepth - 1) \ {NoParent}
      BY ReachIs DEF OwnChain
    <3>2. OwnChain = Level(parent, {Daemon}, MaxDepth - 1) \ {NoParent}
      BY ReachIs DEF OwnChain
    <3>3. MaxDepth - 1 \in Nat
      BY PidsAre
    <3> QED
      BY <2>2, <3>1, <3>2, <3>3
  <2>4. TreeTypeOK'
    <3>1. steady' \subseteq Procs
      BY <1>1, <2>1 DEF TreeTypeOK
    <3>2. turnover' \in 0..MaxTurnover
      BY <1>1, <2>1, PidsAre DEF TreeTypeOK
    <3> QED
      BY <1>1, <2>1, <2>2, <3>1, <3>2 DEF TreeTypeOK
  <2>5. \A q \in steady' : q \in steady /\ parent'[q] = parent[q]
    BY <1>1, <2>1 DEF Orphans, TreeTypeOK
  <2>6. /\ kill'.pc # "own" => OwnChain' \subseteq kill'.own
        /\ \A q \in steady' : parent'[q] # Gone
        /\ kill'.pc \in {"signal", "over"} => \A q \in steady' : kill'.table[q] = parent'[q]
    BY <2>1, <2>3, <2>5 DEF TreeInv
  <2>7. KillsTheTree'
    BY <2>1 DEF KillsTheTree
  <2> QED
    BY <2>2, <2>4, <2>6, <2>7 DEF TreeInv
<1>7. ASSUME NEW p \in Procs, NEW q \in Procs, Forks(p, q) PROVE TreeInv'
  <2>1. /\ parent[p] # Gone /\ parent[q] = Gone /\ parent' = [parent EXCEPT ![q] = p]
        /\ kill' = kill /\ kill.pc # "over" /\ steady' = steady
        /\ turnover < MaxTurnover /\ turnover' = turnover + 1
    BY <1>7 DEF Forks, Turns, Alive
  <2>2. /\ parent' \in Parents /\ Rooted(parent')
        /\ \A n \in Nat : Level(parent', {Daemon}, n) = Level(parent, {Daemon}, n)
    <3>1. parent' = Adopts(parent, p, q)
      BY <2>1 DEF Adopts
    <3>2. /\ Adopts(parent, p, q) \in Parents /\ Rooted(Adopts(parent, p, q))
          /\ \A n \in Nat : Level(Adopts(parent, p, q), {Daemon}, n) = Level(parent, {Daemon}, n)
      BY <1>1, <2>1, ForkAdds
    <3> QED
      BY <3>1, <3>2, Zenon
  <2>3. OwnChain' = OwnChain
    <3>1. OwnChain' = Level(parent', {Daemon}, MaxDepth - 1) \ {NoParent}
      BY ReachIs DEF OwnChain
    <3>2. OwnChain = Level(parent, {Daemon}, MaxDepth - 1) \ {NoParent}
      BY ReachIs DEF OwnChain
    <3>3. MaxDepth - 1 \in Nat
      BY PidsAre
    <3> QED
      BY <2>2, <3>1, <3>2, <3>3
  <2>4. TreeTypeOK'
    BY <1>1, <2>1, <2>2, PidsAre DEF TreeTypeOK
  <2>5. \A r \in steady : parent'[r] = parent[r]
    BY <1>1, <2>1 DEF TreeInv, TreeTypeOK, Parents
  <2>6. /\ kill'.pc # "own" => OwnChain' \subseteq kill'.own
        /\ \A r \in steady' : parent'[r] # Gone
        /\ kill'.pc \in {"signal", "over"} => \A r \in steady' : kill'.table[r] = parent'[r]
    BY <2>1, <2>3, <2>5 DEF TreeInv
  <2>7. KillsTheTree'
    BY <2>1 DEF KillsTheTree
  <2> QED
    BY <2>2, <2>4, <2>6, <2>7 DEF TreeInv
<1> QED
  BY <1>2, <1>3, <1>4, <1>5, <1>6, <1>7 DEF KillTreeNext

LEMMA TreeInvKills == TreeInv => KillsTheTree
BY DEF TreeInv

\* For any processes, depths and turnover: the daemon's own are spared, and
\* what was below a root throughout is signalled.
THEOREM TreeIsKilled == KillTreeSpec => []KillsTheTree
  BY TreeInvKills, TreeInitInv, TreeStepInv, PTL DEF KillTreeSpec

-----------------------------------------------------------------------------
\* A later moment is of no earlier day.
LEMMA DayOrder ==
    ASSUME NEW t \in Nat, NEW u \in Nat, t <= u
    PROVE  Day(t) \in Nat /\ Day(u) \in Nat /\ Day(t) <= Day(u)
BY EarnersAssumption DEF EarnersAssumption, Day

\* The credit pays the day and can be read.
EarnedToday == Earned(FALSE)
Payable == EarnedToday /\ CanRead(readable)
\* For how long the last answer has been priced with, at most.
SleptFor == IF poll.pc = "wait" THEN poll.slept ELSE Interval
PaidSince(t) == \E u \in t..time : Day(u) = ledger.day

\* What is remembered is right for the file as it was stamped.
MemoInv ==
    /\ memo.stamp <= ledger.version /\ poll.stamp <= ledger.version
    /\ ledger.version > 0 /\ ledger.day <= Day(time)
    /\ memo.at >= 0 /\ memo.answer # "yes" /\ Payable => memo.at <= payable
    /\ memo.at >= 0 /\ memo.stamp = ledger.version /\ EarnedToday => memo.answer = "yes"
    /\ memo.at >= 0 /\ memo.answer = "yes" => PaidSince(memo.at)

\* What was read is right, or a write has come in between.
PollInv ==
    poll.pc = "store" =>
        /\ poll.read # "yes" /\ Payable => payable = time /\ (wake.told => wake.queued)
        /\ poll.stamp = ledger.version /\ EarnedToday => poll.read \in {"yes", "none"}
        /\ poll.read = "yes" => ledger.day = Day(time)

\* How far the answer in use may lag behind.
AnswerInv ==
    /\ answer # "yes" /\ Payable =>
          /\ time <= payable + TTL + SleptFor
          /\ Stat => time <= payable + SleptFor
          /\ Stat /\ wake.told => time = payable
          /\ Stat /\ wake.told => ~(poll.pc = "wait" /\ poll.slept < Interval /\ ~wake.queued)
    /\ answer = "yes" => PaidSince(time - TTL - SleptFor)

EarnersInv == EarnersTypeOK /\ MemoInv /\ PollInv /\ AnswerInv

LEMMA EarnersInitInv == EarnersInit => EarnersInv
<1> SUFFICES ASSUME EarnersInit PROVE EarnersInv
  OBVIOUS
<1>1. Day(0) \in Nat /\ Day(EarnerHorizon) \in Nat
  BY EarnersAssumption, DayOrder DEF EarnersAssumption
<1>2. EarnersTypeOK
  <2>1. ledger \in [day : -1..Day(EarnerHorizon), full : BOOLEAN, version : Nat]
    BY <1>1 DEF EarnersInit
  <2>2. memo \in [at : -1..time, answer : Reply, stamp : Nat]
    BY DEF EarnersInit, NoMemo, Reply
  <2>3. poll \in [pc : {"wait", "stamp", "gate", "read", "store"}, stamp : Nat,
                  gate : BOOLEAN, read : Reply, slept : 0..Interval]
    <3>1. poll = [pc |-> "wait", stamp |-> 0, gate |-> FALSE, read |-> "none", slept |-> Interval]
      BY DEF EarnersInit, Waiting
    <3>2. Interval \in 0..Interval /\ "none" \in Reply
      BY EarnersAssumption DEF EarnersAssumption, Reply
    <3> QED
      BY <3>1, <3>2
  <2>4. wake \in [works : BOOLEAN, queued : BOOLEAN, told : BOOLEAN]
    BY Zenon DEF EarnersInit
  <2>5. answer \in Reply /\ readable \subseteq {"ledger", "api", "stat"}
    BY DEF EarnersInit, Reply
  <2>6. /\ earner \in Earner /\ gateOff \in BOOLEAN /\ time \in 0..EarnerHorizon
        /\ payable \in 0..time /\ writes \in 0..MaxWrites /\ faults \in 0..MaxFaults
    <3>1. earner \in Earner /\ gateOff = FALSE /\ time = 0 /\ payable = 0 /\ writes = 0 /\ faults = 0
      BY DEF EarnersInit
    <3>2. \A n \in Nat : 0 \in 0..n
      OBVIOUS
    <3> QED
      BY <3>1, <3>2, EarnersAssumption DEF EarnersAssumption
  <2> QED
    BY <2>1, <2>2, <2>3, <2>4, <2>5, <2>6 DEF EarnersTypeOK
<1>3. ~EarnedToday
  BY <1>1 DEF EarnedToday, Earned, EarnersInit
<1>4. MemoInv
  BY <1>1, <1>3 DEF MemoInv, NoMemo, Waiting, EarnersInit
<1>5. PollInv /\ AnswerInv
  BY <1>3 DEF PollInv, AnswerInv, Payable, Waiting, EarnersInit
<1> QED
  BY <1>2, <1>4, <1>5 DEF EarnersInv

\* The gates write; nothing is read.
LEMMA EarnersWrite ==
    ASSUME EarnersInv, NEW day, NEW full \in BOOLEAN, Write(day, full),
           day = ledger.day \/ day = Day(time)
    PROVE  EarnersInv'
<1> USE EarnersAssumption DEF EarnersAssumption
<1>0. EarnersTypeOK /\ MemoInv /\ PollInv /\ AnswerInv
  BY DEF EarnersInv
<1>1. /\ UNCHANGED <<earner, time, readable, gateOff, memo, poll, answer, faults>>
      /\ ledger' = [day |-> day, full |-> full, version |-> ledger.version + 1]
      /\ writes' \in 0..MaxWrites
  BY <1>0 DEF Write, reader, EarnersTypeOK
<1>2. /\ time \in Nat /\ payable \in Nat /\ payable <= time /\ ledger.day \in Int
      /\ ledger.version \in Nat /\ ledger.full \in BOOLEAN
      /\ memo.at \in Int /\ memo.at <= time /\ memo.stamp \in Nat /\ poll.stamp \in Nat
      /\ poll.slept \in 0..Interval /\ time <= EarnerHorizon
  BY <1>0 DEF EarnersTypeOK
<1>3. Day(time) \in Nat /\ Day(EarnerHorizon) \in Nat /\ Day(time) <= Day(EarnerHorizon)
  BY <1>2, DayOrder
<1>4. ledger.day <= day /\ day <= Day(time) /\ day \in Int
  BY <1>0, <1>2, <1>3 DEF MemoInv
<1>5. /\ ledger'.day = day /\ ledger'.full = full /\ ledger'.version = ledger.version + 1
  BY <1>1
<1>a. Day(time)' = Day(time)
  BY <1>1 DEF Day
<1>6. CASE day = ledger.day /\ full = ledger.full
  <2>1. /\ payable' = payable /\ wake'.told = wake.told /\ (wake.queued => wake'.queued)
        /\ wake' \in [works : BOOLEAN, queued : BOOLEAN, told : BOOLEAN]
    BY <1>0, <1>6 DEF Write, EarnersTypeOK
  <2>2. EarnersTypeOK'
    BY <1>0, <1>1, <1>2, <1>3, <1>4, <2>1 DEF EarnersTypeOK
  <2>3. /\ Payable' = Payable /\ EarnedToday' = EarnedToday /\ Stat' = Stat
        /\ SleptFor' = SleptFor
    BY <1>1, <1>5, <1>6 DEF Payable, EarnedToday, Earned, CanRead, Stat, SleptFor
  <2>4. \A t : PaidSince(t)' <=> PaidSince(t)
    BY <1>1, <1>5, <1>6 DEF PaidSince, Day
  <2>5. MemoInv'
    BY <1>0, <1>1, <1>2, <1>5, <1>6, <1>a, <2>1, <2>3, <2>4 DEF MemoInv
  <2>6. PollInv'
    <3>1. (wake'.told => wake'.queued) \/ ~(wake.told => wake.queued)
      BY <2>1
    <3>2. ledger'.day = ledger.day /\ ledger'.version # poll.stamp
      BY <1>0, <1>2, <1>5, <1>6 DEF MemoInv
    <3> QED
      BY <1>0, <1>1, <1>a, <2>1, <2>3, <3>1, <3>2 DEF PollInv
  <2>7. AnswerInv'
    BY <1>0, <1>1, <1>2, <2>1, <2>3, <2>4 DEF AnswerInv
  <2> QED
    BY <2>2, <2>5, <2>6, <2>7 DEF EarnersInv
<1>7. CASE ~(day = ledger.day /\ full = ledger.full)
  <2>1. /\ payable' = time /\ wake'.told = wake.works /\ wake'.queued = (wake.queued \/ wake.works)
        /\ wake' \in [works : BOOLEAN, queued : BOOLEAN, told : BOOLEAN]
    BY <1>0, <1>7 DEF Write, EarnersTypeOK
  <2>2. EarnersTypeOK'
    BY <1>0, <1>1, <1>2, <1>3, <1>4, <2>1 DEF EarnersTypeOK
  <2>3. SleptFor' = SleptFor /\ SleptFor \in 0..Interval
    BY <1>1, <1>2 DEF SleptFor
  <2>4. ASSUME NEW t \in Int, t <= time, PaidSince(t)
        PROVE  PaidSince(t)'
    <3>1. CASE day = ledger.day
      BY <1>1, <1>5, <2>4, <3>1 DEF PaidSince, Day
    <3>2. CASE day = Day(time)
      BY <1>1, <1>2, <1>5, <2>4, <3>2 DEF PaidSince, Day
    <3> QED
      BY <3>1, <3>2
  <2>5. MemoInv'
    BY <1>0, <1>1, <1>2, <1>4, <1>5, <1>a, <2>1, <2>4 DEF MemoInv
  <2>6. PollInv'
    BY <1>0, <1>1, <1>2, <1>3, <1>4, <1>5, <1>a, <2>1 DEF PollInv, MemoInv
  <2>7. AnswerInv'
    <3> DEFINE from == time - TTL - SleptFor
    <3>0. from \in Int /\ from <= time /\ from' = from
      BY <1>1, <1>2, <2>3
    <3> HIDE DEF from
    <3>1. answer = "yes" => PaidSince(from)'
      BY <1>0, <2>4, <3>0 DEF AnswerInv, from
    <3> USE DEF from
    <3>2. Stat' /\ wake'.told => wake'.queued
      BY <2>1
    <3> QED
      BY <1>1, <1>2, <2>1, <2>3, <3>1, <3>2 DEF AnswerInv
  <2> QED
    BY <2>2, <2>5, <2>6, <2>7 DEF EarnersInv
<1> QED
  BY <1>6, <1>7

\* What the proofs use of the types.
LEMMA EarnersTypes ==
    ASSUME EarnersTypeOK
    PROVE  /\ time \in Nat /\ payable \in Nat /\ payable <= time /\ time <= EarnerHorizon
           /\ ledger.day \in Int /\ ledger.version \in Nat
           /\ memo.at \in Int /\ memo.at <= time /\ memo.stamp \in Nat /\ poll.stamp \in Nat
           /\ poll.slept \in 0..Interval /\ SleptFor \in 0..Interval /\ poll.read \in Reply
           /\ Day(time) \in Nat /\ Interval \in Nat \ {0} /\ TTL \in Nat \ {0}
  BY DayOrder, EarnersAssumption DEF EarnersTypeOK, SleptFor, EarnersAssumption

\* A credit that can be read is read.
LEMMA ReadsPayable ==
    ASSUME EarnersTypeOK, NEW gate \in BOOLEAN
    PROVE  /\ Payable => Reads(gate) = "yes"
           /\ EarnedToday => Reads(gate) \in {"yes", "none"}
           /\ Reads(gate) = "yes" => ledger.day = Day(time)
           /\ Reads(gate) \in Reply
<1>1. /\ EarnedToday => Earned(gate) /\ Earned(gateOff)
      /\ Earned(gate) \/ Earned(gateOff) => ledger.day = Day(time)
  BY DEF EarnedToday, Earned
<1>2. earner \in Earner
  BY DEF EarnersTypeOK
<1>3. CASE earner = "workout"
  BY <1>1, <1>3 DEF Payable, CanRead, Reads, FromApi, YesNo, Reply
<1>4. CASE earner = "leetcode"
  <2>1. Reads(gate) = IF "ledger" \in readable THEN YesNo(Earned(gate)) ELSE FromApi
    BY <1>4 DEF Reads
  <2>2. Payable => EarnedToday /\ ("ledger" \in readable \/ "api" \in readable)
    BY <1>4 DEF Payable, CanRead
  <2> QED
    BY <1>1, <2>1, <2>2 DEF FromApi, YesNo, Reply
<1>5. CASE earner \in {"reading", "ledger"}
  BY <1>1, <1>5 DEF Payable, CanRead, Reads, YesNo, Reply
<1> QED
  BY <1>2, <1>3, <1>4, <1>5 DEF Earner

\* A step that leaves the clock, the file and the sources alone.
LEMMA EarnersSame ==
    ASSUME UNCHANGED <<earner, time, ledger, readable>>
    PROVE  /\ EarnedToday' <=> EarnedToday
           /\ Payable' <=> Payable
           /\ Stat' <=> Stat
           /\ Day(time)' = Day(time)
           /\ \A t : PaidSince(t)' <=> PaidSince(t)
  BY DEF EarnedToday, Earned, Payable, CanRead, Stat, Day, PaidSince

\* The daemon remembers an answer, or asks for one.
LEMMA EarnersPass ==
    ASSUME EarnersInv, Answered \/ Missed \/ AskGate \/ Read \/ Store
    PROVE  EarnersInv'
<1>0. EarnersTypeOK /\ MemoInv /\ PollInv /\ AnswerInv
  BY DEF EarnersInv
<1>1. UNCHANGED <<earner, time, ledger, readable, gateOff, payable, wake, writes, faults>>
  BY DEF Answered, Missed, AskGate, Read, Store, Quiet
<1>2. /\ EarnedToday' <=> EarnedToday
      /\ Payable' <=> Payable
      /\ Stat' <=> Stat
      /\ Day(time)' = Day(time)
      /\ \A t : PaidSince(t)' <=> PaidSince(t)
  BY <1>1, EarnersSame
<1>3. /\ time \in Nat /\ payable \in Nat /\ payable <= time /\ time <= EarnerHorizon
      /\ ledger.day \in Int /\ ledger.version \in Nat
      /\ memo.at \in Int /\ memo.at <= time /\ memo.stamp \in Nat /\ poll.stamp \in Nat
      /\ poll.slept \in 0..Interval /\ SleptFor \in 0..Interval /\ poll.read \in Reply
      /\ Day(time) \in Nat /\ Interval \in Nat \ {0} /\ TTL \in Nat \ {0}
  BY <1>0, EarnersTypes
<1>4. FileStamp \in {0, ledger.version} /\ (Stat => FileStamp = ledger.version)
  BY DEF FileStamp, Stat
<1>5. poll \in [pc : {"wait", "stamp", "gate", "read", "store"}, stamp : Nat,
                gate : BOOLEAN, read : Reply, slept : 0..Interval]
  BY <1>0 DEF EarnersTypeOK
<1>6. CASE Answered
  <2>1. /\ poll.pc = "stamp" /\ Fresh(FileStamp) /\ memo' = memo /\ answer' = memo.answer
        /\ poll'.pc = "wait" /\ poll'.stamp = 0 /\ poll'.slept = 0 /\ poll' = Waiting
    BY <1>6 DEF Answered, Waiting
  <2>2. memo.at >= 0 /\ memo.stamp = FileStamp /\ time < memo.at + TTL
    BY <1>3, <2>1 DEF Fresh
  <2>3. EarnersTypeOK'
    <3>1. poll' \in [pc : {"wait", "stamp", "gate", "read", "store"}, stamp : Nat,
                     gate : BOOLEAN, read : Reply, slept : 0..Interval]
      BY <1>3, <2>1 DEF Waiting, Reply
    <3> QED
      BY <1>0, <1>1, <1>2, <2>1, <3>1 DEF EarnersTypeOK, Day
  <2>4. MemoInv'
    BY <1>0, <1>1, <1>2, <1>3, <2>1 DEF MemoInv
  <2>5. AnswerInv'
    <3>1. SleptFor' = 0
      BY <2>1 DEF SleptFor
    <3>2. memo.answer = "yes" => PaidSince(time - TTL)
      BY <1>0, <1>3, <2>2 DEF MemoInv, PaidSince
    <3>3. memo.answer # "yes" /\ Payable => time <= payable + TTL /\ ~Stat
      BY <1>0, <1>3, <1>4, <2>2 DEF MemoInv, Payable
    <3>4. time' - TTL - SleptFor' = time - TTL
      BY <1>1, <1>3, <3>1
    <3> QED
      BY <1>1, <1>2, <1>3, <2>1, <3>1, <3>2, <3>3, <3>4 DEF AnswerInv
  <2> QED
    BY <2>1, <2>3, <2>4, <2>5 DEF EarnersInv, PollInv
<1>7. CASE Missed \/ AskGate \/ Read
  <2>1. UNCHANGED <<memo, answer>> /\ poll.pc # "wait" /\ poll'.pc # "wait"
    BY <1>5, <1>7 DEF Missed, AskGate, Read
  <2>2. poll' \in [pc : {"wait", "stamp", "gate", "read", "store"}, stamp : Nat,
                   gate : BOOLEAN, read : Reply, slept : 0..Interval]
        /\ poll'.stamp <= ledger.version
    <3>1. CASE Missed
      <4>1. FileStamp \in Nat /\ FileStamp <= ledger.version
        BY <1>3, <1>4
      <4>2. \E pc \in {"gate", "read"} : poll' = [poll EXCEPT !.pc = pc, !.stamp = FileStamp]
        BY <3>1 DEF Missed
      <4> QED
        BY <1>5, <4>1, <4>2
    <3>2. CASE AskGate
      <4>1. (gateOff /\ "api" \in readable) \in BOOLEAN
        OBVIOUS
      <4> QED
        BY <1>0, <1>5, <1>7, <3>2, <4>1 DEF AskGate, MemoInv
    <3>3. CASE Read
      <4>1. poll.gate \in BOOLEAN
        BY <1>5
      <4>2. Reads(poll.gate) \in Reply
        BY <1>0, <4>1, ReadsPayable
      <4> QED
        BY <1>0, <1>5, <1>7, <3>3, <4>2 DEF Read, MemoInv
    <3> QED
      BY <1>7, <3>1, <3>2, <3>3
  <2>3. EarnersTypeOK'
    BY <1>0, <1>1, <1>2, <2>1, <2>2 DEF EarnersTypeOK, Day
  <2>4. MemoInv'
    BY <1>0, <1>1, <1>2, <2>1, <2>2 DEF MemoInv
  <2>5. PollInv'
    <3>1. CASE poll'.pc = "store"
      <4>1. poll.gate \in BOOLEAN /\ poll'.read = Reads(poll.gate)
        BY <1>5, <1>7, <3>1 DEF Missed, AskGate, Read
      <4> QED
        BY <1>0, <1>1, <1>2, <4>1, ReadsPayable DEF PollInv
    <3>2. CASE poll'.pc # "store"
      BY <3>2 DEF PollInv
    <3> QED
      BY <3>1, <3>2
  <2>6. AnswerInv'
    <3>1. SleptFor' = SleptFor
      BY <2>1 DEF SleptFor
    <3> QED
      BY <1>0, <1>1, <1>2, <2>1, <3>1 DEF AnswerInv
  <2> QED
    BY <2>3, <2>4, <2>5, <2>6 DEF EarnersInv
<1>8. CASE Store
  <2>1. /\ poll.pc = "store" /\ answer' = poll.read
        /\ memo' = IF poll.read = "none" THEN memo
                   ELSE [at |-> time, answer |-> poll.read, stamp |-> poll.stamp]
        /\ poll'.pc = "wait" /\ poll'.stamp = 0 /\ poll'.slept = 0 /\ poll' = Waiting
    BY <1>8 DEF Store, Waiting
  <2>2. EarnersTypeOK'
    <3>1. poll' \in [pc : {"wait", "stamp", "gate", "read", "store"}, stamp : Nat,
                     gate : BOOLEAN, read : Reply, slept : 0..Interval]
      BY <1>3, <2>1 DEF Waiting, Reply
    <3>2. memo' \in [at : -1..time, answer : Reply, stamp : Nat]
      BY <1>0, <1>3, <2>1 DEF EarnersTypeOK
    <3> QED
      BY <1>0, <1>1, <1>2, <1>3, <2>1, <3>1, <3>2 DEF EarnersTypeOK, Day
  <2>3. poll.read = "yes" => PaidSince(time) /\ PaidSince(time - TTL)
    BY <1>0, <1>3, <2>1 DEF PollInv, PaidSince
  <2>4. MemoInv'
    <3>1. CASE poll.read = "none"
      BY <1>0, <1>1, <1>2, <1>3, <2>1, <3>1 DEF MemoInv
    <3>2. CASE poll.read # "none"
      <4>1. memo'.at = time /\ memo'.answer = poll.read /\ memo'.stamp = poll.stamp
        BY <2>1, <3>2
      <4> QED
        BY <1>0, <1>1, <1>2, <1>3, <2>1, <2>3, <3>2, <4>1 DEF MemoInv, PollInv
    <3> QED
      BY <3>1, <3>2
  <2>5. AnswerInv'
    <3>1. SleptFor' = 0
      BY <2>1 DEF SleptFor
    <3>2. time' - TTL - SleptFor' = time - TTL
      BY <1>1, <1>3, <3>1
    <3>3. poll.read # "yes" /\ Payable => payable = time /\ (wake.told => wake.queued)
      BY <1>0, <2>1 DEF PollInv
    <3> QED
      BY <1>1, <1>2, <1>3, <2>1, <2>3, <3>1, <3>2, <3>3 DEF AnswerInv
  <2> QED
    BY <2>1, <2>2, <2>4, <2>5 DEF EarnersInv, PollInv
<1> QED
  BY <1>6, <1>7, <1>8

\* What the world does to the sources and the watch, and a restart.
LEMMA EarnersWorld ==
    ASSUME EarnersInv,
           GateTurns \/ WatchBreaks \/ Restarts \/ PassBegins \/ TimePasses
             \/ \E s \in {"ledger", "api", "stat"} : SourceTurns(s)
    PROVE  EarnersInv'
<1>0. EarnersTypeOK /\ MemoInv /\ PollInv /\ AnswerInv
  BY DEF EarnersInv
<1>1. /\ time \in Nat /\ payable \in Nat /\ payable <= time /\ time <= EarnerHorizon
      /\ ledger.day \in Int /\ ledger.version \in Nat
      /\ memo.at \in Int /\ memo.at <= time /\ memo.stamp \in Nat /\ poll.stamp \in Nat
      /\ poll.slept \in 0..Interval /\ SleptFor \in 0..Interval /\ poll.read \in Reply
      /\ Day(time) \in Nat /\ Interval \in Nat \ {0} /\ TTL \in Nat \ {0}
  BY <1>0, EarnersTypes
<1>2. /\ poll \in [pc : {"wait", "stamp", "gate", "read", "store"}, stamp : Nat,
                   gate : BOOLEAN, read : Reply, slept : 0..Interval]
      /\ wake \in [works : BOOLEAN, queued : BOOLEAN, told : BOOLEAN]
  BY <1>0 DEF EarnersTypeOK
<1>3. CASE GateTurns
  <2>1. /\ UNCHANGED <<earner, time, ledger, readable, payable, memo, poll, answer, wake, faults>>
        /\ gateOff' \in BOOLEAN /\ writes' \in 0..MaxWrites
    BY <1>0, <1>3, EarnersAssumption
    DEF GateTurns, reader, EarnersTypeOK, EarnersAssumption
  <2>2. /\ EarnedToday' <=> EarnedToday
        /\ Payable' <=> Payable
        /\ Stat' <=> Stat
        /\ Day(time)' = Day(time)
        /\ \A t : PaidSince(t)' <=> PaidSince(t)
    BY <2>1, EarnersSame
  <2>3. SleptFor' = SleptFor
    BY <2>1 DEF SleptFor
  <2>4. EarnersTypeOK'
    BY <1>0, <2>1, <2>2 DEF EarnersTypeOK, Day
  <2>5. MemoInv' /\ PollInv'
    BY <1>0, <2>1, <2>2 DEF MemoInv, PollInv
  <2>6. AnswerInv'
    BY <1>0, <2>1, <2>2, <2>3 DEF AnswerInv
  <2> QED
    BY <2>4, <2>5, <2>6 DEF EarnersInv
<1>4. CASE WatchBreaks \/ \E s \in {"ledger", "api", "stat"} : SourceTurns(s)
  <2>1. /\ UNCHANGED <<earner, time, ledger, gateOff, memo, poll, answer, writes>>
        /\ payable' = time /\ wake'.told = FALSE
        /\ wake' \in [works : BOOLEAN, queued : BOOLEAN, told : BOOLEAN]
        /\ readable' \subseteq {"ledger", "api", "stat"} /\ faults' \in 0..MaxFaults
    <3>1. faults' \in 0..MaxFaults
      BY <1>0, <1>4, EarnersAssumption
      DEF WatchBreaks, SourceTurns, Fault, EarnersTypeOK, EarnersAssumption
    <3>2. readable \subseteq {"ledger", "api", "stat"}
      BY <1>0 DEF EarnersTypeOK
    <3>3. CASE WatchBreaks
      BY <3>1, <3>2, <3>3 DEF WatchBreaks, reader
    <3>4. ASSUME NEW s \in {"ledger", "api", "stat"}, SourceTurns(s)
          PROVE  /\ UNCHANGED <<earner, time, ledger, gateOff, memo, poll, answer, writes>>
                 /\ payable' = time /\ wake' = [wake EXCEPT !.told = FALSE]
                 /\ readable' \subseteq {"ledger", "api", "stat"}
      BY <3>2, <3>4 DEF SourceTurns, reader
    <3>5. CASE ~WatchBreaks
      BY <1>2, <1>4, <3>1, <3>4, <3>5
    <3> QED
      BY <3>3, <3>5
  <2>2. /\ EarnedToday' <=> EarnedToday
        /\ Day(time)' = Day(time)
        /\ \A t : PaidSince(t)' <=> PaidSince(t)
    BY <2>1 DEF EarnedToday, Earned, Day, PaidSince
  <2>3. SleptFor' = SleptFor
    BY <2>1 DEF SleptFor
  <2>4. EarnersTypeOK'
    BY <1>0, <1>1, <2>1, <2>2 DEF EarnersTypeOK, Day
  <2>5. MemoInv' /\ PollInv'
    BY <1>0, <1>1, <2>1, <2>2 DEF MemoInv, PollInv
  <2>6. AnswerInv'
    <3>1. answer' # "yes" => time' <= payable' + TTL + SleptFor' /\ time' <= payable' + SleptFor'
      BY <1>1, <2>1, <2>3
    <3> QED
      BY <1>0, <2>1, <2>2, <2>3, <3>1 DEF AnswerInv
  <2> QED
    BY <2>4, <2>5, <2>6 DEF EarnersInv
<1>5. CASE Restarts \/ PassBegins
  <2>1. /\ UNCHANGED <<earner, time, ledger, readable, gateOff, payable, answer, writes>>
        /\ memo' \in {memo, NoMemo} /\ wake'.told = wake.told
        /\ wake' \in [works : BOOLEAN, queued : BOOLEAN, told : BOOLEAN]
        /\ poll'.stamp = 0 /\ faults' \in 0..MaxFaults
        /\ poll' \in {[Waiting EXCEPT !.slept = Interval], [Waiting EXCEPT !.pc = "stamp"]}
    <3>1. faults' \in 0..MaxFaults
      BY <1>0, <1>5, EarnersAssumption
      DEF Restarts, PassBegins, Fault, EarnersTypeOK, EarnersAssumption
    <3>2. wake' = [wake EXCEPT !.queued = FALSE] /\ memo' \in {memo, NoMemo}
          /\ poll' \in {[Waiting EXCEPT !.slept = Interval], [Waiting EXCEPT !.pc = "stamp"]}
          /\ UNCHANGED <<earner, time, ledger, readable, gateOff, payable, answer, writes>>
      BY <1>5 DEF Restarts, PassBegins
    <3>3. poll'.stamp = 0
      BY <3>2 DEF Waiting
    <3> QED
      BY <1>2, <3>1, <3>2, <3>3
  <2>2. /\ EarnedToday' <=> EarnedToday
        /\ Payable' <=> Payable
        /\ Stat' <=> Stat
        /\ Day(time)' = Day(time)
        /\ \A t : PaidSince(t)' <=> PaidSince(t)
    BY <2>1, EarnersSame
  <2>3. /\ SleptFor' = Interval /\ poll'.pc # "store"
        /\ ~(poll'.pc = "wait" /\ poll'.slept < Interval)
    BY <1>1, <2>1 DEF SleptFor, Waiting
  <2>4. EarnersTypeOK'
    <3>1. memo' \in [at : -1..time, answer : Reply, stamp : Nat]
      BY <1>0, <1>1, <2>1 DEF EarnersTypeOK, NoMemo, Reply
    <3>2. poll' \in [pc : {"wait", "stamp", "gate", "read", "store"}, stamp : Nat,
                     gate : BOOLEAN, read : Reply, slept : 0..Interval]
      <4>1. \E pc \in {"wait", "stamp"}, slept \in {0, Interval} :
              poll' = [pc |-> pc, stamp |-> 0, gate |-> FALSE, read |-> "none", slept |-> slept]
        BY <2>1 DEF Waiting
      <4>2. 0 \in 0..Interval /\ Interval \in 0..Interval /\ "none" \in Reply
        BY <1>1 DEF Reply
      <4> QED
        BY <4>1, <4>2
    <3> QED
      BY <1>0, <2>1, <2>2, <3>1, <3>2 DEF EarnersTypeOK, Day
  <2>5. MemoInv'
    <3>1. CASE memo' = memo
      BY <1>0, <1>1, <2>1, <2>2, <3>1 DEF MemoInv
    <3>2. CASE memo' = NoMemo
      <4>1. memo'.at = -1 /\ memo'.stamp = 0
        BY <3>2 DEF NoMemo
      <4> QED
        BY <1>0, <1>1, <2>1, <2>2, <4>1 DEF MemoInv
    <3> QED
      BY <2>1, <3>1, <3>2
  <2>6. AnswerInv'
    <3>1. answer = "yes" => PaidSince(time - TTL - Interval)
      BY <1>0, <1>1 DEF AnswerInv, PaidSince
    <3>2. time' - TTL - SleptFor' = time - TTL - Interval
      BY <2>1, <2>3
    <3> QED
      BY <1>0, <1>1, <2>1, <2>2, <2>3, <3>1, <3>2 DEF AnswerInv
  <2> QED
    BY <2>3, <2>4, <2>5, <2>6 DEF EarnersInv, PollInv
<1>6. CASE TimePasses
  <2>1. /\ UNCHANGED <<earner, ledger, readable, gateOff, memo, answer, wake, writes, faults>>
        /\ time' = time + 1 /\ time < EarnerHorizon /\ ~wake.queued
        /\ poll.pc = "wait" /\ poll.slept < Interval /\ poll' = [poll EXCEPT !.slept = @ + 1]
        /\ payable' = IF Day(time') # Day(time) THEN time' ELSE payable
    BY <1>6 DEF TimePasses
  <2>2. /\ poll'.pc = "wait" /\ poll'.stamp = poll.stamp /\ poll'.slept = poll.slept + 1
        /\ SleptFor = poll.slept /\ SleptFor' = poll.slept + 1
    BY <1>2, <2>1 DEF SleptFor
  <2>3. Day(time) <= Day(time') /\ Day(time') \in Nat /\ Day(time)' = Day(time')
    BY <1>1, <2>1, DayOrder DEF Day
  \* A new day earns nothing by itself.
  <2>4. EarnedToday' => EarnedToday /\ Day(time') = Day(time)
    BY <1>0, <1>1, <2>1, <2>3 DEF EarnedToday, Earned, MemoInv
  <2>5. /\ Payable' => Payable /\ payable' = payable
        /\ Stat' <=> Stat
    BY <2>1, <2>4 DEF Payable, CanRead, Stat
  <2>6. ASSUME NEW t, PaidSince(t)
        PROVE  PaidSince(t)'
    BY <1>1, <2>1, <2>6 DEF PaidSince, Day
  <2>7. EarnersTypeOK'
    <3>1. poll' \in [pc : {"wait", "stamp", "gate", "read", "store"}, stamp : Nat,
                     gate : BOOLEAN, read : Reply, slept : 0..Interval]
      BY <1>1, <1>2, <2>1
    <3>2. memo' \in [at : -1..time', answer : Reply, stamp : Nat]
      BY <1>0, <1>1, <2>1 DEF EarnersTypeOK
    <3>3. time' \in 0..EarnerHorizon /\ payable' \in 0..time'
      BY <1>1, <2>1, EarnersAssumption DEF EarnersAssumption
    <3> QED
      BY <1>0, <2>1, <3>1, <3>2, <3>3 DEF EarnersTypeOK, Day
  <2>8. MemoInv'
    BY <1>0, <1>1, <2>1, <2>2, <2>3, <2>4, <2>5, <2>6 DEF MemoInv
  <2>9. AnswerInv'
    <3>1. time' - TTL - SleptFor' = time - TTL - SleptFor
      BY <1>1, <2>1, <2>2
    <3>2. answer = "yes" => PaidSince(time - TTL - SleptFor)'
      <4> DEFINE from == time - TTL - SleptFor
      <4>1. from' = from
        BY <3>1
      <4> HIDE DEF from
      <4>2. answer = "yes" => PaidSince(from)'
        BY <1>0, <2>6, <4>1 DEF AnswerInv, from
      <4> QED
        BY <4>2 DEF from
    <3> QED
      BY <1>0, <1>1, <2>1, <2>2, <2>5, <3>1, <3>2 DEF AnswerInv
  <2> QED
    BY <2>2, <2>7, <2>8, <2>9 DEF EarnersInv, PollInv
<1> QED
  BY <1>3, <1>4, <1>5, <1>6

LEMMA EarnersInvStep == EarnersInv /\ [EarnersNext]_earnerVars => EarnersInv'
<1> SUFFICES ASSUME EarnersInv, [EarnersNext]_earnerVars PROVE EarnersInv'
  OBVIOUS
<1>1. CASE Credits
  <2>1. CASE Write(ledger.day, ledger.full)
    <3>1. ledger.full \in BOOLEAN
      BY DEF EarnersInv, EarnersTypeOK
    <3> QED
      BY <2>1, <3>1, EarnersWrite
  <2>2. CASE \E full \in (IF earner = "leetcode" THEN BOOLEAN ELSE {TRUE}) :
               (ledger.day = Day(time) => ~ledger.full) /\ Write(Day(time), full)
    <3>1. PICK full \in BOOLEAN : Write(Day(time), full)
      BY <2>2
    <3> QED
      BY <3>1, EarnersWrite
  <2> QED
    BY <1>1, <2>1, <2>2 DEF Credits
<1>2. CASE UNCHANGED earnerVars
  <2>1. UNCHANGED <<earner, time, ledger, readable, gateOff, payable, memo, poll, answer, wake,
                    writes, faults>>
    BY <1>2 DEF earnerVars
  <2> QED
    BY <2>1 DEF EarnersInv, EarnersTypeOK, MemoInv, PollInv, AnswerInv, Payable, EarnedToday,
       Earned, CanRead, Stat, SleptFor, PaidSince, Day
<1> QED
  BY <1>1, <1>2, EarnersWorld, EarnersPass DEF EarnersNext

LEMMA EarnersInvFollows == EarnersInv => AnswersFollowLedger
<1> SUFFICES ASSUME EarnersInv PROVE AnswersFollowLedger
  OBVIOUS
<1>1. EarnersTypeOK /\ AnswerInv
  BY DEF EarnersInv
<1>2. /\ time \in Nat /\ payable \in Nat /\ SleptFor \in 0..Interval
      /\ Interval \in Nat \ {0} /\ TTL \in Nat \ {0}
  BY <1>1, EarnersTypes
<1>3. NoCreditMissed
  <2> SUFFICES ASSUME Earned(FALSE), CanRead(readable), time > payable + Delay
               PROVE  answer = "yes"
    BY DEF NoCreditMissed
  <2>1. Payable
    BY DEF Payable, EarnedToday
  <2>2. ~(time <= payable + Delay)
    BY <1>2 DEF Delay
  <2>3. answer # "yes" => time <= payable + Delay
    BY <1>1, <1>2, <2>1 DEF AnswerInv, Delay
  <2> QED
    BY <2>2, <2>3
<1>4. NothingPaidUnearned
  BY <1>1, <1>2 DEF NothingPaidUnearned, AnswerInv, PaidSince
<1> QED
  BY <1>3, <1>4 DEF AnswersFollowLedger

\* The answers the budget is priced with follow what the gates have written, for
\* any TTL, any interval and any length of a day.
THEOREM EarnersFollow == EarnersSpec => []AnswersFollowLedger
  BY EarnersInvFollows, EarnersInitInv, EarnersInvStep, PTL DEF EarnersSpec

(***************************************************************************)
(* The web server's processes.                                             *)
(***************************************************************************)
Servers == [pc : {"none", "import", "stamp", "guard", "term", "kill", "bind", "listen", "retire"},
            born : Nat, stamp : Nat, code : Nat, check : {"none", "fresh", "stale"}, target : Nat]

LEMMA ServeInitInv == ServeInit => ServeTypeOK
<1> SUFFICES ASSUME ServeInit PROVE ServeTypeOK
  OBVIOUS
<1>1. NoProcess \in Servers
  BY DEF NoProcess, Servers
<1>2. inst \in [Launchers -> Servers]
  BY <1>1, Zenon DEF ServeInit
<1>3. edits \in Nat /\ clock \in Nat /\ launches \in 0..MaxServers
  BY ServeAssumption DEF ServeInit, ServeAssumption
<1>4. torn \in BOOLEAN /\ port \in Launchers \cup {"free", "stranger"}
  BY Zenon DEF ServeInit
<1> QED
  BY <1>2, <1>3, <1>4 DEF ServeTypeOK, Servers

\* Whatever one launcher's process does: both keep their type.
LEMMA ServersStay ==
    ASSUME ServeTypeOK, [ServeNext]_serveVars
    PROVE  inst' \in [Launchers -> Servers]
<1>1. inst \in [Launchers -> Servers] /\ NoProcess \in Servers
  BY DEF ServeTypeOK, Servers, NoProcess
<1>2. edits \in Nat /\ clock \in Nat
  BY DEF ServeTypeOK
<1>3. \A l \in Launchers : Other(l) \in Launchers
  BY DEF Launchers, Other
<1>4. ASSUME NEW l \in Launchers, NEW p \in Servers, SetServer(l, p)
      PROVE  inst' \in [Launchers -> Servers]
  BY <1>1, <1>4 DEF SetServer
<1>5. ASSUME NEW l \in Launchers,
             NEW pc \in {"none", "import", "stamp", "guard", "term", "kill", "bind", "listen", "retire"},
             ServerStep(l, pc)
      PROVE  inst' \in [Launchers -> Servers]
  BY <1>1, <1>5 DEF ServerStep, Servers
<1>6. ASSUME NEW l \in Launchers, Leaves(l) PROVE inst' \in [Launchers -> Servers]
  BY <1>1, <1>6, <1>4 DEF Leaves
<1>7. ASSUME NEW l \in Launchers, NEW pc \in {"bind", "kill"},
             inst' = [inst EXCEPT ![l].pc = pc, ![Other(l)] = NoProcess]
      PROVE  inst' \in [Launchers -> Servers]
  BY <1>1, <1>3, <1>7 DEF Servers
<1>8. ASSUME NEW l \in Launchers, Launch(l) \/ Import(l) \/ Stamp(l) \/ Answer(l) \/ CheckGetsOld(l)
      PROVE  inst' \in [Launchers -> Servers]
  <2>1. /\ [NoProcess EXCEPT !.pc = "import", !.born = clock] \in Servers
        /\ [inst[l] EXCEPT !.pc = "stamp", !.code = edits] \in Servers
        /\ [inst[l] EXCEPT !.pc = "guard", !.stamp = clock] \in Servers
        /\ \A check \in {"none", "fresh"} : [inst[l] EXCEPT !.check = check] \in Servers
    BY <1>1, <1>2 DEF Servers
  <2> QED
    BY <1>4, <1>8, <2>1 DEF Launch, Import, Stamp, Answer, CheckGetsOld
<1>9. ASSUME NEW l \in Launchers, EnsurePort(l) PROVE inst' \in [Launchers -> Servers]
  <2>1. CASE port = Other(l)
    <3>1. [inst[l] EXCEPT !.pc = "term", !.target = inst[port].born] \in Servers
      BY <1>1, <1>3, <2>1 DEF Servers
    <3> QED
      BY <1>4, <1>5, <1>6, <1>9, <3>1 DEF EnsurePort
  <2>2. CASE port # Other(l)
    BY <1>5, <1>6, <1>9, <2>2 DEF EnsurePort
  <2> QED
    BY <2>1, <2>2
<1>10. ASSUME NEW l \in Launchers,
              Terminate(l) \/ Kill(l) \/ Bind(l) \/ Refuse(l) \/ ShutDown(l) \/ RestartView
       PROVE  inst' \in [Launchers -> Servers]
  BY <1>5, <1>6, <1>7, <1>10 DEF Terminate, Kill, Bind, Refuse, ShutDown, RestartView, Launchers
<1>11. CASE Edit \/ StrangerLeaves \/ UNCHANGED serveVars
  BY <1>1, <1>11 DEF Edit, StrangerLeaves, serveVars
<1> QED
  BY <1>8, <1>9, <1>10, <1>11 DEF ServeNext, Starting, Serving, Launchers

LEMMA ServeStepInv == ServeTypeOK /\ [ServeNext]_serveVars => ServeTypeOK'
<1> SUFFICES ASSUME ServeTypeOK, [ServeNext]_serveVars PROVE ServeTypeOK'
  OBVIOUS
<1>1. inst' \in [Launchers -> Servers]
  BY ServersStay
<1>2. /\ edits' \in Nat /\ clock' \in Nat /\ launches' \in 0..MaxServers /\ torn' \in BOOLEAN
      /\ port' \in Launchers \cup {"free", "stranger"}
  <2> USE DEF ServeTypeOK
  <2>1. ASSUME NEW l \in Launchers, Launch(l) PROVE launches' \in 0..MaxServers
    BY <2>1, ServeAssumption DEF Launch, ServeAssumption
  <2>2. ASSUME NEW l \in Launchers, Stamp(l) PROVE torn' \in BOOLEAN
    BY <2>2 DEF Stamp
  <2>3. ASSUME NEW l \in Launchers, Terminate(l) \/ Kill(l) \/ Bind(l) \/ ShutDown(l)
        PROVE  port' \in Launchers \cup {"free", "stranger"}
    BY <2>3 DEF Terminate, Kill, Bind, ShutDown, Freed
  <2>4. CASE Edit
    BY <2>4 DEF Edit
  <2>5. CASE \E l \in Launchers : Launch(l)
    BY <2>1, <2>5 DEF Launch
  <2>6. CASE \E l \in Launchers : Stamp(l)
    BY <2>2, <2>6 DEF Stamp
  <2>7. CASE \E l \in Launchers : Terminate(l) \/ Kill(l) \/ Bind(l) \/ ShutDown(l)
    BY <2>3, <2>7 DEF Terminate, Kill, Bind, ShutDown
  <2>8. CASE \E l \in Launchers : Import(l) \/ EnsurePort(l) \/ Answer(l) \/ Refuse(l) \/ CheckGetsOld(l)
    BY <2>8 DEF Import, EnsurePort, Answer, Refuse, CheckGetsOld
  <2>9. CASE RestartView \/ StrangerLeaves \/ UNCHANGED serveVars
    BY <2>9 DEF RestartView, StrangerLeaves, serveVars
  <2> QED
    BY <2>4, <2>5, <2>6, <2>7, <2>8, <2>9, Zenon DEF ServeNext, Starting, Serving
<1> QED
  BY <1>1, <1>2 DEF ServeTypeOK, Servers

-----------------------------------------------------------------------------
(***************************************************************************)
(* All of them side by side.                                               *)
(***************************************************************************)
PartsInv ==
    /\ AddressesInv /\ KillInv /\ LogInv /\ ServeTypeOK /\ LibraryInv
    /\ HltbInv /\ EarnersInv /\ ScanInv /\ LookupInv /\ TreeInv

\* What a step of one component is to another: a step of its own, or none.
LEMMA PartsStepIs ==
    ASSUME [PartsNext]_partVars
    PROVE  /\ [BlocksNext]_blockVars /\ [KillNext]_killVars /\ [EventLogNext]_eventVars
           /\ [ServeNext]_serveVars /\ [LibraryNext]_libraryVars /\ [HltbNext]_hltbVars
           /\ [EarnersNext]_earnerVars /\ [ScanNext]_scanVars /\ [LookupNext]_lookup
           /\ [KillTreeNext]_treeVars
<1>1. CASE PartsNext
  BY <1>1, Zenon DEF PartsNext, Others, Rests
<1>2. CASE UNCHANGED partVars
  BY <1>2 DEF partVars
<1> QED
  BY <1>1, <1>2

LEMMA PartsInitInv == PartsInit => PartsInv
<1> SUFFICES ASSUME PartsInit PROVE PartsInv
  OBVIOUS
<1>1. /\ BlocksInit /\ KillInit /\ EventLogInit /\ ServeInit /\ LibraryInit
      /\ HltbInit /\ EarnersInit /\ ScanInit /\ LookupInit /\ KillTreeInit
  BY DEF PartsInit
<1> QED
  BY <1>1, BlocksInitInv, KillInitInv, LogInitInv, ServeInitInv, LibraryInitInv, HltbInitInv,
     EarnersInitInv, ScanInitInv, LookupInitInv, TreeInitInv DEF PartsInv

LEMMA PartsStepInv == PartsInv /\ [PartsNext]_partVars => PartsInv'
BY PartsStepIs, BlocksStepInv, KillStepInv, LogStepInv, ServeStepInv, LibraryStepInv,
   HltbStepInv, EarnersInvStep, ScanStepInv, LookupStepInv, TreeStepInv DEF PartsInv

LEMMA PartsInvTypes == PartsInv => PartsTypeOK
<1> SUFFICES ASSUME PartsInv PROVE PartsTypeOK
  OBVIOUS
<1>1. BlocksTypeOK /\ LeisureKillTypeOK /\ EventLogTypeOK /\ ServeTypeOK /\ LibraryTypeOK
  BY DEF PartsInv, AddressesInv, KillInv, LogInv, LibraryInv
<1>2. EarnersTypeOK /\ ScanTypeOK /\ LookupTypeOK
  BY DEF PartsInv, EarnersInv, ScanInv, LookupInv
<1>3. HltbTypeOK
  <2>1. stored \in Table(Entry) /\ fetch \in Fetches
    BY DEF PartsInv, HltbInv, FetchTypeOK
  <2>2. Cache(stored)
    BY <2>1, TableIs DEF Cache
  <2>3. /\ fetch.kind \in Kind /\ fetch.todo \subseteq App /\ fetch.found \subseteq App
        /\ fetch.pc \in {"dead", "over", "load", "auth", "search", "pages", "finish", "restore"}
    BY <2>1 DEF Fetches
  <2> QED
    BY <2>2, <2>3 DEF HltbTypeOK
<1>4. KillTreeTypeOK
  BY DEF PartsInv, TreeInv, TreeTypeOK, Parents, KillTreeTypeOK
<1> QED
  BY <1>1, <1>2, <1>3, <1>4 DEF PartsTypeOK

\* Every component keeps its type, whichever of them moves.
THEOREM PartsTyped == PartsSpec => []PartsTypeOK
  BY PartsInvTypes, PartsInitInv, PartsStepInv, PTL DEF PartsSpec
=============================================================================
