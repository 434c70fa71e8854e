--------------------------------- MODULE Serve ---------------------------------
(***************************************************************************)
(* The web server as a process: the systemd unit and a serve typed by hand *)
(* share one port; a launch reports a current server, replaces an outdated *)
(* one and gives way to a stranger; a server that its own source has       *)
(* outrun refuses its next request and stands down.                        *)
(*                                                                         *)
(* Time is counted in edits of the source: the newest file's mtime.        *)
(***************************************************************************)
EXTENDS Integers

CONSTANTS
    MaxEdits,   \* bound on edits
    MaxServers  \* bound on the processes launched by hand

ASSUME ServeAssumption == MaxEdits \in Nat /\ MaxServers \in Nat

VARIABLES
    edits,      \* mtime of the newest source file
    clock,      \* the time, one ahead of it while nothing is edited
    inst,       \* the process of each launcher
    port,       \* who listens: a launcher, "stranger" or "free"
    launches,   \* how many processes the user started
    torn        \* history: an edit came between a process's import and its stamp

serveVars == <<edits, clock, inst, port, launches, torn>>

Launchers == {"unit", "hand"}
NoProcess == [pc |-> "none", born |-> 0, stamp |-> 0, code |-> 0, check |-> "none", target |-> 0]
Other(l) == IF l = "unit" THEN "hand" ELSE "unit"

ServeTypeOK ==
    /\ edits \in Nat /\ clock \in Nat /\ launches \in 0..MaxServers /\ torn \in BOOLEAN
    /\ inst \in [Launchers ->
          [pc: {"none", "import", "stamp", "guard", "term", "kill", "bind", "listen", "retire"},
           born: Nat, stamp: Nat, code: Nat, check: {"none", "fresh", "stale"}, target: Nat]]
    /\ port \in Launchers \cup {"free", "stranger"}

SetServer(l, p) == inst' = [inst EXCEPT ![l] = p]
ServerStep(l, pc) == inst' = [inst EXCEPT ![l].pc = pc]
Leaves(l) == SetServer(l, NoProcess)

\* Restart=always brings the unit back; the user starts a few by hand.
Launch(l) ==
    /\ inst[l].pc = "none"
    /\ l = "hand" => launches < MaxServers
    /\ launches' = IF l = "hand" THEN launches + 1 ELSE launches
    /\ SetServer(l, [NoProcess EXCEPT !.pc = "import", !.born = clock])
    /\ UNCHANGED <<edits, clock, port, torn>>

\* The code is loaded, then STARTED_AT is read.
Import(l) ==
    /\ inst[l].pc = "import"
    /\ SetServer(l, [inst[l] EXCEPT !.pc = "stamp", !.code = edits])
    /\ UNCHANGED <<edits, clock, port, launches, torn>>

Stamp(l) ==
    /\ inst[l].pc = "stamp"
    /\ SetServer(l, [inst[l] EXCEPT !.pc = "guard", !.stamp = clock])
    /\ torn' = (torn \/ inst[l].code # edits)
    /\ UNCHANGED <<edits, clock, port, launches>>

\* ensure_port_available: the owner's own start time decides.
EnsurePort(l) ==
    /\ inst[l].pc = "guard"
    /\ IF port = "free" THEN ServerStep(l, "bind")
       ELSE IF port = Other(l) /\ edits > inst[port].born
       THEN SetServer(l, [inst[l] EXCEPT !.pc = "term", !.target = inst[port].born])
       ELSE Leaves(l)
    /\ UNCHANGED <<edits, clock, port, launches, torn>>

\* A server that retired or was replaced meanwhile is not signalled.
SameServer(l) == inst[Other(l)].pc \in {"listen", "retire"} /\ inst[Other(l)].born = inst[l].target
Freed == IF port \in Launchers THEN "free" ELSE port

Terminate(l) ==
    /\ inst[l].pc = "term"
    /\ IF ~SameServer(l) THEN Leaves(l) /\ UNCHANGED port
       ELSE \/ inst' = [inst EXCEPT ![l].pc = "kill", ![Other(l)] = NoProcess] /\ port' = Freed
            \/ ServerStep(l, "kill") /\ UNCHANGED port
    /\ UNCHANGED <<edits, clock, launches, torn>>

\* The port came free, or SIGKILL goes to the pid the first signal went to.
Kill(l) ==
    /\ inst[l].pc = "kill"
    /\ IF port = "free" THEN ServerStep(l, "bind") /\ UNCHANGED port
       ELSE IF SameServer(l)
       THEN inst' = [inst EXCEPT ![l].pc = "bind", ![Other(l)] = NoProcess] /\ port' = Freed
       ELSE Leaves(l) /\ UNCHANGED port
    /\ UNCHANGED <<edits, clock, launches, torn>>

\* Between the guard and the bind someone else may take the port.
Bind(l) ==
    /\ inst[l].pc = "bind"
    /\ IF port = "free" THEN port' = l /\ ServerStep(l, "listen") ELSE Leaves(l) /\ UNCHANGED port
    /\ UNCHANGED <<edits, clock, launches, torn>>

(***************************************************************************)
(* Serving.                                                                *)
(***************************************************************************)
\* outdated_source: looked up again once the cached answer is old.
Outdated(l) == IF inst[l].check = "none" THEN edits > inst[l].stamp ELSE inst[l].check = "stale"

Answer(l) ==
    /\ inst[l].pc = "listen" /\ ~Outdated(l) /\ inst[l].check = "none"
    /\ SetServer(l, [inst[l] EXCEPT !.check = "fresh"])
    /\ UNCHANGED <<edits, clock, port, launches, torn>>

\* Mutant: the request is refused and the server stays.
RefuseAndStay(l) == inst[l].pc = "listen" /\ Outdated(l)
    /\ SetServer(l, [inst[l] EXCEPT !.check = "stale"])
    /\ UNCHANGED <<edits, clock, port, launches, torn>>

Refuse(l) ==
    /\ inst[l].pc = "listen" /\ Outdated(l)
    /\ ServerStep(l, "retire")
    /\ UNCHANGED <<edits, clock, port, launches, torn>>

CheckGetsOld(l) ==
    /\ inst[l].check # "none" /\ SetServer(l, [inst[l] EXCEPT !.check = "none"])
    /\ UNCHANGED <<edits, clock, port, launches, torn>>

\* restart_view: only under systemd.
RestartView ==
    /\ inst["unit"].pc = "listen" /\ ServerStep("unit", "retire")
    /\ UNCHANGED <<edits, clock, port, launches, torn>>

ShutDown(l) ==
    /\ inst[l].pc = "retire" /\ Leaves(l) /\ port' = "free"
    /\ UNCHANGED <<edits, clock, launches, torn>>

Edit ==
    /\ edits < MaxEdits /\ edits' = clock + 1 /\ clock' = clock + 2
    /\ UNCHANGED <<inst, port, launches, torn>>

StrangerLeaves ==
    /\ port = "stranger" /\ port' = "free"
    /\ UNCHANGED <<edits, clock, inst, launches, torn>>

ServeInit ==
    /\ edits = 0 /\ clock = 1 /\ inst = [l \in Launchers |-> NoProcess]
    /\ port \in {"free", "stranger"} /\ launches = 0 /\ torn = FALSE

Starting(l) == Import(l) \/ Stamp(l) \/ EnsurePort(l) \/ Terminate(l) \/ Kill(l) \/ Bind(l)
Serving(l) == Answer(l) \/ Refuse(l) \/ CheckGetsOld(l) \/ ShutDown(l)
ServeNext ==
    \/ \E l \in Launchers : Launch(l) \/ Starting(l) \/ Serving(l)
    \/ RestartView \/ Edit \/ StrangerLeaves

\* systemd restarts the unit, processes run, requests keep coming.
ServeFairness ==
    /\ WF_serveVars(Launch("unit"))
    /\ \A l \in Launchers : WF_serveVars(Starting(l)) /\ WF_serveVars(Refuse(l))
                            /\ WF_serveVars(CheckGetsOld(l)) /\ WF_serveVars(ShutDown(l))
ServeSpec == ServeInit /\ [][ServeNext]_serveVars /\ ServeFairness

(***************************************************************************)
(* Properties.                                                             *)
(***************************************************************************)
\* Once nothing is edited any more the port comes to be held by current code,
\* stranger permitting (_serve_startup.py:132).
CurrentCodeServes ==
    []<>(port = "stranger" \/ torn \/ \E l \in Launchers : port = l /\ inst[l].code = edits)
=============================================================================
