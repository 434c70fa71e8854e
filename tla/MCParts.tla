-------------------------------- MODULE MCParts --------------------------------
(***************************************************************************)
(* The smaller components for TLC, side by side: in every behaviour one of  *)
(* them, named by part, moves, and the others keep their first state.       *)
(***************************************************************************)
EXTENDS Blocks, LeisureKill, EventLog, Serve, Library, MCHltb, HltbLookup, Earners,
        Scan, KillTree

VARIABLE part

Parts == {"blocks", "kill", "log", "serve", "library", "hltb", "earners", "scan",
          "lookup", "tree"}
Lengths == {1, 2}
KillJumps == {1, -1}
OneJob == <<"running", "log", "result", "over">>

BlocksRests == net.store = "none" /\ setup = [block |-> FALSE, assigned |-> FALSE]
ServeRests == port = "stranger"
\* The games are alike and Steam may be closed later: one of each is enough.
LibraryStarts == client = "open" /\ allowed = {"x"}
LibraryRests == \A g \in Games : manifest[g] = "full"
HltbRests == stored = Empty /\ writable
ScanRests == flagged = {} /\ has = {} /\ DOMAIN noneFile = {}
TreeRests == kill.roots = {} /\ \A p \in Procs : parent[p] = NoParent
EarnersRests == earner = "reading" /\ "stat" \in readable

PartsInit ==
    /\ part \in Parts
    /\ BlocksInit /\ (part # "blocks" => BlocksRests)
    /\ KillInit /\ EventLogInit
    /\ ServeInit /\ (part # "serve" => ServeRests)
    /\ LibraryInit /\ LibraryStarts /\ (part # "library" => LibraryRests)
    /\ HltbInit /\ (part # "hltb" => HltbRests)
    /\ EarnersInit /\ (part # "earners" => EarnersRests)
    /\ ScanInit /\ (part # "scan" => ScanRests)
    /\ LookupInit /\ (part # "lookup" => Len(lookup.queries) = 1)
    /\ KillTreeInit /\ (part # "tree" => TreeRests)

\* All but the one that moves stay as they are.
Rests(name, vars) == IF part = name THEN TRUE ELSE UNCHANGED vars
Others ==
    /\ UNCHANGED part
    /\ Rests("blocks", blockVars)
    /\ Rests("kill", killVars)
    /\ Rests("log", eventVars)
    /\ Rests("serve", serveVars)
    /\ Rests("library", libraryVars)
    /\ Rests("hltb", hltbVars)
    /\ Rests("earners", earnerVars)
    /\ Rests("scan", scanVars)
    /\ Rests("lookup", lookup)
    /\ Rests("tree", treeVars)
PartsNext ==
    \/ part = "blocks" /\ BlocksNext /\ Others
    \/ part = "kill" /\ KillNext /\ Others
    \/ part = "log" /\ EventLogNext /\ Others
    \/ part = "serve" /\ ServeNext /\ Others
    \/ part = "library" /\ LibraryNext /\ Others
    \/ part = "hltb" /\ HltbNext /\ Others
    \/ part = "earners" /\ EarnersNext /\ Others
    \/ part = "scan" /\ ScanNext /\ Others
    \/ part = "lookup" /\ LookupNext /\ Others
    \/ part = "tree" /\ KillTreeNext /\ Others

\* The fairness of each component, while it is the one that moves.
Turn(name, next) == part = name /\ next
PartsFairness ==
    /\ WF_blockVars(Turn("blocks", BlocksDaemon)) /\ WF_blockVars(Turn("blocks", BlockClock))
    /\ WF_killVars(Turn("kill", KillTick))
    /\ WF_eventVars(Turn("log", JobEmits \/ JobDies)) /\ WF_eventVars(Turn("log", PumpSteps))
    /\ WF_eventVars(Turn("log", HubOpens)) /\ WF_eventVars(Turn("log", HubIngests))
    /\ WF_eventVars(Turn("log", HubReconnects))
    /\ WF_serveVars(Turn("serve", Launch("unit")))
    /\ \A l \in Launchers :
          /\ WF_serveVars(Turn("serve", Starting(l))) /\ WF_serveVars(Turn("serve", Refuse(l)))
          /\ WF_serveVars(Turn("serve", CheckGetsOld(l))) /\ WF_serveVars(Turn("serve", ShutDown(l)))
    /\ WF_libraryVars(Turn("library", Pass("daemon")))
    /\ WF_libraryVars(Turn("library", Installing("job") \/ JobWaits))
    /\ \A p \in Actors : WF_libraryVars(Turn("library", RunCloses(p) \/ RunEnds(p)))

\* Type invariant of all of them.
PartsTypeOK ==
    /\ BlocksTypeOK /\ LeisureKillTypeOK /\ EventLogTypeOK /\ ServeTypeOK /\ LibraryTypeOK
    /\ HltbTypeOK /\ EarnersTypeOK /\ ScanTypeOK /\ LookupTypeOK /\ KillTreeTypeOK

partVars == <<part, blockVars, killVars, eventVars, serveVars, libraryVars, hltbVars,
              earnerVars, scanVars, lookup, treeVars>>
PartsSpec == PartsInit /\ [][PartsNext]_partVars /\ PartsFairness
=============================================================================
