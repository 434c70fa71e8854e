\* Ten components side by side, one moving in each behaviour.
SPECIFICATION PartsSpec
CONSTANTS
    BlockDays = 2
    WindowLengths <- Lengths
    BlockEvents = 2
    BlockHorizon = 5
    Pids = {1}
    MaxStart = 2
    Patience = 2
    SweepAfter = 2
    MaxTickGap = 2
    Gaps = {1, 3}
    Jumps <- KillJumps
    MaxJumps = 1
    Threads = {"pump", "list"}
    Streamer = "pump"
    JobEvents <- OneJob
    MaxBreaks = 2
    MaxEdits = 4
    MaxServers = 2
    Games = {"x", "y"}
    Adders = {"cli"}
    LibraryEvents = 2
    App = {"a", "b"}
    Replies <- HltbReplies
    SearchPages <- HltbSearches
    MaxVariants = 2
    DetailPages <- HltbDetails
    OwnHours <- HltbOwn
    MinSimilarity = 1
    DominanceRatio = 4
    MinConfidence = 3
    SaveInterval = 2
    FirstCaches <- HltbCaches
    MaxCommands = 2
    TTL = 2
    Interval = 1
    DayLength = 3
    EarnerHorizon = 6
    MaxWrites = 2
    MaxFaults = 1
    Owned = {"x"}
    Scanners = {"cli", "job"}
    Recheck = 2
    ScanHorizon = 2
    MaxScans = 2
    MaxChanges = 1
    Procs = {1, 2, 3}
    Daemon = 1
    MaxDepth = 2
    MaxTurnover = 2
INVARIANTS PartsTypeOK RealAddressesKept SignalsAreDue BrowserSeesPrefix
INVARIANTS EstimatesKept EstimateIsWhole AnswersFollowLedger
INVARIANTS HiddenOnlyOnAnswer KillsTheTree
PROPERTIES BlocksEnd NamedEnds BrowserSeesEnd
PROPERTIES CurrentCodeServes KeptGamesStay LaunchSparesInstaller AllowedComesBack
PROPERTIES OthersKeepTimes
CHECK_DEADLOCK FALSE
