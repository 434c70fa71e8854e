\* The daemon's sweep overlaps a pick made by the user.
CONSTANTS
    g1 = g1 g2 = g2 g3 = g3 cli = cli web = web
    App <- TwoGames
    NoApp = NoApp
    MaxPicks = 2
    LockDays = 2
    AbandonDays = 3
    ReleaseDays = 1
    SkipDays = 1
    Session <- TwoSessions
    Commands <- DaemonAndUser
    MaxTime = 3
    MaxPlayed = 1
SPECIFICATION Spec
PROPERTIES PicksHold
CHECK_DEADLOCK FALSE
