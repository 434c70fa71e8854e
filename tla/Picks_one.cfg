\* One session, two slots: every command after the other.
CONSTANTS
    g1 = g1 g2 = g2 g3 = g3 cli = cli web = web
    App <- Games
    NoApp = NoApp
    MaxPicks = 2
    LockDays = 2
    AbandonDays = 3
    ReleaseDays = 1
    SkipDays = 1
    Session <- OneSession
    Commands <- OneDoesAll
    MaxTime = 3
    MaxPlayed = 2
SPECIFICATION OneSpec
SYMMETRY SymmetryGames
INVARIANTS RecordsWellFormed
PROPERTIES MovesOnWhenEarned PicksHold
CHECK_DEADLOCK FALSE
