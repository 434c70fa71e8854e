\* Two launchers, any one disturbance, fair scheduling.
CONSTANTS
    steam = steam lutris = lutris
    Target <- TwoTargets
    Thresholds = {}
    Budgets = {1, 2}
    DayLength = 3
    Clamp = 2
    GapSlack = 1
    MaxGap = 3
    Grace = 1
    SigkillAfter = 2
    LeisureFrom = 1
    MaxTime = 5
    MaxEvents = 1
    Events = {"fault", "crash", "restart", "reset", "delete", "step", "price", "pacman", "block", "switch"}
SPECIFICATION FairSpec
PROPERTIES BlockFollowsBudget
