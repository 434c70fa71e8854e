\* One day and the next, any two disturbances.
CONSTANTS
    steam = steam lutris = lutris
    Target <- OneTarget
    Thresholds = {1}
    Budgets = {1, 2}
    DayLength = 3
    Clamp = 2
    GapSlack = 1
    MaxGap = 3
    Grace = 1
    SigkillAfter = 2
    LeisureFrom = 1
    MaxTime = 5
    MaxEvents = 2
    Events = {"fault", "crash", "restart", "reset", "delete", "step", "price", "pacman", "block", "switch"}
SPECIFICATION Spec
INVARIANTS ShadowCoversEnforced
PROPERTIES HeldThroughTheDay MaskComesOffForCause RestartIsNoFreePlay SpentOnlyGrows
