\* The ids of games a search does not look up, while it saves.
SPECIFICATION HltbSpec
CONSTANTS
    App = {"a", "b"}
    Replies <- HltbReplies
    DetailPages <- HltbDetails
    OwnHours <- HltbOwn
    MinSimilarity = 1
    DominanceRatio = 4
    MinConfidence = 3
    SaveInterval = 2
    FirstCaches <- HltbCaches
    MaxCommands = 2
PROPERTIES IdsSurvive
CHECK_DEADLOCK FALSE
