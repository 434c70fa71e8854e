SPECIFICATION LibrarySpec
CONSTANTS
    Games = {"x", "y"}
    Adders = {"cli"}
    LibraryEvents = 2
CHECK_DEADLOCK FALSE
PROPERTY StalledRunsEnd
