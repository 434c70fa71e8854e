\* Liveness of requests and restarts.
CONSTANTS
    c1 = c1 c2 = c2
    Conn <- TwoConns
    Countdown = 1
    Lapse = 1
    Interval = 2
    Steps <- NoSteps
    MaxTime = 2
    MaxArms = 1
    MaxRestarts = 2
    MaxCrashes = 1
    MaxSteps = 0
SPECIFICATION FairSpec
PROPERTIES RequestsEnd RestartComesBack
